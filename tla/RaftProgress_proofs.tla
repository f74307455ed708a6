-------------------------- MODULE RaftProgress_proofs --------------------------
(***************************************************************************)
(* More proofs about the Raft plugin, for any set of nodes and values and  *)
(* any bounds: nodes keep the timers they act by, a leader commits nothing *)
(* that a majority does not have, and nobody what no leader has sent.      *)
(***************************************************************************)
EXTENDS RaftNode_proofs

-----------------------------------------------------------------------------
(* The inductive invariant.                                                *)

\* In the state r the node n waits for what it acts by; h are the nodes that have been
\* made inactive.  A node that has not is active.
Waits(n, r, h) ==
    /\ DetectorConfigured /\ r.state = "leader" => r.timers = {"heartbeat"}
    /\ n \notin h => /\ r.active
                     /\ r.state # "leader" => r.timers \cap {"election", "discovery"} # {}

\* Whoever answered a heartbeat is at its number or past it,
ResponsesBacked ==
    \A m \in msgs : m.type = "AppendResponse" => node[m.from].tn >= m.tn

\* and so is whoever a node has heard such an answer from.
MatchBacked == \A n, k \in Nodes : node[n].match[k] <= node[k].tn

ProgressInv ==
    /\ \A n \in Nodes : Waits(n, node[n], hit)
    /\ ResponsesBacked
    /\ MatchBacked

\* The nodes that are where n is, or past it.
Level(n) == {m \in Nodes : node[m].tn >= node[n].tn}

\* If n becomes r it commits, as a leader and of its own accord, nothing that is not
\* replicated.
Backed(n, r) ==
    /\ mode = "classic"
    /\ node[n].state = "leader" /\ r.state = "leader"
    /\ r.tn = node[n].tn /\ r.comm # node[n].comm
    => Cardinality(Level(n)) >= Majority(Cardinality(Nodes))

\* What a step of n has to respect: n becomes r and sends the messages of M.
Steady(n, r, M) ==
    /\ r.tn >= node[n].tn
    /\ \A k \in Nodes : r.match[k] <= node[k].tn
    /\ Waits(n, r, hit')
    /\ Backed(n, r)
    /\ \A x \in M : x.type = "AppendResponse" => x.from = n /\ x.tn <= r.tn

CommitsBacked ==
    \A n \in Nodes :
        /\ mode = "classic"
        /\ node[n].state = "leader" /\ node'[n].state = "leader"
        /\ node'[n].tn = node[n].tn /\ node'[n].comm # node[n].comm
        => Cardinality(Level(n)) >= Majority(Cardinality(Nodes))

\* Numbers are numbers.
LEMMA Numbers ==
    ASSUME TypeOK
    PROVE  /\ \A n \in Nodes : /\ node[n] \in NodeState
                               /\ node[n].tn \in 0 .. MaxNumber
                               /\ node[n].match \in [Nodes -> 0 .. MaxNumber]
                               /\ node[n].timers \subseteq Timers
           /\ \A m \in msgs : m.type = "AppendResponse" =>
                 m.from \in Nodes /\ m.tn \in 0 .. MaxNumber
           /\ MaxNumber \in Nat
  BY RaftBoundsAssumption DEF TypeOK, NodeState, Messages

\* A steady step preserves the invariant and backs its commits.
LEMMA SteadyKeeps ==
    ASSUME TypeOK, ProgressInv, NEW n \in Nodes, NEW r \in NodeState, NEW M,
           Steady(n, r, M), node' = [node EXCEPT ![n] = r],
           msgs' = msgs \cup M, mode' = mode, hit \subseteq hit'
    PROVE  ProgressInv' /\ CommitsBacked
  <1>1. /\ node'[n] = r
        /\ \A m \in Nodes \ {n} : node'[m] = node[m]
    BY DEF TypeOK
  <1>2. /\ r.tn \in 0 .. MaxNumber /\ r.match \in [Nodes -> 0 .. MaxNumber]
        /\ \A m \in Nodes : node'[m].tn \in Nat /\ node'[m].tn >= node[m].tn
    BY <1>1, Numbers DEF NodeState, Steady
  <1>3. \A m \in Nodes : Waits(m, node'[m], hit')
    <2> TAKE m \in Nodes
    <2>1. CASE m = n
      BY <2>1, <1>1 DEF Steady
    <2>2. CASE m # n
      BY <2>2, <1>1 DEF ProgressInv, Waits
    <2> QED BY <2>1, <2>2
  <1>4. ResponsesBacked'
    <2> SUFFICES ASSUME NEW m \in msgs', m.type = "AppendResponse"
                 PROVE  node'[m.from].tn >= m.tn
      BY DEF ResponsesBacked
    <2>1. CASE m \in msgs
      BY <2>1, <1>2, Numbers DEF ProgressInv, ResponsesBacked
    <2>2. CASE m \in M
      BY <2>2, <1>1 DEF Steady
    <2> QED BY <2>1, <2>2
  <1>5. MatchBacked'
    <2> SUFFICES ASSUME NEW m \in Nodes, NEW k \in Nodes
                 PROVE  node'[m].match[k] <= node'[k].tn
      BY DEF MatchBacked
    <2>1. node'[m].match[k] \in Nat /\ node'[m].match[k] <= node[k].tn
      BY <1>1, <1>2, Numbers DEF ProgressInv, MatchBacked, Steady
    <2> QED BY <2>1, <1>2, Numbers
  <1>6. CommitsBacked
    BY <1>1 DEF CommitsBacked, Steady, Backed
  <1> QED BY <1>3, <1>4, <1>5, <1>6 DEF ProgressInv, Waits

-----------------------------------------------------------------------------
(* What the handlers are made of.                                          *)

\* What an action leaves alone that is about timers and numbers.
SameProgress(q, r) == /\ q.state = r.state /\ q.timers = r.timers /\ q.active = r.active
                      /\ q.tn = r.tn /\ q.match = r.match

\* A node that stays as it is.
LEMMA StayingSteady ==
    ASSUME TypeOK, ProgressInv, NEW n \in Nodes, hit' = hit
    PROVE  Steady(n, node[n], {})
  BY Numbers DEF ProgressInv, MatchBacked, Steady, Backed

\* Hearing a message: the node stays as it is or follows, waiting for an election.
LEMMA HeardSteady ==
    ASSUME TypeOK, ProgressInv, NEW n \in Nodes, NEW m \in msgs, hit' = hit
    PROVE  /\ Steady(n, Heard(n, m), {}) /\ Heard(n, m) \in NodeState
           /\ Heard(n, m).tn = node[n].tn /\ Heard(n, m).match = node[n].match
           /\ Heard(n, m).comm = node[n].comm
           /\ Heard(n, m).state # "follower" => Heard(n, m) = node[n]
  <1> DEFINE r == StepDown(node[n], m.term)
  <1>1. CASE m.term > node[n].term
    <2>1. /\ r.state = "follower" /\ r.timers = {"election"}
          /\ r.active = node[n].active /\ r.tn = node[n].tn
          /\ r.match = node[n].match /\ r.comm = node[n].comm
      BY Numbers DEF StepDown, NodeState
    <2>2. Steady(n, r, {})
      BY <2>1, Numbers DEF ProgressInv, MatchBacked, Waits, Steady, Backed
    <2> QED BY <1>1, <2>1, <2>2, HeardType DEF Heard
  <1>2. CASE ~(m.term > node[n].term)
    BY <1>2, StayingSteady, HeardType DEF Heard
  <1> QED BY <1>1, <1>2

\* A commit touches neither, and is confirmed.
LEMMA CommitAside ==
    ASSUME NEW n \in Nodes, NEW r \in NodeState
    PROVE  /\ SameProgress(Commit(n, r), r)
           /\ Commit(n, r).comm # r.comm => Confirmed(n, r)
  <1>1. CASE r.cons \notin {Cleared, r.comm} /\ Confirmed(n, r)
    BY <1>1 DEF Commit, NodeState, SameProgress
  <1>2. CASE ~(r.cons \notin {Cleared, r.comm} /\ Confirmed(n, r))
    BY <1>2 DEF Commit, SameProgress
  <1> QED BY <1>1, <1>2

\* Nor does the detector's check, and with fixed majorities whom it holds failed is no
\* matter of what is confirmed.
LEMMA DetectedAside ==
    ASSUME NEW n \in Nodes, NEW r \in NodeState, NEW q \in Detected(n, r)
    PROVE  /\ SameProgress(q, r)
           /\ mode = "classic" /\ q.comm # r.comm => Confirmed(n, r)
  <1>1. CASE ~DetectorConfigured
    BY <1>1 DEF Detected, SameProgress
  <1>2. CASE DetectorConfigured
    <2>1. PICK F \in SUBSET (Nodes \ {n}) :
             \/ q = [r EXCEPT !.failed = F]
             \/ \E I \in SUBSET (r.failed \cup F) :
                   q = [Recovers(n, r, I) EXCEPT !.failed = F]
      BY <1>2 DEF Detected
    <2>2. CASE q = [r EXCEPT !.failed = F]
      BY <2>2 DEF NodeState, SameProgress
    <2>3. CASE \E I \in SUBSET (r.failed \cup F) :
                  q = [Recovers(n, r, I) EXCEPT !.failed = F]
      <3>1. PICK I \in SUBSET (r.failed \cup F) :
               q = [Recovers(n, r, I) EXCEPT !.failed = F]
        BY <2>3
      <3> DEFINE p == [r EXCEPT !.failed = I]
                 c == Recovers(n, r, I)
      <3>2. p \in NodeState /\ SameProgress(p, r) /\ p.comm = r.comm
        BY DEF NodeState, SameProgress
      <3>3. c = p \/ c = Commit(n, p)
        BY DEF Recovers
      <3>4. /\ Commit(n, p) \in NodeState /\ SameProgress(Commit(n, p), p)
            /\ Commit(n, p).comm # p.comm => Confirmed(n, p)
        BY <3>2, CommitType, CommitAside
      <3>5. mode = "classic" /\ Confirmed(n, p) => Confirmed(n, r)
        BY <3>2 DEF Confirmed, SameProgress
      <3>6. /\ c \in NodeState /\ SameProgress(c, r)
            /\ mode = "classic" /\ c.comm # r.comm => Confirmed(n, r)
        BY <3>2, <3>3, <3>4, <3>5 DEF SameProgress
      <3> HIDE DEF c
      <3>7. q = [c EXCEPT !.failed = F]
        BY <3>1 DEF c
      <3>8. SameProgress(q, c) /\ q.comm = c.comm
        BY <3>6, <3>7 DEF NodeState, SameProgress
      <3> QED BY <3>6, <3>8 DEF SameProgress
    <2> QED BY <2>1, <2>2, <2>3
  <1> QED BY <1>1, <1>2

\* Who has answered at the number of n is level with n, and n is with itself.
LEMMA ConfirmedBacked ==
    ASSUME TypeOK, NEW n \in Nodes, NEW r \in NodeState, mode = "classic",
           r.tn = node[n].tn, \A k \in Nodes : r.match[k] <= node[k].tn, Confirmed(n, r)
    PROVE  Cardinality(Level(n)) >= Majority(Cardinality(Nodes))
  <1> DEFINE S == {m \in Nodes \ {n} : r.match[m] >= r.tn}
  <1>1. S \subseteq Nodes /\ IsFiniteSet(S) /\ n \notin S /\ Cardinality(S) \in Nat
    BY CountsType, FS_CardinalityType
  <1>2. S \cup {n} \subseteq Level(n)
    <2>1. r.match \in [Nodes -> 0 .. MaxNumber] /\ r.tn \in 0 .. MaxNumber
      BY DEF NodeState
    <2> QED BY <2>1, Numbers DEF Level
  <1>3. IsFiniteSet(Level(n)) /\ Cardinality(Level(n)) \in Nat
    BY CountsType, FS_CardinalityType DEF Level
  <1>4. Cardinality(S \cup {n}) = Cardinality(S) + 1
    BY <1>1, FS_AddElement, Zenon
  <1>5. Cardinality(S \cup {n}) <= Cardinality(Level(n))
    BY <1>2, <1>3, FS_Subset
  <1>6. 1 + Cardinality(S) >= Majority(Cardinality(Nodes))
    BY DEF Confirmed
  <1>7. Majority(Cardinality(Nodes)) \in Int
    BY CountsType DEF Majority
  <1> QED BY <1>1, <1>3, <1>4, <1>5, <1>6, <1>7

-----------------------------------------------------------------------------
(* The actions.                                                            *)

\* A heartbeat, of a leader that was one or that is becoming one.
LEMMA BeatProgress ==
    ASSUME TypeOK, ProgressInv, NEW n \in Nodes, NEW r \in NodeState, Beat(n, r),
           UNCHANGED <<mode, hit>>,
           r.state = "leader", r.timers = {} \/ r.timers = {"heartbeat"} \/ ~DetectorConfigured,
           r.active \/ n \in hit, r.tn = node[n].tn, r.comm = node[n].comm,
           \A k \in Nodes : r.match[k] <= node[k].tn
    PROVE  ProgressInv' /\ CommitsBacked
  <1>1. hit \subseteq hit' /\ hit' = hit
    OBVIOUS
  <1>2. /\ msgs' = msgs \cup {Entries(n, r)}
        /\ Entries(n, r).type = "AppendEntries"
    BY DEF Beat, Send, Entries
  <1>3. CASE ~DetectorConfigured /\ node' = [node EXCEPT ![n] = r]
    <2>1. Steady(n, r, {Entries(n, r)})
      BY <1>1, <1>2, <1>3, Numbers DEF Steady, Waits, Backed
    <2> QED BY <1>1, <1>2, <1>3, <2>1, SteadyKeeps
  <1>4. ASSUME NEW q \in Detected(n, r),
               node' = [node EXCEPT ![n] = [q EXCEPT !.timers = @ \cup {"heartbeat"}]]
        PROVE  ProgressInv' /\ CommitsBacked
    <2> DEFINE p == [q EXCEPT !.timers = @ \cup {"heartbeat"}]
    <2>1. /\ q \in NodeState /\ SameProgress(q, r)
          /\ mode = "classic" /\ q.comm # r.comm => Confirmed(n, r)
      BY DetectedType, DetectedAside
    <2>2. /\ p \in NodeState /\ p.timers = q.timers \cup {"heartbeat"}
          /\ p.state = q.state /\ p.active = q.active /\ p.tn = q.tn
          /\ p.match = q.match /\ p.comm = q.comm
      BY <2>1 DEF NodeState, Timers
    <2>3. Waits(n, p, hit')
      BY <1>1, <2>1, <2>2 DEF Waits, SameProgress
    <2>4. Backed(n, p)
      BY <2>1, <2>2, ConfirmedBacked DEF Backed
    <2>5. p.tn >= node[n].tn /\ \A k \in Nodes : p.match[k] <= node[k].tn
      BY <2>1, <2>2, Numbers DEF SameProgress
    <2>6. Steady(n, p, {Entries(n, r)})
      BY <1>2, <2>3, <2>4, <2>5 DEF Steady
    <2> QED BY <1>1, <1>2, <1>4, <2>2, <2>6, SteadyKeeps
  <1> QED BY <1>3, <1>4 DEF Beat

\* The two ways a handler ends.
LEMMA AnswerProgress ==
    ASSUME TypeOK, ProgressInv, NEW n \in Nodes, NEW q \in NodeState, NEW x,
           Steady(n, q, {x}), Answer(n, q, x)
    PROVE  ProgressInv' /\ CommitsBacked
  BY SteadyKeeps DEF Answer, Send

LEMMA SilentlyProgress ==
    ASSUME TypeOK, ProgressInv, NEW n \in Nodes, NEW q \in NodeState,
           Steady(n, q, {}), Silently(n, q)
    PROVE  ProgressInv' /\ CommitsBacked
  <1>1. msgs' = msgs \cup {} /\ mode' = mode /\ hit \subseteq hit'
    BY DEF Silently
  <1> QED BY <1>1, SteadyKeeps DEF Silently

\* Votes and answers to a discovery are no matter of timers and numbers,
LEMMA AsideProgress ==
    ASSUME TypeOK, ProgressInv, NEW n \in Nodes, NEW m \in msgs,
           \/ m.type = "RequestVote" /\ HandleRequestVote(n, m)
           \/ m.type = "Discovery" /\ HandleDiscovery(n, m)
           \/ m.type = "DiscoveryResponse" /\ HandleDiscoveryResponse(n, m)
    PROVE  ProgressInv' /\ CommitsBacked
  <1> DEFINE r == Heard(n, m)
  <1>1. hit' = hit /\ m.from \in Nodes
    BY DEF HandleRequestVote, HandleDiscovery, HandleDiscoveryResponse, Answer, Silently,
           TypeOK, Messages
  <1>2. r \in NodeState /\ Steady(n, r, {})
    BY <1>1, HeardSteady
  <1>3. ASSUME NEW q \in NodeState, SameProgress(q, r), q.comm = r.comm
        PROVE  Steady(n, q, {})
    BY <1>2, <1>3 DEF Steady, Waits, Backed, SameProgress
  <1>4. ASSUME NEW q \in NodeState, Steady(n, q, {}), NEW x, x.type # "AppendResponse"
        PROVE  Steady(n, q, {x})
    BY <1>4 DEF Steady
  <1>5. CASE m.type = "RequestVote" /\ HandleRequestVote(n, m)
    <2> DEFINE grant == m.term = r.term /\ r.votedFor \in {NoNode, m.from}
               q == IF grant THEN [r EXCEPT !.votedFor = m.from] ELSE r
               x == [type |-> "VoteResponse", from |-> n, to |-> m.from,
                     term |-> r.term, granted |-> grant]
    <2>1. q \in NodeState /\ SameProgress(q, r) /\ q.comm = r.comm
      BY <1>1, <1>2 DEF NodeState, SameProgress
    <2>2. x.type # "AppendResponse"
      OBVIOUS
    <2>3. Steady(n, q, {x})
      <3> HIDE DEF q, x
      <3> QED BY <1>3, <1>4, <2>1, <2>2
    <2>4. Answer(n, q, x)
      BY <1>5 DEF HandleRequestVote
    <2> HIDE DEF q, x
    <2> QED BY <2>1, <2>3, <2>4, AnswerProgress
  <1>6. CASE m.type = "Discovery" /\ HandleDiscovery(n, m)
    <2> DEFINE x == [type |-> "DiscoveryResponse", from |-> n, to |-> m.from,
                     term |-> r.term]
    <2>1. Steady(n, r, {x})
      BY <1>2, <1>4
    <2>2. Answer(n, r, x)
      BY <1>6 DEF HandleDiscovery
    <2> QED BY <1>2, <2>1, <2>2, AnswerProgress
  <1>7. CASE m.type = "DiscoveryResponse" /\ HandleDiscoveryResponse(n, m)
    <2> DEFINE q == [r EXCEPT !.responses = @ \cup {m.from}]
    <2>1. q \in NodeState /\ SameProgress(q, r) /\ q.comm = r.comm
      BY <1>1, <1>2 DEF NodeState, SameProgress
    <2>2. Silently(n, q) \/ Silently(n, r)
      BY <1>7 DEF HandleDiscoveryResponse
    <2> HIDE DEF q
    <2> QED BY <1>2, <1>3, <2>1, <2>2, SilentlyProgress
  <1> QED BY <1>5, <1>6, <1>7

\* but a candidate that wins gives up the timers of its election.
LEMMA VoteResponseProgress ==
    ASSUME TypeOK, ProgressInv, NEW n \in Nodes, NEW m \in msgs,
           m.type = "VoteResponse", HandleVoteResponse(n, m)
    PROVE  ProgressInv' /\ CommitsBacked
  <1> DEFINE r == Heard(n, m)
             q == [r EXCEPT !.votes = @ \cup {m.from}]
             T == q.timers \ {"election", "discovery"}
             Z == [k \in Nodes |-> 0]
             p == Led(q, Z, T)
  <1>1. hit' = hit /\ m.from \in Nodes
    <2>1. hit' = hit
      BY DEF HandleVoteResponse, Silently
    <2> QED BY <2>1 DEF TypeOK, Messages
  <1>2. /\ r \in NodeState /\ Steady(n, r, {})
        /\ r.tn = node[n].tn /\ r.comm = node[n].comm
        /\ r.state # "follower" => r = node[n]
    BY <1>1, HeardSteady
  <1>3. /\ q \in NodeState /\ SameProgress(q, r) /\ q.comm = r.comm
        /\ q.timers \subseteq Timers
    BY <1>1, <1>2 DEF NodeState, SameProgress
  <1>4. Steady(n, q, {})
    <2> HIDE DEF q, r
    <2> QED BY <1>2, <1>3 DEF Steady, Waits, Backed, SameProgress
  <1>5. CASE Silently(n, r) \/ Silently(n, q)
    <2> HIDE DEF q, r
    <2> QED BY <1>2, <1>3, <1>4, <1>5, SilentlyProgress
  <1>6. CASE BecomeLeader(n, q) /\ UNCHANGED <<mode, hit>>
    <2>1. Z \in [Nodes -> 0 .. MaxNumber] /\ T \in SUBSET Timers
      BY <1>3, RaftBoundsAssumption
    <2>2. p \in NodeState /\ p.state = "leader"
      <3> HIDE DEF q, Z, T
      <3> QED BY <1>3, <2>1, LedType
    <2>3. /\ p.timers = T /\ p.active = q.active /\ p.tn = q.tn /\ p.comm = q.comm
          /\ p.match = Z
      <3> HIDE DEF q, Z, T
      <3> QED BY <1>3, <2>1 DEF Led, NodeState
    <2>4. T = {} \/ T = {"heartbeat"}
      BY <1>3 DEF Timers
    <2>5. p.active \/ n \in hit
      BY <1>1, <1>2, <1>3, <2>3 DEF Steady, Waits, SameProgress
    <2>6. \A k \in Nodes : p.match[k] <= node[k].tn
      <3>1. \A k \in Nodes : Z[k] = 0 /\ node[k].tn \in Nat
        BY Numbers
      <3> HIDE DEF p, Z
      <3> QED BY <2>3, <3>1
    <2>7. p.tn = node[n].tn /\ p.comm = node[n].comm
      BY <1>2, <1>3, <2>3 DEF SameProgress
    <2>8. Beat(n, p)
      BY <1>6 DEF BecomeLeader, Led
    <2> HIDE DEF p
    <2> QED BY <1>6, <2>2, <2>3, <2>4, <2>5, <2>6, <2>7, <2>8, BeatProgress
  <1> QED BY <1>5, <1>6 DEF HandleVoteResponse

\* A heartbeat is answered with its number once that is reached.
LEMMA AppendEntriesProgress ==
    ASSUME TypeOK, ProgressInv, NEW n \in Nodes, NEW m \in msgs,
           m.type = "AppendEntries", HandleAppendEntries(n, m)
    PROVE  ProgressInv' /\ CommitsBacked
  <1> DEFINE r == Heard(n, m)
             news == m.tn > r.tn
             c == IF m.cons = Cleared THEN r.cons ELSE m.cons
             t == IF news THEN m.tn ELSE r.tn
             v == IF news /\ m.cons # Cleared THEN m.cons ELSE r.comm
             T == IF r.state = "follower" THEN r.timers \cup {"election"} ELSE r.timers
             q == Told(r, m.count, c, t, v, T)
             x == [type |-> "AppendResponse", from |-> n, to |-> m.from,
                   term |-> r.term, tn |-> m.tn]
  <1>1. /\ hit' = hit /\ m.from \in Nodes /\ m.tn \in 0 .. MaxNumber
        /\ m.count \in Counts /\ m.cons \in Values \cup {Null, Cleared}
    <2>1. hit' = hit
      BY DEF HandleAppendEntries, Answer
    <2>2. m \in Messages
      BY DEF TypeOK
    <2> QED BY <2>1, <2>2 DEF Messages
  <1>2. /\ r \in NodeState /\ Steady(n, r, {}) /\ r.tn = node[n].tn
        /\ r.match = node[n].match /\ r.comm = node[n].comm
    BY <1>1, HeardSteady
  <1>3. /\ r.cons \in Values \cup {Null, Cleared} /\ r.comm \in Values \cup {Null}
        /\ r.tn \in 0 .. MaxNumber /\ r.timers \in SUBSET Timers
    BY <1>2 DEF NodeState
  <1>4. /\ c \in Values \cup {Null, Cleared} /\ t \in 0 .. MaxNumber
        /\ v \in Values \cup {Null} /\ T \in SUBSET Timers
    BY <1>1, <1>3 DEF Timers
  <1>5. /\ q \in NodeState /\ q.state = r.state
    <2> HIDE DEF r, c, t, v, T
    <2> QED BY <1>1, <1>2, <1>4, ToldType DEF SameElection
  <1>6. /\ q.timers = T /\ q.active = r.active /\ q.tn = t /\ q.match = r.match
        /\ q.comm = v
    <2> HIDE DEF r, c, t, v, T
    <2> QED BY <1>1, <1>2, <1>4 DEF Told, NodeState
  <1>7. t >= r.tn /\ t >= m.tn /\ (t = r.tn => v = r.comm)
    <2>1. r.tn \in Nat /\ m.tn \in Nat
      BY <1>1, <1>3, RaftBoundsAssumption
    <2> HIDE DEF r
    <2> QED BY <2>1
  <1>8. Steady(n, q, {x})
    <2>1. q.tn >= node[n].tn /\ \A k \in Nodes : q.match[k] <= node[k].tn
      BY <1>2, <1>6, <1>7 DEF Steady
    <2>2. Waits(n, q, hit')
      <3> HIDE DEF r, q
      <3> QED BY <1>2, <1>5, <1>6 DEF Steady, Waits
    <2>3. Backed(n, q)
      <3>1. q.tn = node[n].tn => q.comm = node[n].comm
        <4> HIDE DEF r, q, t, v
        <4> QED BY <1>2, <1>6, <1>7
      <3> HIDE DEF q
      <3> QED BY <3>1 DEF Backed
    <2>4. x.from = n /\ x.tn <= q.tn
      <3> HIDE DEF r, q, t
      <3> QED BY <1>6, <1>7
    <2> HIDE DEF q, x
    <2> QED BY <2>1, <2>2, <2>3, <2>4 DEF Steady
  <1>9. Answer(n, q, x)
    BY DEF HandleAppendEntries, Told
  <1> HIDE DEF q, x
  <1> QED BY <1>5, <1>8, <1>9, AnswerProgress

\* Its answer brings a leader to commit, if a majority has given it.
LEMMA AppendResponseProgress ==
    ASSUME TypeOK, ProgressInv, NEW n \in Nodes, NEW m \in msgs,
           m.type = "AppendResponse", HandleAppendResponse(n, m)
    PROVE  ProgressInv' /\ CommitsBacked
  <1> DEFINE r == Heard(n, m)
             p == [r EXCEPT !.match = [@ EXCEPT ![m.from] = m.tn]]
             q == Commit(n, p)
  <1>1. /\ hit' = hit /\ m.from \in Nodes /\ m.tn \in 0 .. MaxNumber
        /\ m.tn <= node[m.from].tn
    <2>1. hit' = hit
      BY DEF HandleAppendResponse, Silently
    <2> QED BY <2>1, Numbers DEF ProgressInv, ResponsesBacked
  <1>2. /\ r \in NodeState /\ Steady(n, r, {}) /\ r.tn = node[n].tn
        /\ r.match = node[n].match /\ r.comm = node[n].comm
    BY <1>1, HeardSteady
  <1>3. /\ p \in NodeState /\ p.state = r.state /\ p.timers = r.timers
        /\ p.active = r.active /\ p.tn = r.tn /\ p.comm = r.comm
        /\ p.match = [r.match EXCEPT ![m.from] = m.tn]
    BY <1>1, <1>2 DEF NodeState
  <1>4. \A k \in Nodes : p.match[k] <= node[k].tn
    <2>1. r.match \in [Nodes -> 0 .. MaxNumber]
      BY <1>2 DEF NodeState
    <2> HIDE DEF r, p
    <2> QED BY <1>1, <1>2, <1>3, <2>1 DEF Steady
  <1>5. /\ q \in NodeState /\ SameProgress(q, p)
        /\ q.comm # p.comm => Confirmed(n, p)
    <2> HIDE DEF p
    <2> QED BY <1>3, CommitType, CommitAside
  <1>6. Steady(n, q, {})
    <2>1. q.tn >= node[n].tn /\ \A k \in Nodes : q.match[k] <= node[k].tn
      <3> HIDE DEF r, p, q
      <3> QED BY <1>2, <1>3, <1>4, <1>5, Numbers DEF SameProgress
    <2>2. Waits(n, q, hit')
      <3> HIDE DEF r, p, q
      <3> QED BY <1>2, <1>3, <1>5 DEF Steady, Waits, SameProgress
    <2>3. Backed(n, q)
      <3> HIDE DEF r, p, q
      <3> QED BY <1>2, <1>3, <1>4, <1>5, ConfirmedBacked DEF Backed
    <2> HIDE DEF q
    <2> QED BY <2>1, <2>2, <2>3 DEF Steady
  <1>7. Silently(n, q) \/ Silently(n, r)
    BY DEF HandleAppendResponse
  <1> HIDE DEF q, r
  <1> QED BY <1>2, <1>5, <1>6, <1>7, SilentlyProgress

LEMMA ReceiveProgress ==
    ASSUME TypeOK, ProgressInv, NEW n \in Nodes, NEW m \in msgs, Receive(n, m)
    PROVE  ProgressInv' /\ CommitsBacked
  BY AsideProgress, VoteResponseProgress, AppendEntriesProgress, AppendResponseProgress
  DEF Receive

\* An active node that starts an election waits for its end.
LEMMA StartElectionProgress ==
    ASSUME TypeOK, ProgressInv, NEW n \in Nodes, NEW r \in NodeState,
           StartElection(n, r), UNCHANGED <<mode, hit>>,
           r.state # "leader" \/ ~DetectorConfigured, r.active \/ n \in hit,
           r.tn = node[n].tn, r.match = node[n].match, r.comm = node[n].comm
    PROVE  ProgressInv' /\ CommitsBacked
  <1>1. hit \subseteq hit' /\ hit' = hit
    OBVIOUS
  <1>2. \A k \in Nodes : r.match[k] <= node[k].tn
    BY DEF ProgressInv, MatchBacked
  <1>3. r.tn >= node[n].tn
    BY Numbers
  <1>4. CASE ~r.active /\ node' = [node EXCEPT ![n] = r] /\ msgs' = msgs
    <2>1. Steady(n, r, {})
      BY <1>1, <1>2, <1>3, <1>4 DEF Steady, Waits, Backed
    <2>2. msgs' = msgs \cup {}
      BY <1>4
    <2> QED BY <1>1, <1>4, <2>1, <2>2, SteadyKeeps
  <1>5. CASE r.active /\ r.term < MaxTerm
    <2> DEFINE q == [r EXCEPT !.term = @ + 1, !.state = "candidate", !.votedFor = n,
                              !.votes = {n}, !.timers = @ \cup {"election"}]
               x == [type |-> "RequestVote", from |-> n, term |-> r.term + 1]
    <2>1. r.term + 1 \in 0 .. MaxTerm
      BY <1>5, RaftBoundsAssumption DEF NodeState
    <2>2. q \in NodeState
      BY <2>1 DEF NodeState, Timers
    <2>3. /\ q.state = "candidate" /\ q.timers = r.timers \cup {"election"}
          /\ q.active = r.active /\ q.tn = r.tn /\ q.match = r.match
          /\ q.comm = r.comm
      BY DEF NodeState
    <2>4. x.type # "AppendResponse"
      OBVIOUS
    <2>5. Steady(n, q, {x})
      <3> HIDE DEF q, x
      <3> QED BY <1>1, <1>2, <1>3, <1>5, <2>3, <2>4 DEF Steady, Waits, Backed
    <2>6. node' = [node EXCEPT ![n] = q] /\ msgs' = msgs \cup {x}
      BY <1>5 DEF StartElection, Send
    <2> HIDE DEF q, x
    <2> QED BY <1>1, <2>2, <2>5, <2>6, SteadyKeeps
  <1> QED BY <1>4, <1>5 DEF StartElection

\* The election and the discovery timer are those of nodes that do not lead, and what
\* they start schedules one of them again.
LEMMA TimeoutProgress ==
    ASSUME TypeInv, ProgressInv, NEW n \in Nodes,
           ElectionTimeout(n) \/ DiscoveryTimeout(n) \/ HeartbeatTimeout(n)
    PROVE  ProgressInv' /\ CommitsBacked
  <1>1. /\ TypeOK /\ node[n] \in NodeState /\ n \notin node[n].responses
        /\ node[n].active \/ n \in hit
        /\ DetectorConfigured /\ node[n].state = "leader"
              => node[n].timers = {"heartbeat"}
        /\ \A k \in Nodes : node[n].match[k] <= node[k].tn
    BY DEF TypeInv, TypeOK, NoSelfResponse, ProgressInv, Waits, MatchBacked
  <1>2. CASE ElectionTimeout(n)
    <2> DEFINE r == [node[n] EXCEPT !.timers = @ \ {"election"}]
    <2>1. /\ r \in NodeState /\ r.state = node[n].state /\ r.active = node[n].active
          /\ r.tn = node[n].tn /\ r.match = node[n].match /\ r.comm = node[n].comm
      BY <1>1 DEF NodeState
    <2>2. r.state # "leader" \/ ~DetectorConfigured
      <3> HIDE DEF r
      <3> QED BY <1>1, <1>2, <2>1 DEF ElectionTimeout
    <2>3. CASE StartElection(n, r)
      <3> HIDE DEF r
      <3> QED BY <1>1, <1>2, <2>1, <2>2, <2>3, StartElectionProgress DEF ElectionTimeout
    <2>4. CASE StartDiscovery(n, r)
      <3> DEFINE q == [r EXCEPT !.responses = {}, !.timers = @ \cup {"discovery"}]
                 x == [type |-> "Discovery", from |-> n, term |-> r.term]
      <3>1. /\ q \in NodeState /\ q.state = r.state /\ q.active = r.active
            /\ q.tn = r.tn /\ q.match = r.match /\ q.comm = r.comm
            /\ "discovery" \in q.timers
        <4> HIDE DEF r
        <4> QED BY <2>1 DEF NodeState, Timers
      <3>2. x.type # "AppendResponse"
        OBVIOUS
      <3>3. hit' = hit /\ hit \subseteq hit' /\ mode' = mode
        BY <1>2 DEF ElectionTimeout
      <3>4. Steady(n, q, {}) /\ Steady(n, q, {x})
        <4> HIDE DEF q, r, x
        <4> QED BY <1>1, <2>1, <2>2, <3>1, <3>2, <3>3, Numbers
                DEF Steady, Waits, Backed
      <3>5. node' = [node EXCEPT ![n] = q]
        BY <2>4 DEF StartDiscovery
      <3>6. msgs' = msgs \cup {} \/ msgs' = msgs \cup {x}
        BY <2>4 DEF StartDiscovery, Send
      <3> HIDE DEF q, x
      <3> QED BY <1>1, <3>1, <3>3, <3>4, <3>5, <3>6, SteadyKeeps
    <2> QED BY <1>2, <2>3, <2>4 DEF ElectionTimeout
  <1>3. CASE DiscoveryTimeout(n)
    <2> DEFINE k == Cardinality(node[n].responses) + 1
               r == [node[n] EXCEPT !.timers = @ \ {"discovery"}, !.discovered = k,
                                    !.responses = {}]
    <2>1. k \in Counts
      <3>1. node[n].responses \in SUBSET Nodes
        BY <1>1 DEF NodeState
      <3>2. Cardinality(node[n].responses \cup {n}) = k
        BY <1>1, <3>1, CountsType, FS_AddElement, Zenon
      <3>3. node[n].responses \cup {n} \in SUBSET Nodes
        BY <3>1
      <3> QED BY <3>2, <3>3, CountsType
    <2>2. /\ r \in NodeState /\ r.state = node[n].state /\ r.active = node[n].active
          /\ r.tn = node[n].tn /\ r.match = node[n].match /\ r.comm = node[n].comm
      <3> HIDE DEF k
      <3> QED BY <1>1, <2>1 DEF NodeState
    <2>3. StartElection(n, r) /\ UNCHANGED <<mode, hit>> /\ "discovery" \in node[n].timers
      BY <1>3 DEF DiscoveryTimeout
    <2>4. r.state # "leader" \/ ~DetectorConfigured
      <3> HIDE DEF r
      <3> QED BY <1>1, <2>2, <2>3
    <2> HIDE DEF r
    <2> QED BY <1>1, <2>2, <2>3, <2>4, StartElectionProgress
  <1>4. CASE HeartbeatTimeout(n)
    <2> DEFINE r == [node[n] EXCEPT !.timers = @ \ {"heartbeat"}]
    <2>1. /\ r \in NodeState /\ r.state = node[n].state /\ r.active = node[n].active
          /\ r.tn = node[n].tn /\ r.match = node[n].match /\ r.comm = node[n].comm
          /\ r.timers = node[n].timers \ {"heartbeat"}
      BY <1>1 DEF NodeState
    <2>2. /\ Beat(n, r) /\ UNCHANGED <<mode, hit>> /\ node[n].state = "leader"
      BY <1>4 DEF HeartbeatTimeout
    <2>3. r.timers = {} \/ ~DetectorConfigured
      <3> HIDE DEF r
      <3> QED BY <1>1, <2>1, <2>2
    <2> HIDE DEF r
    <2> QED BY <1>1, <2>1, <2>2, <2>3, BeatProgress
  <1> QED BY <1>2, <1>3, <1>4

\* A proposal has a number that nobody has answered yet: it commits nothing that a leader
\* held at its number before.
LEMMA ProposeProgress ==
    ASSUME TypeOK, ProgressInv, NEW n \in Nodes, NEW v \in Values, Propose(n, v)
    PROVE  ProgressInv' /\ CommitsBacked
  <1> DEFINE r == [node[n] EXCEPT !.cons = v, !.tn = @ + 1]
  <1>1. /\ node[n] \in NodeState /\ node[n].tn \in Nat
        /\ node[n].tn + 1 \in 0 .. MaxNumber
        /\ Waits(n, node[n], hit)
        /\ \A k \in Nodes : node[n].match[k] <= node[k].tn
    BY Numbers DEF Propose, ProgressInv, MatchBacked
  <1>2. /\ r \in NodeState /\ r.state = node[n].state /\ r.timers = node[n].timers
        /\ r.active = node[n].active /\ r.tn = node[n].tn + 1
        /\ r.match = node[n].match
    BY <1>1 DEF NodeState
  <1>3. PICK q \in Detected(n, r) : node' = [node EXCEPT ![n] = q]
    BY DEF Propose
  <1>4. /\ msgs' = msgs \cup {Entries(n, r)} /\ mode' = mode
        /\ hit' = hit /\ hit \subseteq hit'
        /\ Entries(n, r).type = "AppendEntries"
    BY DEF Propose, Send, Entries
  <1> HIDE DEF r
  <1>5. q \in NodeState /\ SameProgress(q, r)
    BY <1>2, <1>3, DetectedType, DetectedAside
  <1>6. Steady(n, q, {Entries(n, r)})
    BY <1>1, <1>2, <1>4, <1>5 DEF Steady, Waits, Backed, SameProgress
  <1> QED BY <1>3, <1>4, <1>5, <1>6, SteadyKeeps

\* An outage takes a leader's heartbeat and leaves it an election to wait for.
LEMMA OutageProgress ==
    ASSUME TypeOK, ProgressInv, NEW n \in Nodes, Deactivate(n) \/ Activate(n)
    PROVE  ProgressInv' /\ CommitsBacked
  <1>1. /\ msgs' = msgs \cup {} /\ mode' = mode /\ hit \subseteq hit'
        /\ Deactivate(n) => n \in hit'
        /\ node[n] \in NodeState /\ Waits(n, node[n], hit)
        /\ \A k \in Nodes : node[n].match[k] <= node[k].tn
    BY Numbers DEF Deactivate, Activate, ProgressInv, MatchBacked
  <1>2. ASSUME NEW r \in NodeState, node' = [node EXCEPT ![n] = r],
               r.tn = node[n].tn, r.match = node[n].match, r.comm = node[n].comm,
               Waits(n, r, hit')
        PROVE  ProgressInv' /\ CommitsBacked
    <2>1. Steady(n, r, {})
      BY <1>1, <1>2, Numbers DEF Steady, Backed
    <2> QED BY <1>1, <1>2, <2>1, SteadyKeeps
  <1>3. ASSUME NEW b \in BOOLEAN, node' = [node EXCEPT ![n].active = b],
               b \/ n \in hit'
        PROVE  ProgressInv' /\ CommitsBacked
    <2> DEFINE q == [node[n] EXCEPT !.active = b]
    <2>1. /\ q \in NodeState /\ q.state = node[n].state /\ q.timers = node[n].timers
          /\ q.active = b /\ q.tn = node[n].tn /\ q.match = node[n].match
          /\ q.comm = node[n].comm
      BY <1>1 DEF NodeState
    <2>2. node' = [node EXCEPT ![n] = q]
      BY <1>3
    <2> HIDE DEF q
    <2>3. Waits(n, q, hit')
      BY <1>1, <1>3, <2>1 DEF Waits
    <2> QED BY <1>2, <2>1, <2>2, <2>3
  <1>4. CASE /\ Deactivate(n) /\ node[n].term < MaxTerm
             /\ node' = [node EXCEPT ![n] =
                            [StepDown(@, @.term + 1) EXCEPT !.active = FALSE]]
    <2> DEFINE r == StepDown(node[n], node[n].term + 1)
               q == [r EXCEPT !.active = FALSE]
    <2>1. node[n].term + 1 \in Terms
      BY <1>1, <1>4, RaftBoundsAssumption DEF Terms, NodeState
    <2>2. /\ r \in NodeState /\ r.state = "follower" /\ r.tn = node[n].tn
          /\ r.match = node[n].match /\ r.comm = node[n].comm
      BY <1>1, <2>1, StepDownType DEF StepDown, NodeState
    <2>3. /\ q \in NodeState /\ q.state = "follower" /\ q.tn = node[n].tn
          /\ q.match = node[n].match /\ q.comm = node[n].comm
      <3> HIDE DEF r
      <3> QED BY <2>2 DEF NodeState
    <2>4. node' = [node EXCEPT ![n] = q]
      BY <1>4
    <2> HIDE DEF q
    <2>5. Waits(n, q, hit')
      BY <1>1, <1>4, <2>3 DEF Waits
    <2> QED BY <1>2, <2>3, <2>4, <2>5
  <1>5. CASE Activate(n)
    BY <1>3, <1>5 DEF Activate
  <1>6. CASE Deactivate(n)
    <2>1. CASE node[n].state = "leader"
      BY <1>4, <1>6, <2>1 DEF Deactivate
    <2>2. CASE node[n].state # "leader"
      BY <1>1, <1>3, <1>6, <2>2 DEF Deactivate
    <2> QED BY <2>1, <2>2
  <1> QED BY <1>5, <1>6

-----------------------------------------------------------------------------
(* Where values come from.                                                 *)

\* A heartbeat of S had the value v, with a number up to k and in a term up to t.
Sent(v, t, k, S) ==
    \E m \in S : m.type = "AppendEntries" /\ m.cons = v /\ m.tn <= k /\ m.term <= t

\* What r holds, proposed or committed, was in a heartbeat of S.
Sourced(r, S) ==
    /\ r.cons \notin {Null, Cleared} => Sent(r.cons, r.term, r.tn, S)
    /\ r.comm # Null => Sent(r.comm, r.term, r.tn, S)

SourcesInv == \A n \in Nodes : Sourced(node[n], msgs)

\* What a node holds committed was in a heartbeat, with a number and in a term that the
\* node has reached, of a node that a quorum had voted for in that term.
CommitsOfElected ==
    \A n \in Nodes : node[n].comm # Null =>
        \E m \in msgs :
            /\ m.type = "AppendEntries" /\ m.cons = node[n].comm
            /\ m.tn <= node[n].tn /\ m.term <= node[n].term
            /\ \E Q \in SUBSET Nodes :
                  Quorum(Q) /\ \A k \in Q : Cast(msgs, k, m.from, m.term)

\* q comes after r and holds no value that r does not.
Inherits(q, r) == /\ q.term >= r.term /\ q.tn >= r.tn
                  /\ q.cons \in {r.cons, Cleared}
                  /\ q.comm \in {r.comm, r.cons}

LEMMA Inherited ==
    ASSUME NEW q \in NodeState, NEW r \in NodeState, Inherits(q, r)
    PROVE  /\ \A p \in NodeState : Inherits(r, p) => Inherits(q, p)
           /\ \A S, T : S \subseteq T /\ T \subseteq Messages /\ Sourced(r, S)
                 => Sourced(q, T)
  <1>1. /\ q.comm # Cleared
        /\ q.term \in Nat /\ r.term \in Nat /\ q.tn \in Nat /\ r.tn \in Nat
    BY RaftBoundsAssumption, ValuesAssumption DEF NodeState
  <1>2. ASSUME NEW p \in NodeState, Inherits(r, p)
        PROVE  Inherits(q, p)
    <2>1. p.term \in Nat /\ p.tn \in Nat
      BY RaftBoundsAssumption DEF NodeState
    <2> QED BY <1>1, <1>2, <2>1 DEF Inherits
  <1>3. ASSUME NEW S, NEW T, S \subseteq T, T \subseteq Messages, Sourced(r, S)
        PROVE  Sourced(q, T)
    <2>1. ASSUME NEW v, Sent(v, r.term, r.tn, S)
          PROVE  Sent(v, q.term, q.tn, T)
      <3>1. PICK m \in S : /\ m.type = "AppendEntries" /\ m.cons = v
                           /\ m.tn <= r.tn /\ m.term <= r.term
        BY <2>1 DEF Sent
      <3>2. m \in T /\ m.tn \in Nat /\ m.term \in Nat
        BY <1>3, <3>1, RaftBoundsAssumption DEF Messages, Terms
      <3> QED BY <1>1, <3>1, <3>2 DEF Inherits, Sent
    <2> QED BY <1>1, <1>3, <2>1 DEF Inherits, Sourced
  <1> QED BY <1>2, <1>3

LEMMA Itself == ASSUME NEW r \in NodeState PROVE Inherits(r, r)
  BY RaftBoundsAssumption DEF Inherits, NodeState

\* A step that makes a node such that its values were sent.
LEMMA SourcesKept ==
    ASSUME TypeOK, SourcesInv, NEW n \in Nodes, NEW r \in NodeState,
           node' = [node EXCEPT ![n] = r], msgs \subseteq msgs', msgs' \subseteq Messages,
           Sourced(r, msgs')
    PROVE  SourcesInv'
  <1> SUFFICES ASSUME NEW m \in Nodes PROVE Sourced(node'[m], msgs')
    BY DEF SourcesInv
  <1>1. CASE m = n
    BY <1>1 DEF TypeOK
  <1>2. CASE m # n
    <2>1. node'[m] = node[m] /\ node[m] \in NodeState /\ Sourced(node[m], msgs)
      BY <1>2 DEF TypeOK, SourcesInv
    <2> QED BY <2>1, Itself, Inherited
  <1> QED BY <1>1, <1>2

\* Nothing is new to a node that inherits from itself.
LEMMA InheritingKeeps ==
    ASSUME TypeOK, SourcesInv, NEW n \in Nodes, NEW r \in NodeState,
           node' = [node EXCEPT ![n] = r], msgs \subseteq msgs', msgs' \subseteq Messages,
           Inherits(r, node[n])
    PROVE  SourcesInv'
  <1>1. node[n] \in NodeState /\ Sourced(node[n], msgs)
    BY DEF TypeOK, SourcesInv
  <1>2. Sourced(r, msgs')
    BY <1>1, Inherited
  <1> QED BY <1>2, SourcesKept

\* What a node is on the way of a handler inherits from what it was: when it hears a term,
LEMMA HeardInherits ==
    ASSUME TypeOK, NEW n \in Nodes, NEW m \in msgs
    PROVE  Heard(n, m) \in NodeState /\ Inherits(Heard(n, m), node[n])
  <1>1. node[n] \in NodeState /\ Heard(n, m) \in NodeState /\ m.term \in 0 .. MaxTerm
    BY HeardType DEF TypeOK, Messages, Terms
  <1>2. CASE m.term > node[n].term
    <2>1. /\ Heard(n, m).term = m.term /\ Heard(n, m).tn = node[n].tn
          /\ Heard(n, m).cons = node[n].cons /\ Heard(n, m).comm = node[n].comm
      BY <1>1, <1>2 DEF Heard, StepDown, NodeState
    <2> QED BY <1>1, <1>2, <2>1, RaftBoundsAssumption DEF Inherits, NodeState
  <1>3. CASE ~(m.term > node[n].term)
    BY <1>1, <1>3, Itself DEF Heard
  <1> QED BY <1>1, <1>2, <1>3

\* when it commits,
LEMMA CommitInherits ==
    ASSUME NEW n \in Nodes, NEW r \in NodeState
    PROVE  Inherits(Commit(n, r), r)
  <1>1. CASE r.cons \notin {Cleared, r.comm} /\ Confirmed(n, r)
    <2>1. /\ Commit(n, r).term = r.term /\ Commit(n, r).tn = r.tn
          /\ Commit(n, r).cons = Cleared /\ Commit(n, r).comm = r.cons
      BY <1>1 DEF Commit, NodeState
    <2> QED BY <2>1, RaftBoundsAssumption DEF Inherits, NodeState
  <1>2. CASE ~(r.cons \notin {Cleared, r.comm} /\ Confirmed(n, r))
    BY <1>2, Itself DEF Commit
  <1> QED BY <1>1, <1>2

\* and when the detector's check is due.
LEMMA DetectedInherits ==
    ASSUME NEW n \in Nodes, NEW r \in NodeState, NEW q \in Detected(n, r)
    PROVE  Inherits(q, r)
  <1>1. CASE ~DetectorConfigured
    BY <1>1, Itself DEF Detected
  <1>2. CASE DetectorConfigured
    <2>0. ASSUME NEW p \in NodeState, NEW F \in SUBSET Nodes
          PROVE  /\ [p EXCEPT !.failed = F] \in NodeState
                 /\ Inherits([p EXCEPT !.failed = F], p)
      BY RaftBoundsAssumption DEF Inherits, NodeState
    <2>1. PICK F \in SUBSET Nodes :
             \/ q = [r EXCEPT !.failed = F]
             \/ \E I \in SUBSET (r.failed \cup F) :
                   q = [Recovers(n, r, I) EXCEPT !.failed = F]
      BY <1>2 DEF Detected
    <2>2. CASE q = [r EXCEPT !.failed = F]
      BY <2>0, <2>2
    <2>3. ASSUME NEW I \in SUBSET (r.failed \cup F),
                 q = [Recovers(n, r, I) EXCEPT !.failed = F]
          PROVE  Inherits(q, r)
      <3> DEFINE p == [r EXCEPT !.failed = I]
                 c == Recovers(n, r, I)
      <3>1. p \in NodeState /\ Inherits(p, r)
        <4>1. I \in SUBSET Nodes
          BY DEF NodeState
        <4> QED BY <2>0, <4>1
      <3>2. c = p \/ c = Commit(n, p)
        BY DEF Recovers
      <3>3. c \in NodeState /\ Inherits(c, p)
        <4> HIDE DEF p, c
        <4> QED BY <3>1, <3>2, CommitType, CommitInherits, Itself
      <3>4. Inherits(c, r)
        <4> HIDE DEF p, c
        <4> QED BY <3>1, <3>3, Inherited
      <3>5. q \in NodeState /\ Inherits(q, c)
        <4> HIDE DEF p
        <4> QED BY <2>0, <2>3, <3>3
      <3> HIDE DEF c
      <3> QED BY <3>3, <3>4, <3>5, Inherited
    <2> QED BY <2>1, <2>2, <2>3
  <1> QED BY <1>1, <1>2

\* A heartbeat tells what the node holds, and the node holds no more after it.
LEMMA BeatSources ==
    ASSUME TypeOK, msgs' \subseteq Messages, SourcesInv, NEW n \in Nodes,
           NEW r \in NodeState, Beat(n, r), Inherits(r, node[n])
    PROVE  SourcesInv'
  <1>1. msgs \subseteq msgs' /\ node[n] \in NodeState
    BY DEF Beat, Send, TypeOK
  <1>2. CASE node' = [node EXCEPT ![n] = r]
    BY <1>1, <1>2, InheritingKeeps
  <1>3. ASSUME NEW q \in Detected(n, r),
               node' = [node EXCEPT ![n] = [q EXCEPT !.timers = @ \cup {"heartbeat"}]]
        PROVE  SourcesInv'
    <2> DEFINE p == [q EXCEPT !.timers = @ \cup {"heartbeat"}]
    <2>1. q \in NodeState /\ Inherits(q, r)
      BY DetectedType, DetectedInherits
    <2>2. p \in NodeState /\ Inherits(p, q)
      BY <2>1, RaftBoundsAssumption DEF Inherits, NodeState, Timers
    <2> HIDE DEF p
    <2>3. Inherits(p, node[n])
      BY <1>1, <2>1, <2>2, Inherited
    <2> QED BY <1>1, <1>3, <2>2, <2>3, InheritingKeeps DEF p
  <1> QED BY <1>2, <1>3 DEF Beat

\* The end of a handler that heard m and then changed nothing but what it inherits.
LEMMA HandlerSources ==
    ASSUME TypeOK, msgs' \subseteq Messages, SourcesInv, NEW n \in Nodes, NEW m \in msgs,
           NEW q \in NodeState, Inherits(q, Heard(n, m)),
           Silently(n, q) \/ \E x : Answer(n, q, x)
    PROVE  SourcesInv'
  <1>1. /\ node[n] \in NodeState /\ Heard(n, m) \in NodeState
        /\ Inherits(Heard(n, m), node[n])
    BY HeardInherits DEF TypeOK
  <1>2. Inherits(q, node[n])
    BY <1>1, Inherited
  <1>3. node' = [node EXCEPT ![n] = q] /\ msgs \subseteq msgs'
    BY DEF Silently, Answer, Send
  <1> QED BY <1>2, <1>3, InheritingKeeps

\* A node takes the values of a heartbeat with its number and its term, or keeps its own.
LEMMA AppendEntriesSources ==
    ASSUME TypeOK, msgs' \subseteq Messages, SourcesInv, NEW n \in Nodes, NEW m \in msgs,
           m.type = "AppendEntries", HandleAppendEntries(n, m)
    PROVE  SourcesInv'
  <1> DEFINE r == Heard(n, m)
             news == m.tn > r.tn
             c == IF m.cons = Cleared THEN r.cons ELSE m.cons
             t == IF news THEN m.tn ELSE r.tn
             v == IF news /\ m.cons # Cleared THEN m.cons ELSE r.comm
             T == IF r.state = "follower" THEN r.timers \cup {"election"} ELSE r.timers
             q == Told(r, m.count, c, t, v, T)
  <1>1. /\ m \in Messages /\ m.tn \in 0 .. MaxNumber /\ m.term \in 0 .. MaxTerm
        /\ m.count \in Counts /\ m.cons \in Values \cup {Null, Cleared}
    <2>1. m \in Messages
      BY DEF TypeOK
    <2> QED BY <2>1 DEF Messages, Terms
  <1>2. /\ node[n] \in NodeState /\ Sourced(node[n], msgs)
        /\ r \in NodeState /\ Inherits(r, node[n]) /\ r.term >= m.term
    <2>1. node[n] \in NodeState /\ r \in NodeState /\ Inherits(r, node[n])
      BY HeardInherits DEF TypeOK
    <2>2. r.term >= m.term
      BY <1>1, <2>1, RaftBoundsAssumption DEF Heard, StepDown, NodeState
    <2> QED BY <2>1, <2>2 DEF SourcesInv
  <1>3. /\ r.cons \in Values \cup {Null, Cleared} /\ r.comm \in Values \cup {Null}
        /\ r.tn \in 0 .. MaxNumber /\ r.term \in 0 .. MaxTerm /\ r.timers \in SUBSET Timers
    BY <1>2 DEF NodeState
  <1>4. /\ c \in Values \cup {Null, Cleared} /\ t \in 0 .. MaxNumber
        /\ v \in Values \cup {Null} /\ T \in SUBSET Timers
    BY <1>1, <1>3 DEF Timers
  <1>5. q \in NodeState
    <2> HIDE DEF r, c, t, v, T
    <2> QED BY <1>1, <1>2, <1>4, ToldType
  <1>6. q.cons = c /\ q.tn = t /\ q.comm = v /\ q.term = r.term
    <2> HIDE DEF r, c, t, v, T
    <2> QED BY <1>1, <1>2, <1>4 DEF Told, NodeState
  <1>7. t >= r.tn /\ t >= m.tn
    <2>1. r.tn \in Nat /\ m.tn \in Nat
      BY <1>1, <1>3, RaftBoundsAssumption
    <2> HIDE DEF r
    <2> QED BY <2>1
  <1>8. msgs \subseteq msgs' /\ node' = [node EXCEPT ![n] = q]
    BY DEF HandleAppendEntries, Answer, Send, Told
  <1>9. Sourced(r, msgs')
    BY <1>2, <1>8, Inherited
  <1>10. Sourced(q, msgs')
    <2>1. Sent(m.cons, q.term, q.tn, msgs')
      <3> HIDE DEF r, q, t
      <3> QED BY <1>2, <1>6, <1>7, <1>8 DEF Sent
    <2>2. ASSUME NEW w, Sent(w, r.term, r.tn, msgs')
          PROVE  Sent(w, q.term, q.tn, msgs')
      <3>1. PICK x \in msgs' : /\ x.type = "AppendEntries" /\ x.cons = w
                               /\ x.tn <= r.tn /\ x.term <= r.term
        BY <2>2 DEF Sent
      <3>2. x.tn \in Nat /\ r.tn \in Nat /\ t \in Nat
        BY <1>3, <1>4, <3>1, RaftBoundsAssumption DEF Messages
      <3>3. x.tn <= q.tn /\ x.term <= q.term
        <4> HIDE DEF r, q, t
        <4> QED BY <1>6, <1>7, <3>1, <3>2
      <3> QED BY <3>1, <3>3 DEF Sent
    <2>3. q.cons \in {r.cons, m.cons} /\ q.comm \in {r.comm, m.cons}
      <3> HIDE DEF r, q
      <3> QED BY <1>6
    <2> HIDE DEF r, q
    <2> QED BY <1>9, <2>1, <2>2, <2>3, <1>3 DEF Sourced
  <1> HIDE DEF q
  <1> QED BY <1>5, <1>8, <1>10, SourcesKept

\* The other messages bring no values.
LEMMA ReceiveSources ==
    ASSUME TypeOK, msgs' \subseteq Messages, SourcesInv, NEW n \in Nodes, NEW m \in msgs,
           Receive(n, m)
    PROVE  SourcesInv'
  <1> DEFINE r == Heard(n, m)
  <1>1. r \in NodeState /\ Inherits(r, r) /\ Inherits(r, node[n]) /\ node[n] \in NodeState
    BY HeardInherits, Itself DEF TypeOK
  <1>2. m \in Messages /\ m.from \in Nodes
    BY DEF TypeOK, Messages
  <1>3. CASE m.type = "RequestVote" /\ HandleRequestVote(n, m)
    <2> DEFINE grant == m.term = r.term /\ r.votedFor \in {NoNode, m.from}
               q == IF grant THEN [r EXCEPT !.votedFor = m.from] ELSE r
    <2>1. q \in NodeState /\ Inherits(q, r)
      BY <1>1, <1>2, RaftBoundsAssumption DEF Inherits, NodeState
    <2>2. \E x : Answer(n, q, x)
      BY <1>3 DEF HandleRequestVote
    <2> HIDE DEF q
    <2> QED BY <2>1, <2>2, HandlerSources
  <1>4. CASE m.type = "VoteResponse" /\ HandleVoteResponse(n, m)
    <2> DEFINE q == [r EXCEPT !.votes = @ \cup {m.from}]
               T == q.timers \ {"election", "discovery"}
               Z == [k \in Nodes |-> 0]
               p == Led(q, Z, T)
    <2>1. q \in NodeState /\ Inherits(q, r) /\ T \in SUBSET Timers
      BY <1>1, <1>2, RaftBoundsAssumption DEF Inherits, NodeState
    <2>2. CASE Silently(n, r) \/ Silently(n, q)
      <3> HIDE DEF q
      <3> QED BY <1>1, <2>1, <2>2, HandlerSources
    <2>3. CASE BecomeLeader(n, q)
      <3>1. Z \in [Nodes -> 0 .. MaxNumber]
        BY RaftBoundsAssumption
      <3>2. p \in NodeState
        <4> HIDE DEF q, Z, T
        <4> QED BY <2>1, <3>1, LedType
      <3>3. Inherits(p, q)
        <4> HIDE DEF q, Z, T
        <4> QED BY <2>1, RaftBoundsAssumption DEF Inherits, Led, NodeState
      <3>4. Beat(n, p)
        BY <2>3 DEF BecomeLeader, Led
      <3> HIDE DEF p
      <3>5. Inherits(p, node[n])
        <4>1. Inherits(q, node[n])
          <5> HIDE DEF q, r
          <5> QED BY <1>1, <2>1, Inherited
        <4> HIDE DEF q
        <4> QED BY <1>1, <2>1, <3>2, <3>3, <4>1, Inherited
      <3> QED BY <3>2, <3>4, <3>5, BeatSources
    <2> QED BY <1>4, <2>2, <2>3 DEF HandleVoteResponse
  <1>5. CASE m.type = "AppendResponse" /\ HandleAppendResponse(n, m)
    <2> DEFINE p == [r EXCEPT !.match = [@ EXCEPT ![m.from] = m.tn]]
               q == Commit(n, p)
    <2>1. p \in NodeState /\ Inherits(p, r)
      <3>1. m.tn \in 0 .. MaxNumber
        BY <1>2, <1>5 DEF Messages
      <3> QED BY <1>1, <1>2, <3>1, RaftBoundsAssumption DEF Inherits, NodeState
    <2>2. q \in NodeState /\ Inherits(q, p)
      <3> HIDE DEF p
      <3> QED BY <2>1, CommitType, CommitInherits
    <2>3. Inherits(q, r)
      <3> HIDE DEF p, q, r
      <3> QED BY <1>1, <2>1, <2>2, Inherited
    <2>4. Silently(n, q) \/ Silently(n, r)
      BY <1>5 DEF HandleAppendResponse
    <2> HIDE DEF q
    <2> QED BY <1>1, <2>2, <2>3, <2>4, HandlerSources
  <1>6. CASE m.type = "Discovery" /\ HandleDiscovery(n, m)
    BY <1>1, <1>6, HandlerSources DEF HandleDiscovery
  <1>7. CASE m.type = "DiscoveryResponse" /\ HandleDiscoveryResponse(n, m)
    <2> DEFINE q == [r EXCEPT !.responses = @ \cup {m.from}]
    <2>1. q \in NodeState /\ Inherits(q, r)
      BY <1>1, <1>2, RaftBoundsAssumption DEF Inherits, NodeState
    <2>2. Silently(n, q) \/ Silently(n, r)
      BY <1>7 DEF HandleDiscoveryResponse
    <2> HIDE DEF q
    <2> QED BY <1>1, <2>1, <2>2, HandlerSources
  <1>8. CASE m.type = "AppendEntries" /\ HandleAppendEntries(n, m)
    BY <1>8, AppendEntriesSources
  <1> QED BY <1>3, <1>4, <1>5, <1>6, <1>7, <1>8 DEF Receive

\* Nor do the timers.
LEMMA StartElectionSources ==
    ASSUME TypeOK, msgs' \subseteq Messages, SourcesInv, NEW n \in Nodes,
           NEW r \in NodeState, StartElection(n, r), Inherits(r, node[n])
    PROVE  SourcesInv'
  <1>1. msgs \subseteq msgs' /\ node[n] \in NodeState
    BY DEF StartElection, Send, TypeOK
  <1>2. CASE node' = [node EXCEPT ![n] = r]
    BY <1>1, <1>2, InheritingKeeps
  <1>3. CASE r.active /\ r.term < MaxTerm
    <2> DEFINE q == [r EXCEPT !.term = @ + 1, !.state = "candidate", !.votedFor = n,
                              !.votes = {n}, !.timers = @ \cup {"election"}]
    <2>1. r.term + 1 \in 0 .. MaxTerm
      BY <1>3, RaftBoundsAssumption DEF NodeState
    <2>2. q \in NodeState /\ Inherits(q, r)
      <3>1. q \in NodeState
        BY <2>1 DEF NodeState, Timers
      <3>2. /\ q.term = r.term + 1 /\ q.tn = r.tn /\ q.cons = r.cons
            /\ q.comm = r.comm
        BY DEF NodeState
      <3> HIDE DEF q
      <3> QED BY <3>1, <3>2, RaftBoundsAssumption DEF Inherits, NodeState
    <2>3. node' = [node EXCEPT ![n] = q]
      BY <1>3 DEF StartElection
    <2> HIDE DEF q
    <2>4. Inherits(q, node[n])
      BY <1>1, <2>2, Inherited
    <2> QED BY <1>1, <2>2, <2>3, <2>4, InheritingKeeps
  <1> QED BY <1>2, <1>3 DEF StartElection

LEMMA TimeoutSources ==
    ASSUME TypeInv, msgs' \subseteq Messages, SourcesInv, NEW n \in Nodes,
           ElectionTimeout(n) \/ DiscoveryTimeout(n) \/ HeartbeatTimeout(n)
    PROVE  SourcesInv'
  <1>1. TypeOK /\ node[n] \in NodeState /\ n \notin node[n].responses
    BY DEF TypeInv, TypeOK, NoSelfResponse
  <1>2. ASSUME NEW T \in SUBSET Timers
        PROVE  /\ [node[n] EXCEPT !.timers = T] \in NodeState
               /\ Inherits([node[n] EXCEPT !.timers = T], node[n])
    BY <1>1, RaftBoundsAssumption DEF Inherits, NodeState
  <1>3. ASSUME NEW t PROVE node[n].timers \ {t} \in SUBSET Timers
    BY <1>1 DEF NodeState
  <1>4. CASE ElectionTimeout(n)
    <2> DEFINE r == [node[n] EXCEPT !.timers = @ \ {"election"}]
    <2>1. r \in NodeState /\ Inherits(r, node[n])
      BY <1>2, <1>3
    <2>2. CASE StartElection(n, r)
      <3> HIDE DEF r
      <3> QED BY <1>1, <2>1, <2>2, StartElectionSources
    <2>3. CASE StartDiscovery(n, r)
      <3> DEFINE q == [r EXCEPT !.responses = {}, !.timers = @ \cup {"discovery"}]
      <3>1. q \in NodeState /\ Inherits(q, r)
        <4> HIDE DEF r
        <4>1. q \in NodeState
          BY <2>1 DEF NodeState, Timers
        <4>2. /\ q.term = r.term /\ q.tn = r.tn /\ q.cons = r.cons
              /\ q.comm = r.comm
          BY <2>1 DEF NodeState
        <4> HIDE DEF q
        <4> QED BY <2>1, <4>1, <4>2, Itself DEF Inherits
      <3>2. node' = [node EXCEPT ![n] = q] /\ msgs \subseteq msgs'
        BY <2>3 DEF StartDiscovery, Send
      <3> HIDE DEF q, r
      <3>3. Inherits(q, node[n])
        BY <1>1, <2>1, <3>1, Inherited
      <3> QED BY <1>1, <3>1, <3>2, <3>3, InheritingKeeps
    <2> QED BY <1>4, <2>2, <2>3 DEF ElectionTimeout
  <1>5. CASE DiscoveryTimeout(n)
    <2> DEFINE k == Cardinality(node[n].responses) + 1
               r == [node[n] EXCEPT !.timers = @ \ {"discovery"}, !.discovered = k,
                                    !.responses = {}]
    <2>1. k \in Counts
      <3>1. node[n].responses \in SUBSET Nodes
        BY <1>1 DEF NodeState
      <3>2. Cardinality(node[n].responses \cup {n}) = k
        BY <1>1, <3>1, CountsType, FS_AddElement, Zenon
      <3>3. node[n].responses \cup {n} \in SUBSET Nodes
        BY <3>1
      <3> QED BY <3>2, <3>3, CountsType
    <2>2. r \in NodeState /\ Inherits(r, node[n])
      <3> HIDE DEF k
      <3>1. r \in NodeState
        BY <1>1, <2>1 DEF NodeState
      <3>2. /\ r.term = node[n].term /\ r.tn = node[n].tn
            /\ r.cons = node[n].cons /\ r.comm = node[n].comm
        BY <1>1, <2>1 DEF NodeState
      <3> HIDE DEF r
      <3> QED BY <1>1, <3>1, <3>2, Itself DEF Inherits
    <2>3. StartElection(n, r)
      BY <1>5 DEF DiscoveryTimeout
    <2> HIDE DEF r
    <2> QED BY <1>1, <2>2, <2>3, StartElectionSources
  <1>6. CASE HeartbeatTimeout(n)
    <2> DEFINE r == [node[n] EXCEPT !.timers = @ \ {"heartbeat"}]
    <2>1. r \in NodeState /\ Inherits(r, node[n])
      BY <1>2, <1>3
    <2>2. Beat(n, r)
      BY <1>6 DEF HeartbeatTimeout
    <2> HIDE DEF r
    <2> QED BY <1>1, <2>1, <2>2, BeatSources
  <1> QED BY <1>4, <1>5, <1>6

\* A proposal is sent in the step that makes it, with the number it is given.
LEMMA ProposeSources ==
    ASSUME TypeOK, msgs' \subseteq Messages, SourcesInv, NEW n \in Nodes, NEW v \in Values,
           Propose(n, v)
    PROVE  SourcesInv'
  <1> DEFINE r == [node[n] EXCEPT !.cons = v, !.tn = @ + 1]
  <1>1. /\ node[n] \in NodeState /\ Sourced(node[n], msgs)
        /\ node[n].tn \in Nat /\ node[n].tn + 1 \in 0 .. MaxNumber
        /\ node[n].term \in Nat
    BY Numbers, RaftBoundsAssumption DEF Propose, SourcesInv, NodeState
  <1>2. /\ r \in NodeState /\ r.cons = v /\ r.tn = node[n].tn + 1
        /\ r.comm = node[n].comm /\ r.term = node[n].term
    BY <1>1 DEF NodeState
  <1>3. PICK q \in Detected(n, r) : node' = [node EXCEPT ![n] = q]
    BY DEF Propose
  <1>4. Entries(n, r) \in msgs' /\ msgs \subseteq msgs'
    BY DEF Propose, Send
  <1> HIDE DEF r
  <1>5. Sent(r.cons, r.term, r.tn, msgs')
    BY <1>1, <1>2, <1>4 DEF Entries, Sent
  <1>6. r.comm # Null => Sent(r.comm, r.term, r.tn, msgs')
    <2> SUFFICES ASSUME r.comm # Null PROVE Sent(r.comm, r.term, r.tn, msgs')
      OBVIOUS
    <2>1. PICK x \in msgs : /\ x.type = "AppendEntries" /\ x.cons = node[n].comm
                            /\ x.tn <= node[n].tn /\ x.term <= node[n].term
      BY <1>1, <1>2 DEF Sourced, Sent
    <2>2. x \in msgs' /\ x.tn \in Nat
      BY <1>4, <2>1, RaftBoundsAssumption DEF Messages
    <2> QED BY <1>1, <1>2, <2>1, <2>2 DEF Sent
  <1>7. q \in NodeState /\ Inherits(q, r)
    BY <1>2, DetectedType, DetectedInherits
  <1>8. Sourced(q, msgs')
    <2>1. Sourced(r, msgs')
      BY <1>5, <1>6 DEF Sourced
    <2> QED BY <1>2, <1>7, <2>1, Inherited
  <1> QED BY <1>3, <1>4, <1>7, <1>8, SourcesKept

\* An outage touches no values.
LEMMA OutageSources ==
    ASSUME TypeOK, msgs' \subseteq Messages, SourcesInv, NEW n \in Nodes,
           Deactivate(n) \/ Activate(n)
    PROVE  SourcesInv'
  <1>1. msgs \subseteq msgs' /\ node[n] \in NodeState
    BY DEF Deactivate, Activate, TypeOK
  <1>2. ASSUME NEW r \in NodeState, NEW b \in BOOLEAN
        PROVE  /\ [r EXCEPT !.active = b] \in NodeState
               /\ Inherits([r EXCEPT !.active = b], r)
    BY RaftBoundsAssumption DEF Inherits, NodeState
  <1>3. ASSUME NEW b \in BOOLEAN, node' = [node EXCEPT ![n].active = b]
        PROVE  SourcesInv'
    <2>1. node' = [node EXCEPT ![n] = [node[n] EXCEPT !.active = b]]
      BY <1>3
    <2> QED BY <1>1, <1>2, <2>1, InheritingKeeps
  <1>4. CASE /\ node[n].term < MaxTerm
             /\ node' = [node EXCEPT ![n] =
                            [StepDown(@, @.term + 1) EXCEPT !.active = FALSE]]
    <2> DEFINE r == StepDown(node[n], node[n].term + 1)
               q == [r EXCEPT !.active = FALSE]
    <2>1. node[n].term + 1 \in Terms
      BY <1>1, <1>4, RaftBoundsAssumption DEF Terms, NodeState
    <2>2. r \in NodeState
      BY <1>1, <2>1, StepDownType
    <2>3. /\ r.term = node[n].term + 1 /\ r.tn = node[n].tn
          /\ r.cons = node[n].cons /\ r.comm = node[n].comm
      BY <1>1 DEF StepDown, NodeState
    <2> HIDE DEF r
    <2>4. Inherits(r, node[n])
      BY <1>1, <2>3, RaftBoundsAssumption DEF Inherits, NodeState
    <2>5. q \in NodeState /\ Inherits(q, r)
      BY <1>2, <2>2
    <2>6. node' = [node EXCEPT ![n] = q]
      BY <1>4 DEF r
    <2> HIDE DEF q
    <2>7. Inherits(q, node[n])
      BY <1>1, <2>2, <2>4, <2>5, Inherited
    <2> QED BY <1>1, <2>5, <2>6, <2>7, InheritingKeeps
  <1> QED BY <1>3, <1>4 DEF Deactivate, Activate

LEMMA SourcesNext ==
    ElectionInv /\ ElectionInv' /\ SourcesInv /\ [Next]_vars => SourcesInv'
  <1> SUFFICES ASSUME ElectionInv, ElectionInv', SourcesInv, [Next]_vars
               PROVE  SourcesInv'
    OBVIOUS
  <1>1. TypeInv /\ TypeOK /\ msgs' \subseteq Messages
    BY DEF ElectionInv, TypeInv, TypeOK
  <1>2. CASE UNCHANGED vars
    BY <1>2 DEF vars, SourcesInv
  <1>3. ASSUME NEW n \in Nodes, Step(n)
        PROVE  SourcesInv'
    <2>1. CASE ElectionTimeout(n) \/ DiscoveryTimeout(n) \/ HeartbeatTimeout(n)
      BY <1>1, <2>1, TimeoutSources
    <2>2. CASE \E m \in msgs : Receive(n, m)
      BY <1>1, <2>2, ReceiveSources
    <2>3. CASE \E v \in Values : Propose(n, v)
      BY <1>1, <2>3, ProposeSources
    <2>4. CASE Deactivate(n) \/ Activate(n)
      BY <1>1, <2>4, OutageSources
    <2> QED BY <1>3, <2>1, <2>2, <2>3, <2>4 DEF Step
  <1> QED BY <1>2, <1>3 DEF Next

-----------------------------------------------------------------------------
(* The theorems.                                                           *)

LEMMA ProgressInit == Init => ProgressInv
  <1> SUFFICES ASSUME Init PROVE ProgressInv
    OBVIOUS
  <1>1. /\ \A n \in Nodes : node[n] = Fresh
        /\ Fresh.state = "follower" /\ Fresh.timers = {"election"} /\ Fresh.active
        /\ Fresh.tn = 0 /\ \A k \in Nodes : Fresh.match[k] = 0
        /\ msgs = {}
    BY DEF Init, Fresh
  <1> QED BY <1>1 DEF ProgressInv, Waits, ResponsesBacked, MatchBacked

LEMMA ProgressNext ==
    ElectionInv /\ ProgressInv /\ [Next]_vars
        => ProgressInv' /\ (CommitsBacked \/ UNCHANGED vars)
  <1> SUFFICES ASSUME ElectionInv, ProgressInv, [Next]_vars
               PROVE  ProgressInv' /\ (CommitsBacked \/ UNCHANGED vars)
    OBVIOUS
  <1>1. TypeInv /\ TypeOK
    BY DEF ElectionInv, TypeInv
  <1>2. CASE UNCHANGED vars
    BY <1>2 DEF vars, ProgressInv, Waits, ResponsesBacked, MatchBacked
  <1>3. ASSUME NEW n \in Nodes, Step(n)
        PROVE  ProgressInv' /\ CommitsBacked
    <2>1. CASE ElectionTimeout(n) \/ DiscoveryTimeout(n) \/ HeartbeatTimeout(n)
      BY <1>1, <2>1, TimeoutProgress
    <2>2. CASE \E m \in msgs : Receive(n, m)
      BY <1>1, <2>2, ReceiveProgress
    <2>3. CASE \E v \in Values : Propose(n, v)
      BY <1>1, <2>3, ProposeProgress
    <2>4. CASE Deactivate(n) \/ Activate(n)
      BY <1>1, <2>4, OutageProgress
    <2> QED BY <1>3, <2>1, <2>2, <2>3, <2>4 DEF Step
  <1> QED BY <1>2, <1>3 DEF Next

\* A leader whose configuration has a heartbeat interval waits for its next heartbeat and
\* for nothing else, through elections, discoveries and outages of any length.
THEOREM LeadersBeat == DetectorConfigured => (Spec => []LeaderBeats)
  <1> SUFFICES ASSUME DetectorConfigured PROVE Spec => []LeaderBeats
    OBVIOUS
  <1>1. ProgressInv => LeaderBeats
    BY DEF ProgressInv, Waits, LeaderBeats
  <1> QED BY <1>1, ElectionInit, ElectionNext, ProgressInit, ProgressNext, PTL DEF Spec

\* A node that does not lead waits for an election or for the end of a discovery, unless
\* it has been made inactive: whatever it hears, no handler leaves it without a timer.
THEOREM NobodyIsStuck == Spec => []TimersKeepRunning
  <1>1. ProgressInv => TimersKeepRunning
    BY DEF ProgressInv, Waits, TimersKeepRunning
  <1> QED BY <1>1, ElectionInit, ElectionNext, ProgressInit, ProgressNext, PTL DEF Spec

\* With fixed majorities a leader commits by itself only what a majority of the nodes has
\* reached the number of, however late, often or out of order their answers came, and
\* whoever its failure detector suspects.
THEOREM CommitsReachMajority == Spec => CommitsAreReplicated
  <1>1. CommitsBacked \/ UNCHANGED vars => [CommitsBacked]_vars
    OBVIOUS
  <1> QED BY <1>1, ElectionInit, ElectionNext, ProgressInit, ProgressNext, PTL
          DEF Spec, CommitsAreReplicated, CommitsBacked, Level

\* Whatever a node holds committed came out of a heartbeat of an elected leader, with a
\* number and in a term that the node has reached, in either mode and in a cluster of any
\* size: no value is made up or taken from a candidate, and none arrives before its number,
\* though a node takes the values of leaders that were voted out long ago
\* (handle_append_entries compares no terms).
THEOREM CommitsComeFromLeaders == Spec => []CommitsOfElected
  <1>1. Init => SourcesInv
    BY DEF Init, Fresh, SourcesInv, Sourced
  <1>2. ElectionInv /\ SourcesInv => CommitsOfElected
    BY ValuesAssumption
       DEF ElectionInv, LeadersElected, SourcesInv, Sourced, Sent, CommitsOfElected
  <1> QED BY <1>1, <1>2, ElectionInit, ElectionNext, SourcesNext, PTL DEF Spec

=============================================================================

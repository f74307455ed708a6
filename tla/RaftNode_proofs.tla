---------------------------- MODULE RaftNode_proofs ----------------------------
(***************************************************************************)
(* Proofs about the Raft plugin: its types and the uniqueness of leaders,  *)
(* for any set of nodes and values and any bounds.                         *)
(***************************************************************************)
EXTENDS RaftNode, FiniteSetTheorems, TLAPS

-----------------------------------------------------------------------------
(* Types.                                                                   *)

\* A node never counts itself among the answers to its discovery, so that with
\* itself it finds no more nodes than there are.
NoSelfResponse == \A n \in Nodes : n \notin node[n].responses

TypeInv == TypeOK /\ NoSelfResponse

\* The number of nodes, and of those a node believes active, are counts.
LEMMA CountsType ==
    /\ Cardinality(Nodes) \in Nat
    /\ \A S \in SUBSET Nodes : IsFiniteSet(S) /\ Cardinality(S) \in Counts
  <1>1. Cardinality(Nodes) \in Nat
    BY NodesAssumption, FS_CardinalityType
  <1>2. ASSUME NEW S \in SUBSET Nodes
        PROVE  IsFiniteSet(S) /\ Cardinality(S) \in Counts
    BY <1>1, NodesAssumption, FS_Subset, FS_CardinalityType DEF Counts
  <1> QED BY <1>1, <1>2

\* A node that steps down into a term of the model is a node still.
LEMMA StepDownType ==
    ASSUME NEW r \in NodeState, NEW t \in Terms
    PROVE  StepDown(r, t) \in NodeState
  <1>1. 0 \in Counts
    BY CountsType DEF Counts
  <1> QED BY <1>1 DEF StepDown, NodeState, Terms, Timers

\* Adopting the term of a message keeps a node a node.
LEMMA HeardType ==
    ASSUME TypeOK, NEW n \in Nodes, NEW m \in msgs
    PROVE  Heard(n, m) \in NodeState
  <1>1. node[n] \in NodeState
    BY DEF TypeOK
  <1>2. m.term \in Terms
    BY DEF TypeOK, Messages
  <1> QED BY <1>1, <1>2, StepDownType DEF Heard

\* Two states of a node that differ in no more than its values, its timers and
\* what it believes of other nodes,
SameElection(q, r) == /\ q.state = r.state /\ q.term = r.term
                      /\ q.votedFor = r.votedFor /\ q.votes = r.votes

\* and two that moreover have had the same answers to a discovery.
SameAnswers(q, r) == SameElection(q, r) /\ q.responses = r.responses

\* What becomes of r when a heartbeat tells it a count, values and their number,
Told(r, k, c, t, v, T) ==
    [r EXCEPT !.count = k, !.cons = c, !.tn = t, !.comm = v, !.timers = T]

\* is no matter of its election.
LEMMA ToldType ==
    ASSUME NEW r \in NodeState, NEW k \in Counts, NEW c \in Values \cup {Null, Cleared},
           NEW t \in 0 .. MaxNumber, NEW v \in Values \cup {Null},
           NEW T \in SUBSET Timers
    PROVE  /\ Told(r, k, c, t, v, T) \in NodeState
           /\ SameElection(Told(r, k, c, t, v, T), r)
           /\ Told(r, k, c, t, v, T).responses = r.responses
  <1> DEFINE q == Told(r, k, c, t, v, T)
  <1>1. /\ q.state = r.state /\ q.term = r.term /\ q.votedFor = r.votedFor
        /\ q.votes = r.votes /\ q.responses = r.responses
    BY DEF NodeState, Told
  <1>2. q \in NodeState
    BY DEF NodeState, Told
  <1> QED BY <1>1, <1>2 DEF SameElection

\* What becomes of a candidate that has won, apart from its first heartbeat,
Led(r, M, T) == [r EXCEPT !.state = "leader", !.count = 0, !.discovered = 0,
                          !.match = M, !.timers = T]

\* is a leader of the same term.
LEMMA LedType ==
    ASSUME NEW r \in NodeState, NEW M \in [Nodes -> 0 .. MaxNumber],
           NEW T \in SUBSET Timers
    PROVE  /\ Led(r, M, T) \in NodeState
           /\ Led(r, M, T).state = "leader" /\ Led(r, M, T).term = r.term
           /\ Led(r, M, T).votedFor = r.votedFor /\ Led(r, M, T).votes = r.votes
           /\ Led(r, M, T).responses = r.responses
  <1>1. 0 \in Counts
    BY CountsType DEF Counts
  <1>2. Led(r, M, T) \in NodeState
    BY <1>1 DEF NodeState, Led
  <1> QED BY <1>2 DEF NodeState, Led

\* Committing keeps a node a node, and does not touch its election.
LEMMA CommitType ==
    ASSUME NEW n \in Nodes, NEW r \in NodeState
    PROVE  Commit(n, r) \in NodeState /\ SameAnswers(Commit(n, r), r)
  <1>1. CASE r.cons \notin {Cleared, r.comm} /\ Confirmed(n, r)
    BY <1>1 DEF Commit, NodeState, SameElection, SameAnswers
  <1>2. CASE ~(r.cons \notin {Cleared, r.comm} /\ Confirmed(n, r))
    BY <1>2 DEF Commit, SameElection, SameAnswers
  <1> QED BY <1>1, <1>2

\* Nor does the detector's check.
LEMMA DetectedType ==
    ASSUME NEW n \in Nodes, NEW r \in NodeState, NEW q \in Detected(n, r)
    PROVE  q \in NodeState /\ SameAnswers(q, r)
  <1>1. CASE ~DetectorConfigured
    BY <1>1 DEF Detected, SameElection, SameAnswers
  <1>2. CASE DetectorConfigured
    <2>1. PICK F \in SUBSET (Nodes \ {n}) :
             \/ q = [r EXCEPT !.failed = F]
             \/ \E I \in SUBSET (r.failed \cup F) :
                   q = [Recovers(n, r, I) EXCEPT !.failed = F]
      BY <1>2 DEF Detected
    <2>2. CASE q = [r EXCEPT !.failed = F]
      BY <2>2 DEF NodeState, SameElection, SameAnswers
    <2>3. CASE \E I \in SUBSET (r.failed \cup F) :
                  q = [Recovers(n, r, I) EXCEPT !.failed = F]
      <3>1. PICK I \in SUBSET (r.failed \cup F) :
               q = [Recovers(n, r, I) EXCEPT !.failed = F]
        BY <2>3
      <3> DEFINE p == [r EXCEPT !.failed = I]
                 c == Recovers(n, r, I)
      <3>2. p \in NodeState /\ SameAnswers(p, r)
        BY DEF NodeState, SameElection, SameAnswers
      <3>3. c = p \/ c = Commit(n, p)
        BY DEF Recovers
      <3>4. Commit(n, p) \in NodeState /\ SameAnswers(Commit(n, p), p)
        BY <3>2, CommitType
      <3>5. c \in NodeState /\ SameAnswers(c, r)
        BY <3>2, <3>3, <3>4 DEF SameElection, SameAnswers
      <3> HIDE DEF c
      <3>6. q = [c EXCEPT !.failed = F]
        BY <3>1 DEF c
      <3> QED BY <3>5, <3>6 DEF NodeState, SameElection, SameAnswers
    <2> QED BY <2>1, <2>2, <2>3
  <1> QED BY <1>1, <1>2

\* Everything that is sent is a message.
LEMMA EntriesType ==
    ASSUME NEW n \in Nodes, NEW r \in NodeState
    PROVE  Entries(n, r) \in Messages
  <1>1. ActiveNodes(n, r) \in SUBSET Nodes
    BY DEF ActiveNodes
  <1>2. Cardinality(ActiveNodes(n, r)) \in Counts
    BY <1>1, CountsType
  <1> QED BY <1>2 DEF Entries, Messages, NodeState, Terms

-----------------------------------------------------------------------------
(* The steps, seen from one node: it becomes r and perhaps sends x.         *)

\* A well-typed state for the node n to become.
Fits(n, r) == r \in NodeState /\ n \notin r.responses

\* A step in which n becomes r, sending x or nothing, preserves the types.
LEMMA BecomesType ==
    ASSUME TypeInv, NEW n \in Nodes, NEW r, NEW x \in Messages, Fits(n, r),
           node' = [node EXCEPT ![n] = r],
           msgs' = msgs \cup {x} \/ msgs' = msgs,
           mode' = mode, hit' \subseteq Nodes
    PROVE  TypeInv'
  <1>1. TypeOK'
    BY DEF TypeInv, TypeOK, Fits
  <1>2. NoSelfResponse'
    BY DEF TypeInv, TypeOK, NoSelfResponse, Fits
  <1> QED BY <1>1, <1>2 DEF TypeInv

\* Whatever Beat is given becomes the state of the node, but for what the detector
\* and the heartbeat timer change.
LEMMA BeatBecomes ==
    ASSUME NEW n \in Nodes, NEW r, Fits(n, r), Beat(n, r)
    PROVE  \E q : /\ node' = [node EXCEPT ![n] = q]
                  /\ msgs' = msgs \cup {Entries(n, r)}
                  /\ Fits(n, q) /\ SameElection(q, r)
  <1>1. CASE node' = [node EXCEPT ![n] = r]
    BY <1>1 DEF Beat, Send, SameElection
  <1>2. CASE \E q \in Detected(n, r) :
                node' = [node EXCEPT ![n] = [q EXCEPT !.timers = @ \cup {"heartbeat"}]]
    <2>1. PICK q \in Detected(n, r) :
             node' = [node EXCEPT ![n] = [q EXCEPT !.timers = @ \cup {"heartbeat"}]]
      BY <1>2
    <2>2. q \in NodeState /\ SameAnswers(q, r)
      BY DetectedType DEF Fits
    <2> DEFINE p == [q EXCEPT !.timers = @ \cup {"heartbeat"}]
    <2>3. p \in NodeState /\ SameAnswers(p, q)
      BY <2>2 DEF NodeState, SameElection, SameAnswers, Timers
    <2>4. SameElection(p, r) /\ Fits(n, p)
      BY <2>2, <2>3 DEF SameElection, SameAnswers, Fits
    <2>5. msgs' = msgs \cup {Entries(n, r)}
      BY DEF Beat, Send
    <2> QED BY <2>1, <2>4, <2>5
  <1> QED BY <1>1, <1>2 DEF Beat

-----------------------------------------------------------------------------
(* The inductive invariant of elections.  A ballot is a message that shows  *)
(* a vote: the request of a candidate, which votes for itself, or a granted *)
(* response.                                                                *)

IsBallot(x) == x.type = "RequestVote" \/ (x.type = "VoteResponse" /\ x.granted)
Choice(x) == IF x.type = "RequestVote" THEN x.from ELSE x.to

\* m cast a vote for c in term t, and a message of S shows it.
Cast(S, m, c, t) ==
    \E x \in S : IsBallot(x) /\ x.from = m /\ x.term = t /\ Choice(x) = c

\* Nobody leads without a vote besides its own.
Quorum(Q) == /\ Cardinality(Q) >= 2
             /\ mode = "classic" => 2 * Cardinality(Q) > Cardinality(Nodes)

\* A voter is still in the term of its ballot, and bound by it, or beyond that term.
BallotsBind ==
    \A x \in msgs : IsBallot(x) =>
        /\ node[x.from].term >= x.term
        /\ node[x.from].term = x.term => node[x.from].votedFor = Choice(x)

\* No node casts two ballots in one term.
BallotsUnique ==
    \A x, y \in msgs :
        IsBallot(x) /\ IsBallot(y) /\ x.from = y.from /\ x.term = y.term
            => Choice(x) = Choice(y)

\* The votes a node counts were cast, its own among them unless it follows, and
\* those of a leader are a quorum.
VotesBacked ==
    \A n \in Nodes :
        /\ \A m \in node[n].votes : Cast(msgs, m, n, node[n].term)
        /\ node[n].state # "follower" => n \in node[n].votes
        /\ node[n].state = "leader" => Quorum(node[n].votes)

\* Whoever sent a heartbeat had been voted for by a quorum, and by itself.
LeadersElected ==
    \A a \in msgs : a.type = "AppendEntries" =>
        \E Q \in SUBSET Nodes :
            Quorum(Q) /\ a.from \in Q /\ \A m \in Q : Cast(msgs, m, a.from, a.term)

ElectionInv == TypeInv /\ BallotsBind /\ BallotsUnique /\ VotesBacked /\ LeadersElected

\* What a step of n has to respect: n becomes r and sends the messages of M.
Careful(n, r, M) ==
    /\ Fits(n, r) /\ M \subseteq Messages
    /\ r.term >= node[n].term
    /\ r.term = node[n].term /\ node[n].votedFor # NoNode => r.votedFor = node[n].votedFor
    /\ \A x \in M : IsBallot(x) => /\ x.from = n /\ x.term = r.term
                                   /\ r.votedFor = Choice(x)
    /\ \A m \in r.votes : Cast(msgs \cup M, m, n, r.term)
    /\ r.state # "follower" => n \in r.votes
    /\ r.state = "leader" => Quorum(r.votes)
    /\ \A x \in M : x.type = "AppendEntries" =>
           x.from = n /\ x.term = r.term /\ r.state = "leader"

\* No term goes back and no vote is taken back in this step.
VotesStand ==
    \A n \in Nodes :
        /\ node'[n].term >= node[n].term
        /\ node'[n].term = node[n].term /\ node[n].votedFor # NoNode
              => node'[n].votedFor = node[n].votedFor

\* Votes that were shown by some messages are shown by more of them.
LEMMA CastMonotone ==
    ASSUME NEW S, NEW T, S \subseteq T, NEW m, NEW c, NEW t, Cast(S, m, c, t)
    PROVE  Cast(T, m, c, t)
  BY DEF Cast

\* A careful step preserves the invariant, and takes no vote back.
LEMMA CarefulKeeps ==
    ASSUME ElectionInv, NEW n \in Nodes, NEW r, NEW M, Careful(n, r, M),
           node' = [node EXCEPT ![n] = r], msgs' = msgs \cup M,
           mode' = mode, hit' \subseteq Nodes
    PROVE  ElectionInv' /\ VotesStand
  <1> USE DEF ElectionInv
  <1>1. TypeInv'
    BY DEF TypeInv, TypeOK, NoSelfResponse, Fits, Careful
  <1>2. /\ node \in [Nodes -> NodeState] /\ r \in NodeState
        /\ \A x \in msgs : x.from \in Nodes /\ x.term \in Nat
        /\ \A m \in Nodes : node[m].term \in Nat
        /\ r.term \in Nat
    BY RaftBoundsAssumption DEF TypeInv, TypeOK, Messages, Terms, NodeState, Careful, Fits
  <1>3. \A x \in msgs : IsBallot(x) => Choice(x) # NoNode
    BY NodesAssumption DEF TypeInv, TypeOK, Messages, IsBallot, Choice
  <1>4. /\ node'[n] = r
        /\ \A m \in Nodes \ {n} : node'[m] = node[m]
    BY <1>2
  <1>5. BallotsBind'
    <2> SUFFICES ASSUME NEW x \in msgs', IsBallot(x)
                 PROVE  /\ node'[x.from].term >= x.term
                        /\ node'[x.from].term = x.term => node'[x.from].votedFor = Choice(x)
      BY DEF BallotsBind, IsBallot, Choice
    <2>1. CASE x \in M
      BY <2>1, <1>2, <1>4 DEF Careful
    <2>2. CASE x \in msgs /\ x.from # n
      BY <2>2, <1>2, <1>4 DEF BallotsBind
    <2>3. CASE x \in msgs /\ x.from = n
      BY <2>3, <1>2, <1>3, <1>4 DEF BallotsBind, Careful
    <2> QED BY <2>1, <2>2, <2>3
  <1>6. BallotsUnique'
    <2> SUFFICES ASSUME NEW x \in msgs', NEW y \in msgs', IsBallot(x), IsBallot(y),
                        x.from = y.from, x.term = y.term
                 PROVE  Choice(x) = Choice(y)
      BY DEF BallotsUnique, IsBallot, Choice
    <2>1. CASE x \in msgs /\ y \in msgs
      BY <2>1 DEF BallotsUnique
    <2>2. ASSUME NEW z \in msgs, NEW w \in M, IsBallot(z), IsBallot(w),
                 z.from = w.from, z.term = w.term
          PROVE  Choice(z) = Choice(w)
      BY <2>2, <1>2, <1>3 DEF BallotsBind, Careful
    <2>3. CASE x \in M /\ y \in M
      BY <2>3 DEF Careful
    <2> QED BY <2>1, <2>2, <2>3
  <1>7. VotesBacked'
    <2> SUFFICES ASSUME NEW m \in Nodes
                 PROVE  /\ \A k \in node'[m].votes : Cast(msgs', k, m, node'[m].term)
                        /\ node'[m].state # "follower" => m \in node'[m].votes
                        /\ node'[m].state = "leader" => Quorum(node'[m].votes)
      BY DEF VotesBacked, Cast, IsBallot, Choice, Quorum
    <2>1. CASE m = n
      BY <2>1, <1>4 DEF Careful
    <2>2. CASE m # n
      BY <2>2, <1>4, CastMonotone DEF VotesBacked
    <2> QED BY <2>1, <2>2
  <1>8. LeadersElected'
    <2> SUFFICES ASSUME NEW a \in msgs', a.type = "AppendEntries"
                 PROVE  \E Q \in SUBSET Nodes :
                           /\ Quorum(Q) /\ a.from \in Q
                           /\ \A m \in Q : Cast(msgs', m, a.from, a.term)
      BY DEF LeadersElected, Cast, IsBallot, Choice, Quorum
    <2>1. CASE a \in msgs
      BY <2>1, CastMonotone DEF LeadersElected
    <2>2. CASE a \in M
      <3>1. r.votes \in SUBSET Nodes
        BY <1>2 DEF NodeState
      <3> QED BY <2>2, <3>1 DEF Careful
    <2> QED BY <2>1, <2>2
  <1>9. VotesStand
    BY <1>2, <1>4 DEF VotesStand, Careful
  <1> QED BY <1>1, <1>5, <1>6, <1>7, <1>8, <1>9

-----------------------------------------------------------------------------
(* What the handlers are made of is careful.                                *)

\* A node that stays as it is.
LEMMA StayingCareful ==
    ASSUME ElectionInv, NEW n \in Nodes
    PROVE  Careful(n, node[n], {})
  <1>1. node[n] \in NodeState /\ n \notin node[n].responses /\ node[n].term \in Nat
    BY RaftBoundsAssumption
    DEF ElectionInv, TypeInv, TypeOK, NoSelfResponse, NodeState
  <1>2. msgs \cup {} = msgs
    OBVIOUS
  <1> QED BY <1>1, <1>2 DEF Careful, Fits, ElectionInv, VotesBacked

\* Stepping down into a later term.
LEMMA StepDownCareful ==
    ASSUME ElectionInv, NEW n \in Nodes, NEW t \in Terms, t > node[n].term
    PROVE  Careful(n, StepDown(node[n], t), {})
  <1> DEFINE r == StepDown(node[n], t)
  <1>1. node[n] \in NodeState /\ n \notin node[n].responses /\ node[n].term \in Nat
    BY RaftBoundsAssumption
    DEF ElectionInv, TypeInv, TypeOK, NoSelfResponse, NodeState
  <1>2. r \in NodeState
    BY <1>1, StepDownType
  <1>3. /\ r.state = "follower" /\ r.term = t /\ r.votes = {}
        /\ r.responses = node[n].responses
    BY <1>1 DEF StepDown, NodeState
  <1>4. t \in Nat
    BY RaftBoundsAssumption DEF Terms
  <1> QED BY <1>1, <1>2, <1>3, <1>4 DEF Careful, Fits

\* Hearing a message, whatever it is.
LEMMA HeardCareful ==
    ASSUME ElectionInv, NEW n \in Nodes, NEW m \in msgs
    PROVE  Careful(n, Heard(n, m), {})
  <1>1. m.term \in Terms
    BY DEF ElectionInv, TypeInv, TypeOK, Messages
  <1> QED BY <1>1, StayingCareful, StepDownCareful DEF Heard

\* Changing anything but the election, and sending what is no ballot.
LEMMA AsideCareful ==
    ASSUME NEW n \in Nodes, NEW r, Careful(n, r, {}), NEW q, Fits(n, q),
           SameElection(q, r), NEW M, M \subseteq Messages,
           \A x \in M : /\ ~IsBallot(x)
                        /\ x.type = "AppendEntries" =>
                              x.from = n /\ x.term = r.term /\ r.state = "leader"
    PROVE  Careful(n, q, M)
  <1>1. \A m \in q.votes : Cast(msgs \cup M, m, n, q.term)
    BY CastMonotone DEF Careful, SameElection
  <1> QED BY <1>1 DEF Careful, SameElection

\* A node that becomes a candidate votes for itself and says so.
LEMMA StartElectionKeeps ==
    ASSUME ElectionInv, NEW n \in Nodes, NEW r, Careful(n, r, {}),
           StartElection(n, r), UNCHANGED <<mode, hit>>
    PROVE  ElectionInv' /\ VotesStand
  <1>0. /\ r \in NodeState /\ n \notin r.responses
        /\ r.term \in Nat /\ node[n].term \in Nat /\ r.term >= node[n].term
        /\ hit' \subseteq Nodes
    BY RaftBoundsAssumption
    DEF Careful, Fits, NodeState, ElectionInv, TypeInv, TypeOK
  <1>1. CASE node' = [node EXCEPT ![n] = r] /\ msgs' = msgs
    <2>1. msgs' = msgs \cup {}
      BY <1>1
    <2> QED BY <1>0, <1>1, <2>1, CarefulKeeps
  <1>2. CASE r.active /\ r.term < MaxTerm
    <2> DEFINE q == [r EXCEPT !.term = @ + 1, !.state = "candidate", !.votedFor = n,
                              !.votes = {n}, !.timers = @ \cup {"election"}]
               x == [type |-> "RequestVote", from |-> n, term |-> r.term + 1]
    <2>0. r.term + 1 \in 0 .. MaxTerm
      BY <1>0, <1>2, RaftBoundsAssumption DEF NodeState
    <2>1. q \in NodeState /\ x \in Messages
      <3>1. q \in NodeState
        BY <1>0, <2>0 DEF NodeState, Timers
      <3>2. x \in Messages
        BY <2>0 DEF Messages, Terms
      <3> QED BY <3>1, <3>2
    <2>2. /\ q.term = r.term + 1 /\ q.state = "candidate" /\ q.votedFor = n
          /\ q.votes = {n} /\ q.responses = r.responses
      BY <1>0 DEF NodeState
    <2>3. IsBallot(x) /\ Choice(x) = n /\ x.from = n /\ x.term = r.term + 1
          /\ x.type # "AppendEntries"
      BY DEF IsBallot, Choice
    <2>4. Cast(msgs \cup {x}, n, n, r.term + 1)
      BY <2>3 DEF Cast
    <2>5. Careful(n, q, {x})
      BY <1>0, <2>1, <2>2, <2>3, <2>4 DEF Careful, Fits
    <2>6. node' = [node EXCEPT ![n] = q] /\ msgs' = msgs \cup {x}
      BY <1>2 DEF StartElection, Send
    <2> QED BY <1>0, <2>5, <2>6, CarefulKeeps
  <1> QED BY <1>1, <1>2 DEF StartElection

\* A leader's heartbeat.
LEMMA BeatKeeps ==
    ASSUME ElectionInv, NEW n \in Nodes, NEW r, Careful(n, r, {}),
           r.state = "leader", Beat(n, r), UNCHANGED <<mode, hit>>
    PROVE  ElectionInv' /\ VotesStand
  <1>1. Fits(n, r) /\ r \in NodeState
    BY DEF Careful, Fits
  <1>2. PICK q : /\ node' = [node EXCEPT ![n] = q]
                 /\ msgs' = msgs \cup {Entries(n, r)}
                 /\ Fits(n, q) /\ SameElection(q, r)
    BY <1>1, BeatBecomes
  <1>3. /\ {Entries(n, r)} \subseteq Messages
        /\ \A x \in {Entries(n, r)} : ~IsBallot(x) /\ x.from = n /\ x.term = r.term
    BY <1>1, EntriesType DEF Entries, IsBallot
  <1>4. Careful(n, q, {Entries(n, r)})
    BY <1>2, <1>3, AsideCareful
  <1>5. hit' \subseteq Nodes
    BY DEF ElectionInv, TypeInv, TypeOK
  <1> QED BY <1>2, <1>4, <1>5, CarefulKeeps

-----------------------------------------------------------------------------
(* The actions.                                                             *)

\* The two ways a handler ends: with an answer, or without.
LEMMA AnswerKeeps ==
    ASSUME ElectionInv, NEW n \in Nodes, NEW q, NEW x, Careful(n, q, {x}), Answer(n, q, x)
    PROVE  ElectionInv' /\ VotesStand
  <1>1. hit' \subseteq Nodes
    BY DEF ElectionInv, TypeInv, TypeOK, Answer
  <1> QED BY <1>1, CarefulKeeps DEF Answer, Send

LEMMA SilentlyKeeps ==
    ASSUME ElectionInv, NEW n \in Nodes, NEW q, Careful(n, q, {}), Silently(n, q)
    PROVE  ElectionInv' /\ VotesStand
  <1>1. hit' \subseteq Nodes /\ msgs' = msgs \cup {}
    BY DEF ElectionInv, TypeInv, TypeOK, Silently
  <1> QED BY <1>1, CarefulKeeps DEF Silently

\* A vote is given to one candidate a term.
LEMMA RequestVoteKeeps ==
    ASSUME ElectionInv, NEW n \in Nodes, NEW m \in msgs, m.type = "RequestVote",
           HandleRequestVote(n, m)
    PROVE  ElectionInv' /\ VotesStand
  <1> DEFINE r == Heard(n, m)
             grant == m.term = r.term /\ r.votedFor \in {NoNode, m.from}
             q == IF grant THEN [r EXCEPT !.votedFor = m.from] ELSE r
             x == [type |-> "VoteResponse", from |-> n, to |-> m.from,
                   term |-> r.term, granted |-> grant]
  <1>1. Careful(n, r, {}) /\ r \in NodeState /\ m.from \in Nodes
    BY HeardCareful DEF Careful, Fits, ElectionInv, TypeInv, TypeOK, Messages
  <1>2. /\ q \in NodeState /\ q.state = r.state /\ q.term = r.term /\ q.votes = r.votes
        /\ q.responses = r.responses
        /\ q.votedFor = IF grant THEN m.from ELSE r.votedFor
    BY <1>1 DEF NodeState
  <1>3. x \in Messages
    BY <1>1 DEF Messages, NodeState, Terms
  <1>4. /\ x.from = n /\ x.term = r.term /\ x.type # "AppendEntries"
        /\ IsBallot(x) => grant /\ Choice(x) = m.from
    BY DEF IsBallot, Choice
  <1>5. \A k \in q.votes : Cast(msgs \cup {x}, k, n, q.term)
    BY <1>1, <1>2, CastMonotone DEF Careful
  <1>6. /\ q.term >= node[n].term
        /\ q.term = node[n].term /\ node[n].votedFor # NoNode
              => q.votedFor = node[n].votedFor
    BY <1>1, <1>2 DEF Careful
  <1>7. Careful(n, q, {x})
    BY <1>1, <1>2, <1>3, <1>4, <1>5, <1>6 DEF Careful, Fits
  <1>8. Answer(n, q, x)
    BY DEF HandleRequestVote
  <1> QED BY <1>7, <1>8, AnswerKeeps

\* Two different things are two.
LEMMA PairSize ==
    ASSUME NEW a, NEW b, a # b
    PROVE  Cardinality({a, b}) = 2
  <1>1. Cardinality({a}) = 1 /\ IsFiniteSet({a}) /\ b \notin {a}
    BY FS_Singleton
  <1>2. Cardinality({a} \cup {b}) = Cardinality({a}) + 1
    BY <1>1, FS_AddElement, Zenon
  <1>3. {a} \cup {b} = {a, b}
    OBVIOUS
  <1> QED BY <1>1, <1>2, <1>3

\* A candidate counts only votes that were cast, and leads with a quorum of them.
LEMMA VoteResponseKeeps ==
    ASSUME ElectionInv, NEW n \in Nodes, NEW m \in msgs, m.type = "VoteResponse",
           m.to = n, m.from # n, HandleVoteResponse(n, m)
    PROVE  ElectionInv' /\ VotesStand
  <1> DEFINE r == Heard(n, m)
             q == [r EXCEPT !.votes = @ \cup {m.from}]
  <1>1. Careful(n, r, {}) /\ r \in NodeState /\ n \notin r.responses
        /\ m.from \in Nodes /\ m.granted \in BOOLEAN
    BY HeardCareful DEF Careful, Fits, ElectionInv, TypeInv, TypeOK, Messages
  <1>2. CASE r.state # "candidate" \/ m.term # r.term \/ ~m.granted
    <2>1. Silently(n, r)
      BY <1>2 DEF HandleVoteResponse
    <2> QED BY <1>1, <2>1, SilentlyKeeps
  <1>3. CASE r.state = "candidate" /\ m.term = r.term /\ m.granted
    <2>1. /\ q \in NodeState /\ q.state = "candidate" /\ q.term = r.term
          /\ q.votes = r.votes \cup {m.from} /\ q.votedFor = r.votedFor
          /\ q.responses = r.responses
      BY <1>1, <1>3 DEF NodeState
    <2>2. Cast(msgs, m.from, n, q.term)
      BY <1>3, <2>1 DEF Cast, IsBallot, Choice
    <2>3. msgs \cup {} = msgs
      OBVIOUS
    <2>4. Careful(n, q, {})
      BY <1>1, <1>3, <2>1, <2>2, <2>3 DEF Careful, Fits
    <2>5. PICK b \in VoteBases(n, r) :
             IF Cardinality(q.votes) >= Majority(b)
             THEN BecomeLeader(n, q) /\ UNCHANGED <<mode, hit>>
             ELSE Silently(n, q)
      BY <1>3 DEF HandleVoteResponse
    <2>6. CASE Silently(n, q)
      BY <2>4, <2>6, SilentlyKeeps
    <2>7. CASE /\ Cardinality(q.votes) >= Majority(b)
               /\ BecomeLeader(n, q) /\ UNCHANGED <<mode, hit>>
      <3> DEFINE M == [k \in Nodes |-> 0]
                 T == q.timers \ {"election", "discovery"}
                 p == Led(q, M, T)
      <3>1. M \in [Nodes -> 0 .. MaxNumber]
        BY RaftBoundsAssumption
      <3>2. T \in SUBSET Timers
        BY <2>1 DEF NodeState
      <3>3. /\ p \in NodeState /\ p.state = "leader" /\ p.term = q.term
            /\ p.votedFor = q.votedFor /\ p.votes = q.votes
            /\ p.responses = q.responses
        <4> HIDE DEF M, T, q
        <4> QED BY <2>1, <3>1, <3>2, LedType
      <3>4. n \in q.votes /\ m.from \in q.votes /\ q.votes \in SUBSET Nodes
        BY <1>1, <1>3, <2>1 DEF Careful, NodeState
      <3>5. /\ Cardinality(q.votes) \in Nat /\ Cardinality(q.votes) >= 2
            /\ Cardinality(Nodes) \in Nat
        <4>1. {n, m.from} \in SUBSET q.votes /\ IsFiniteSet(q.votes)
          BY <3>4, CountsType
        <4>2. Cardinality({n, m.from}) = 2
          BY PairSize
        <4>3. Cardinality({n, m.from}) <= Cardinality(q.votes)
          BY <4>1, FS_Subset
        <4> QED BY <4>1, <4>2, <4>3, CountsType, FS_CardinalityType
      <3>6. Quorum(q.votes)
        <4>1. CASE mode = "classic"
          <5>1. b = Cardinality(Nodes)
            BY <4>1 DEF VoteBases
          <5> QED BY <2>7, <3>5, <4>1, <5>1 DEF Majority, Quorum
        <4>2. CASE mode # "classic"
          BY <3>5, <4>2 DEF Quorum
        <4> QED BY <4>1, <4>2
      <3>7. Careful(n, p, {})
        BY <2>4, <3>3, <3>4, <3>6 DEF Careful, Fits
      <3>8. Beat(n, p)
        BY <2>7 DEF BecomeLeader, Led
      <3> QED BY <2>7, <3>3, <3>7, <3>8, BeatKeeps
    <2> QED BY <2>5, <2>6, <2>7
  <1> QED BY <1>1, <1>2, <1>3

\* The other handlers leave the election alone, but for hearing the message.
LEMMA OtherMessagesKeep ==
    ASSUME ElectionInv, NEW n \in Nodes, NEW m \in msgs, m.from # n,
           \/ m.type = "AppendEntries" /\ HandleAppendEntries(n, m)
           \/ m.type = "AppendResponse" /\ HandleAppendResponse(n, m)
           \/ m.type = "Discovery" /\ HandleDiscovery(n, m)
           \/ m.type = "DiscoveryResponse" /\ HandleDiscoveryResponse(n, m)
    PROVE  ElectionInv' /\ VotesStand
  <1> DEFINE r == Heard(n, m)
  <1>1. /\ Careful(n, r, {}) /\ r \in NodeState /\ Fits(n, r) /\ n \notin r.responses
        /\ m \in Messages /\ m.from \in Nodes
    BY HeardCareful DEF Careful, Fits, ElectionInv, TypeInv, TypeOK, Messages
  <1>2. CASE m.type = "AppendEntries" /\ HandleAppendEntries(n, m)
    <2> DEFINE news == m.tn > r.tn
               c == IF m.cons = Cleared THEN r.cons ELSE m.cons
               t == IF news THEN m.tn ELSE r.tn
               v == IF news /\ m.cons # Cleared THEN m.cons ELSE r.comm
               T == IF r.state = "follower" THEN r.timers \cup {"election"} ELSE r.timers
               q == Told(r, m.count, c, t, v, T)
               x == [type |-> "AppendResponse", from |-> n, to |-> m.from,
                     term |-> r.term, tn |-> m.tn]
    <2>1. m.tn \in 0 .. MaxNumber /\ m.count \in Counts
          /\ m.cons \in Values \cup {Null, Cleared}
      BY <1>1, <1>2 DEF Messages
    <2>7. /\ r.cons \in Values \cup {Null, Cleared} /\ r.comm \in Values \cup {Null}
          /\ r.tn \in 0 .. MaxNumber /\ r.timers \in SUBSET Timers
      BY <1>1 DEF NodeState
    <2>8. /\ c \in Values \cup {Null, Cleared} /\ t \in 0 .. MaxNumber
          /\ v \in Values \cup {Null} /\ T \in SUBSET Timers
      BY <2>1, <2>7 DEF Timers
    <2>2. q \in NodeState /\ SameElection(q, r) /\ q.responses = r.responses
      <3>1. r \in NodeState /\ m.count \in Counts
        BY <1>1, <2>1
      <3> HIDE DEF c, t, v, T, r
      <3> QED BY <2>8, <3>1, ToldType
    <2>3. x \in Messages /\ ~IsBallot(x) /\ x.type # "AppendEntries"
      BY <1>1, <2>1 DEF Messages, NodeState, Terms, IsBallot
    <2>4. Fits(n, q)
      BY <1>1, <2>2 DEF Fits
    <2>5. Careful(n, q, {x})
      BY <1>1, <2>2, <2>3, <2>4, AsideCareful
    <2>6. Answer(n, q, x)
      BY <1>2 DEF HandleAppendEntries, Told
    <2> QED BY <2>5, <2>6, AnswerKeeps
  <1>3. CASE m.type = "AppendResponse" /\ HandleAppendResponse(n, m)
    <2> DEFINE p == [r EXCEPT !.match = [@ EXCEPT ![m.from] = m.tn]]
    <2>1. m.tn \in 0 .. MaxNumber
      BY <1>1, <1>3 DEF Messages
    <2>2. p \in NodeState /\ SameAnswers(p, r)
      BY <1>1, <2>1 DEF NodeState, SameElection, SameAnswers
    <2>3. Commit(n, p) \in NodeState /\ SameAnswers(Commit(n, p), p)
      BY <2>2, CommitType
    <2>4. /\ SameElection(Commit(n, p), r)
          /\ Fits(n, Commit(n, p))
      BY <1>1, <2>2, <2>3 DEF SameAnswers, SameElection, Fits
    <2>5. Careful(n, Commit(n, p), {})
      BY <1>1, <2>4, AsideCareful
    <2>6. Silently(n, Commit(n, p)) \/ Silently(n, r)
      BY <1>3 DEF HandleAppendResponse
    <2> QED BY <1>1, <2>5, <2>6, SilentlyKeeps
  <1>4. CASE m.type = "Discovery" /\ HandleDiscovery(n, m)
    <2> DEFINE x == [type |-> "DiscoveryResponse", from |-> n, to |-> m.from,
                     term |-> r.term]
    <2>1. x \in Messages /\ ~IsBallot(x) /\ x.type # "AppendEntries"
      BY <1>1 DEF Messages, NodeState, Terms, IsBallot
    <2>2. SameElection(r, r)
      BY DEF SameElection
    <2>3. Careful(n, r, {x})
      BY <1>1, <2>1, <2>2, AsideCareful
    <2>4. Answer(n, r, x)
      BY <1>4 DEF HandleDiscovery
    <2> QED BY <2>3, <2>4, AnswerKeeps
  <1>5. CASE m.type = "DiscoveryResponse" /\ HandleDiscoveryResponse(n, m)
    <2> DEFINE q == [r EXCEPT !.responses = @ \cup {m.from}]
    <2>1. q \in NodeState /\ SameElection(q, r) /\ n \notin q.responses
      BY <1>1 DEF NodeState, SameElection
    <2>2. Careful(n, q, {})
      BY <1>1, <2>1, AsideCareful DEF Fits
    <2>3. Silently(n, q) \/ Silently(n, r)
      BY <1>5 DEF HandleDiscoveryResponse
    <2> QED BY <1>1, <2>2, <2>3, SilentlyKeeps
  <1> QED BY <1>2, <1>3, <1>4, <1>5

LEMMA ReceiveKeeps ==
    ASSUME ElectionInv, NEW n \in Nodes, NEW m \in msgs, Receive(n, m)
    PROVE  ElectionInv' /\ VotesStand
  BY RequestVoteKeeps, VoteResponseKeeps, OtherMessagesKeep DEF Receive, Hears

\* Timers start elections and discoveries, or send a heartbeat.
LEMMA TimeoutKeeps ==
    ASSUME ElectionInv, NEW n \in Nodes,
           ElectionTimeout(n) \/ DiscoveryTimeout(n) \/ HeartbeatTimeout(n)
    PROVE  ElectionInv' /\ VotesStand
  <1>1. /\ Careful(n, node[n], {}) /\ node[n] \in NodeState
        /\ n \notin node[n].responses
    BY StayingCareful DEF Careful, Fits
  <1>2. CASE ElectionTimeout(n)
    <2> DEFINE r == [node[n] EXCEPT !.timers = @ \ {"election"}]
    <2>1. r \in NodeState /\ SameElection(r, node[n]) /\ n \notin r.responses
      BY <1>1 DEF NodeState, SameElection
    <2>2. Careful(n, r, {})
      BY <1>1, <2>1, AsideCareful DEF Fits
    <2>3. CASE StartElection(n, r)
      BY <1>2, <2>2, <2>3, StartElectionKeeps DEF ElectionTimeout
    <2>4. CASE StartDiscovery(n, r)
      <3> DEFINE q == [r EXCEPT !.responses = {}, !.timers = @ \cup {"discovery"}]
                 x == [type |-> "Discovery", from |-> n, term |-> r.term]
      <3>1. q \in NodeState /\ SameElection(q, r) /\ n \notin q.responses
        BY <2>1 DEF NodeState, SameElection, Timers
      <3>2. x \in Messages /\ ~IsBallot(x) /\ x.type # "AppendEntries"
        BY <2>1 DEF Messages, NodeState, Terms, IsBallot
      <3>3. Careful(n, q, {}) /\ Careful(n, q, {x})
        BY <2>2, <3>1, <3>2, AsideCareful DEF Fits
      <3>4. node' = [node EXCEPT ![n] = q] /\ mode' = mode /\ hit' \subseteq Nodes
        BY <1>2, <2>4 DEF StartDiscovery, ElectionTimeout, ElectionInv, TypeInv, TypeOK
      <3>5. msgs' = msgs \cup {} \/ msgs' = msgs \cup {x}
        BY <2>4 DEF StartDiscovery, Send
      <3> QED BY <3>3, <3>4, <3>5, CarefulKeeps
    <2> QED BY <1>2, <2>3, <2>4 DEF ElectionTimeout
  <1>3. CASE DiscoveryTimeout(n)
    <2> DEFINE r == [node[n] EXCEPT !.timers = @ \ {"discovery"},
                                    !.discovered = Cardinality(node[n].responses) + 1,
                                    !.responses = {}]
    <2>1. Cardinality(node[n].responses) + 1 \in Counts
      <3>1. node[n].responses \in SUBSET Nodes
        BY <1>1 DEF NodeState
      <3>2. Cardinality(node[n].responses \cup {n}) = Cardinality(node[n].responses) + 1
        BY <1>1, <3>1, CountsType, FS_AddElement, Zenon
      <3>3. node[n].responses \cup {n} \in SUBSET Nodes
        BY <3>1
      <3> QED BY <3>2, <3>3, CountsType
    <2>2. r \in NodeState /\ SameElection(r, node[n]) /\ n \notin r.responses
      BY <1>1, <2>1 DEF NodeState, SameElection
    <2>3. Careful(n, r, {})
      BY <1>1, <2>2, AsideCareful DEF Fits
    <2> QED BY <1>3, <2>3, StartElectionKeeps DEF DiscoveryTimeout
  <1>4. CASE HeartbeatTimeout(n)
    <2> DEFINE r == [node[n] EXCEPT !.timers = @ \ {"heartbeat"}]
    <2>1. r \in NodeState /\ SameElection(r, node[n]) /\ n \notin r.responses
      BY <1>1 DEF NodeState, SameElection
    <2>2. Careful(n, r, {})
      BY <1>1, <2>1, AsideCareful DEF Fits
    <2>3. r.state = "leader"
      BY <1>4, <2>1 DEF HeartbeatTimeout, SameElection
    <2> QED BY <1>4, <2>2, <2>3, BeatKeeps DEF HeartbeatTimeout
  <1> QED BY <1>2, <1>3, <1>4

\* A proposal is one more heartbeat.
LEMMA ProposeKeeps ==
    ASSUME ElectionInv, NEW n \in Nodes, NEW v \in Values, Propose(n, v)
    PROVE  ElectionInv' /\ VotesStand
  <1> DEFINE r == [node[n] EXCEPT !.cons = v, !.tn = @ + 1]
  <1>1. /\ Careful(n, node[n], {}) /\ node[n] \in NodeState
        /\ n \notin node[n].responses
    BY StayingCareful DEF Careful, Fits
  <1>2. node[n].tn + 1 \in 0 .. MaxNumber
    BY <1>1, RaftBoundsAssumption DEF Propose, NodeState
  <1>3. r \in NodeState /\ SameElection(r, node[n]) /\ n \notin r.responses
    BY <1>1, <1>2 DEF NodeState, SameElection
  <1>4. Careful(n, r, {})
    BY <1>1, <1>3, AsideCareful DEF Fits
  <1>5. PICK q \in Detected(n, r) : node' = [node EXCEPT ![n] = q]
    BY DEF Propose
  <1>6. /\ SameElection(q, r) /\ Fits(n, q)
    BY <1>3, <1>5, DetectedType DEF Fits, SameAnswers
  <1>7. /\ {Entries(n, r)} \subseteq Messages
        /\ \A x \in {Entries(n, r)} : /\ ~IsBallot(x) /\ x.from = n /\ x.term = r.term
                                      /\ r.state = "leader"
    <2>1. Entries(n, r) \in Messages
      BY <1>3, EntriesType
    <2>2. /\ Entries(n, r).type = "AppendEntries" /\ Entries(n, r).from = n
          /\ Entries(n, r).term = r.term
      BY DEF Entries
    <2>3. r.state = "leader"
      BY <1>3 DEF Propose, SameElection
    <2> HIDE DEF r
    <2> QED BY <2>1, <2>2, <2>3 DEF IsBallot
  <1>8. Careful(n, q, {Entries(n, r)})
    BY <1>4, <1>6, <1>7, AsideCareful
  <1>9. msgs' = msgs \cup {Entries(n, r)} /\ mode' = mode /\ hit' \subseteq Nodes
    BY DEF Propose, Send, ElectionInv, TypeInv, TypeOK
  <1> QED BY <1>5, <1>8, <1>9, CarefulKeeps

\* An outage takes a leader into the next term, and leaves other elections alone.
LEMMA OutageKeeps ==
    ASSUME ElectionInv, NEW n \in Nodes, Deactivate(n) \/ Activate(n)
    PROVE  ElectionInv' /\ VotesStand
  <1>1. /\ Careful(n, node[n], {}) /\ node[n] \in NodeState
        /\ n \notin node[n].responses
    BY StayingCareful DEF Careful, Fits
  <1>2. msgs' = msgs \cup {} /\ mode' = mode /\ hit' \subseteq Nodes
    BY DEF Deactivate, Activate, ElectionInv, TypeInv, TypeOK
  <1>3. ASSUME NEW b \in BOOLEAN, node' = [node EXCEPT ![n].active = b]
        PROVE  ElectionInv' /\ VotesStand
    <2> DEFINE q == [node[n] EXCEPT !.active = b]
    <2>1. q \in NodeState /\ SameElection(q, node[n]) /\ n \notin q.responses
      BY <1>1 DEF NodeState, SameElection
    <2>2. Careful(n, q, {})
      BY <1>1, <2>1, AsideCareful DEF Fits
    <2>3. node' = [node EXCEPT ![n] = q]
      BY <1>3
    <2> QED BY <1>2, <2>2, <2>3, CarefulKeeps
  <1>4. CASE /\ node[n].term < MaxTerm
             /\ node' = [node EXCEPT ![n] =
                            [StepDown(@, @.term + 1) EXCEPT !.active = FALSE]]
    <2> DEFINE r == StepDown(node[n], node[n].term + 1)
               q == [r EXCEPT !.active = FALSE]
    <2>1. node[n].term + 1 \in Terms /\ node[n].term + 1 > node[n].term
      BY <1>1, <1>4, RaftBoundsAssumption DEF Terms, NodeState
    <2>2. Careful(n, r, {})
      BY <2>1, StepDownCareful
    <2>3. q \in NodeState /\ SameElection(q, r) /\ n \notin q.responses
      BY <2>2 DEF Careful, Fits, NodeState, SameElection
    <2>4. Careful(n, q, {})
      BY <2>2, <2>3, AsideCareful DEF Fits
    <2>5. node' = [node EXCEPT ![n] = q]
      BY <1>4
    <2> QED BY <1>2, <2>4, <2>5, CarefulKeeps
  <1>5. CASE Activate(n)
    BY <1>3, <1>5 DEF Activate
  <1>6. CASE Deactivate(n)
    <2>1. CASE node[n].state = "leader"
      BY <1>4, <1>6, <2>1 DEF Deactivate
    <2>2. CASE node[n].state # "leader"
      BY <1>3, <1>6, <2>2 DEF Deactivate
    <2> QED BY <2>1, <2>2
  <1> QED BY <1>5, <1>6

-----------------------------------------------------------------------------
(* The theorems.                                                            *)

LEMMA ElectionInit == Init => ElectionInv
  <1> SUFFICES ASSUME Init PROVE ElectionInv
    OBVIOUS
  <1>1. 0 \in Counts
    BY CountsType DEF Counts
  <1>2. Fresh \in NodeState
    BY <1>1, RaftBoundsAssumption DEF Fresh, NodeState, Timers
  <1>3. /\ \A n \in Nodes : node[n] = Fresh
        /\ Fresh.votes = {} /\ Fresh.state = "follower" /\ Fresh.responses = {}
        /\ msgs = {}
    BY DEF Init, Fresh
  <1>4. TypeInv
    BY <1>2, <1>3 DEF Init, TypeInv, TypeOK, NoSelfResponse
  <1> QED BY <1>3, <1>4
          DEF ElectionInv, BallotsBind, BallotsUnique, VotesBacked, LeadersElected

LEMMA ElectionNext == ElectionInv /\ [Next]_vars => ElectionInv' /\ (VotesStand \/ UNCHANGED vars)
  <1> SUFFICES ASSUME ElectionInv, [Next]_vars
               PROVE  ElectionInv' /\ (VotesStand \/ UNCHANGED vars)
    OBVIOUS
  <1>1. CASE UNCHANGED vars
    <2>1. TypeInv'
      BY <1>1 DEF vars, ElectionInv, TypeInv, TypeOK, NoSelfResponse
    <2>2. BallotsBind' /\ BallotsUnique'
      BY <1>1 DEF vars, ElectionInv, BallotsBind, BallotsUnique, Cast, IsBallot, Choice
    <2>3. VotesBacked' /\ LeadersElected'
      BY <1>1 DEF vars, ElectionInv, VotesBacked, LeadersElected, Quorum, Cast, IsBallot,
                  Choice
    <2> QED BY <1>1, <2>1, <2>2, <2>3 DEF ElectionInv
  <1>2. ASSUME NEW n \in Nodes, Step(n)
        PROVE  ElectionInv' /\ VotesStand
    <2>1. CASE ElectionTimeout(n) \/ DiscoveryTimeout(n) \/ HeartbeatTimeout(n)
      BY <2>1, TimeoutKeeps
    <2>2. CASE \E m \in msgs : Receive(n, m)
      BY <2>2, ReceiveKeeps
    <2>3. CASE \E v \in Values : Propose(n, v)
      BY <2>3, ProposeKeeps
    <2>4. CASE Deactivate(n) \/ Activate(n)
      BY <2>4, OutageKeeps
    <2> QED BY <1>2, <2>1, <2>2, <2>3, <2>4 DEF Step
  <1> QED BY <1>1, <1>2 DEF Next

\* Two majorities have a node in common.
LEMMA QuorumsMeet ==
    ASSUME mode = "classic",
           NEW P \in SUBSET Nodes, NEW Q \in SUBSET Nodes, Quorum(P), Quorum(Q)
    PROVE  P \cap Q # {}
  <1>1. /\ Cardinality(P) \in Nat /\ Cardinality(Q) \in Nat /\ Cardinality(Nodes) \in Nat
        /\ IsFiniteSet(Nodes)
    BY CountsType, FS_CardinalityType, NodesAssumption
  <1>2. Cardinality(P) + Cardinality(Q) > Cardinality(Nodes)
    BY <1>1 DEF Quorum
  <1> QED BY <1>1, <1>2, FS_MajoritiesIntersect

\* With fixed majorities there is one leader a term: its quorum and another's would
\* share a voter, which cast one ballot.
LEMMA OneElected ==
    ASSUME ElectionInv, mode = "classic",
           NEW a \in msgs, NEW b \in msgs,
           a.type = "AppendEntries", b.type = "AppendEntries", a.term = b.term
    PROVE  a.from = b.from
  <1>1. PICK P \in SUBSET Nodes :
           Quorum(P) /\ \A m \in P : Cast(msgs, m, a.from, a.term)
    BY DEF ElectionInv, LeadersElected
  <1>2. PICK Q \in SUBSET Nodes :
           Quorum(Q) /\ \A m \in Q : Cast(msgs, m, b.from, b.term)
    BY DEF ElectionInv, LeadersElected
  <1>3. PICK m \in P : m \in Q
    BY <1>1, <1>2, QuorumsMeet
  <1>4. Cast(msgs, m, a.from, a.term) /\ Cast(msgs, m, b.from, a.term)
    BY <1>1, <1>2, <1>3
  <1> QED BY <1>4 DEF Cast, ElectionInv, BallotsUnique

\* Each leader of a term was voted for by another node, which leads in no such term, as
\* it did not vote for itself, and voted for nobody else: there are as many such voters
\* as leaders.
LEMMA HalfElected ==
    ASSUME ElectionInv, NEW t \in Terms
    PROVE  2 * Cardinality(LeadersOf(t)) <= Cardinality(Nodes)
  <1> DEFINE L == LeadersOf(t)
  <1>1. ASSUME NEW l \in L
        PROVE  /\ Cast(msgs, l, l, t)
               /\ \E m \in Nodes \ {l} : Cast(msgs, m, l, t)
    <2>1. PICK a \in msgs : a.type = "AppendEntries" /\ a.from = l /\ a.term = t
      BY DEF LeadersOf
    <2>2. PICK Q \in SUBSET Nodes : Quorum(Q) /\ l \in Q /\ \A m \in Q : Cast(msgs, m, l, t)
      BY <2>1 DEF ElectionInv, LeadersElected
    <2>3. Q # {l}
      <3>1. Cardinality({l}) = 1
        BY FS_Singleton
      <3>2. Cardinality(Q) >= 2
        BY <2>2 DEF Quorum
      <3> QED BY <3>1, <3>2
    <2>4. PICK m \in Q : m # l
      BY <2>2, <2>3
    <2> QED BY <2>2, <2>4
  <1>2. \A l \in L, k \in L : \A m : Cast(msgs, m, l, t) /\ Cast(msgs, m, k, t) => l = k
    BY DEF Cast, ElectionInv, BallotsUnique
  <1> DEFINE second == [l \in L |-> CHOOSE m \in Nodes \ {l} : Cast(msgs, m, l, t)]
  <1>3. ASSUME NEW l \in L
        PROVE  second[l] \in Nodes \ L /\ Cast(msgs, second[l], l, t)
    <2>1. second[l] \in Nodes \ {l} /\ Cast(msgs, second[l], l, t)
      BY <1>1
    <2> HIDE DEF second, L
    <2>2. ASSUME second[l] \in L PROVE FALSE
      <3>1. Cast(msgs, second[l], second[l], t)
        BY <1>1, <2>2
      <3>2. l = second[l]
        BY <1>2, <2>1, <2>2, <3>1
      <3> QED BY <2>1, <3>2
    <2> QED BY <2>1, <2>2
  <1>4. second \in Injection(L, Nodes \ L)
    <2>1. second \in [L -> Nodes \ L]
      BY <1>3
    <2>2. \A l, k \in L : second[l] = second[k] => l = k
      BY <1>2, <1>3
    <2> QED BY <2>1, <2>2 DEF Injection, IsInjective
  <1>5. /\ IsFiniteSet(Nodes) /\ Cardinality(Nodes) \in Nat
        /\ L \in SUBSET Nodes /\ L \cap Nodes = L
    BY CountsType, NodesAssumption, FS_CardinalityType DEF LeadersOf
  <1> HIDE DEF L, second
  <1>6. /\ IsFiniteSet(Nodes \ L) /\ IsFiniteSet(L)
        /\ Cardinality(Nodes \ L) = Cardinality(Nodes) - Cardinality(L)
    <2>1. /\ IsFiniteSet(Nodes \ L)
          /\ Cardinality(Nodes \ L) = Cardinality(Nodes) - Cardinality(Nodes \cap L)
      BY <1>5, FS_Difference
    <2> QED BY <1>5, <2>1, FS_Subset
  <1>7. Cardinality(L) <= Cardinality(Nodes \ L) /\ Cardinality(L) \in Nat
    BY <1>4, <1>6, FS_Injection, FS_CardinalityType
  <1> QED BY <1>5, <1>6, <1>7 DEF L

LEMMA InvariantIsSafe == ElectionInv => ElectionSafety
  <1> SUFFICES ASSUME ElectionInv, NEW t \in Terms
               PROVE  /\ mode = "classic" => Cardinality(LeadersOf(t)) <= 1
                      /\ 2 * Cardinality(LeadersOf(t)) <= Cardinality(Nodes)
    BY DEF ElectionSafety
  <1>1. ASSUME mode = "classic" PROVE Cardinality(LeadersOf(t)) <= 1
    <2>1. \A l, k \in LeadersOf(t) : l = k
      BY <1>1, OneElected DEF LeadersOf
    <2>2. CASE LeadersOf(t) = {}
      BY <2>2, FS_EmptySet
    <2>3. CASE LeadersOf(t) # {}
      <3>1. PICK l : LeadersOf(t) = {l}
        BY <2>1, <2>3
      <3> QED BY <3>1, FS_Singleton
    <2> QED BY <2>2, <2>3
  <1> QED BY <1>1, HalfElected

\* The types of a cluster's state are kept whatever the sets of nodes and values
\* and the bounds are.
THEOREM RaftTypes == Spec => []TypeOK
  <1>1. ElectionInv => TypeOK
    BY DEF ElectionInv, TypeInv
  <1> QED BY <1>1, ElectionInit, ElectionNext, PTL DEF Spec

\* Within one run of the cluster a node gives one vote a term, though votes are neither
\* persisted nor compared with any log.  So the heartbeats of one term come from one node
\* if majorities are fixed, and from half of the nodes at most if they are counted, in a
\* cluster of any size.
THEOREM FewLeadersPerTerm == Spec => []ElectionSafety
  BY ElectionInit, ElectionNext, InvariantIsSafe, PTL DEF Spec

\* No step takes a node's term back or, within its term, its vote.
THEOREM VotesAreFinal == Spec => VoteIsFinal
  <1>1. VotesStand \/ UNCHANGED vars => [VotesStand]_vars
    OBVIOUS
  <1> QED BY <1>1, ElectionInit, ElectionNext, PTL DEF Spec, VoteIsFinal, VotesStand

=============================================================================

------------------------------- MODULE RaftNode -------------------------------
(***************************************************************************)
(* The Raft plugin (protocol/plugin/raft/raft_node.py): the nodes of one   *)
(* cluster, agreeing on one consensus variable.  There is no log: a leader *)
(* numbers its proposals (current_term_number, tn here) and its heartbeats *)
(* carry the proposed value until it is committed.                         *)
(*                                                                         *)
(* Every handler runs to its end on its node's event loop, so a handler is *)
(* one action.  Messages are never removed from msgs: any message may be   *)
(* delivered late, out of order, again, or never.  A timer may fire at any *)
(* moment it is pending; whether the active-node count a node was told is  *)
(* still fresh, and what the failure detector concludes, is left open.     *)
(***************************************************************************)
EXTENDS Naturals, FiniteSets

CONSTANTS
    Nodes,    \* _known_nodes, the same at every node
    Values,   \* what can be proposed
    NoNode,   \* voted_for of a node that has not voted in its term
    Null,     \* the None a consensus variable starts with
    Cleared,  \* consensus_values after the leader committed it: the key is gone
    Modes,    \* the RaftModes a cluster may be configured with
    DetectorConfigured, \* set_heartbeat_interval was called on the configuration
    Contenders,         \* the nodes whose election timer may fire at all
    MaxTerm, MaxNumber, MaxFailed, MaxOutages   \* bounds of the model, like Contenders

ASSUME NodesAssumption == IsFiniteSet(Nodes) /\ NoNode \notin Nodes
ASSUME ValuesAssumption == Null \notin Values /\ Cleared \notin Values \cup {Null}
ASSUME ModesAssumption == Modes \subseteq {"classic", "fault_tolerant"}
ASSUME RaftBoundsAssumption == /\ DetectorConfigured \in BOOLEAN
                               /\ Contenders \subseteq Nodes
                               /\ MaxTerm \in Nat /\ MaxNumber \in Nat
                               /\ MaxFailed \in Nat /\ MaxOutages \in Nat

VARIABLES
    mode, \* RaftConfig._raft_mode, one for the whole cluster
    node, \* the RaftNode object of each node
    msgs, \* every message ever sent
    hit   \* the nodes that have been made inactive

vars == <<mode, node, msgs, hit>>

Timers == {"election", "heartbeat", "discovery"}
Counts == 0 .. Cardinality(Nodes)   \* 0 stands for None

NodeState ==
    [state : {"follower", "candidate", "leader"},
     term : 0 .. MaxTerm,
     votedFor : Nodes \cup {NoNode},
     votes : SUBSET Nodes,
     cons : Values \cup {Null, Cleared},   \* consensus_values
     comm : Values \cup {Null},            \* committed_values
     tn : 0 .. MaxNumber,
     match : [Nodes -> 0 .. MaxNumber],    \* an absent entry is 0, as nothing
                                           \* can be committed at number 0
     timers : SUBSET Timers,  \* active_timers; _is_discovering is the discovery timer
     active : BOOLEAN,
     count : Counts,          \* _known_active_count
     responses : SUBSET Nodes,
     discovered : Counts,     \* _discovered_active_count
     failed : SUBSET Nodes]   \* what the node's own failure detector marks FAILED

Terms == 0 .. MaxTerm
Messages ==
    [type : {"RequestVote", "Discovery"}, from : Nodes, term : Terms]
    \cup [type : {"VoteResponse"}, from : Nodes, to : Nodes, term : Terms, granted : BOOLEAN]
    \cup [type : {"AppendEntries"}, from : Nodes, term : Terms, tn : 0 .. MaxNumber,
          cons : Values \cup {Null, Cleared}, count : Counts]
    \cup [type : {"AppendResponse"}, from : Nodes, to : Nodes, term : Terms,
          tn : 0 .. MaxNumber]
    \cup [type : {"DiscoveryResponse"}, from : Nodes, to : Nodes, term : Terms]

TypeOK ==
    /\ mode \in Modes
    /\ node \in [Nodes -> NodeState]
    /\ msgs \subseteq Messages
    /\ hit \subseteq Nodes

\* Every node is constructed and start()ed: it waits for its election timeout.
Fresh == [state |-> "follower", term |-> 0, votedFor |-> NoNode, votes |-> {},
          cons |-> Null, comm |-> Null, tn |-> 0, match |-> [m \in Nodes |-> 0],
          timers |-> {"election"}, active |-> TRUE, count |-> 0,
          responses |-> {}, discovered |-> 0, failed |-> {}]

Init == /\ mode \in Modes
        /\ node = [n \in Nodes |-> Fresh]
        /\ msgs = {}
        /\ hit = {}

-----------------------------------------------------------------------------
(* What the handlers are made of: r is the state of the node n on the way.  *)

Send(m) == msgs' = msgs \cup {m}

Majority(k) == (k \div 2) + 1

\* _get_active_nodes_for_majority, of a node that is active
ActiveNodes(n, r) == (Nodes \ r.failed) \cup {n}

\* Faulty variant: the election timer is not scheduled.
StepDownQuietly(r, t) ==
    [r EXCEPT !.state = "follower", !.term = t, !.votedFor = NoNode, !.votes = {},
              !.discovered = 0, !.timers = @ \ {"heartbeat", "discovery"}]

StepDown(r, t) ==
    [r EXCEPT !.state = "follower", !.term = t, !.votedFor = NoNode, !.votes = {},
              !.discovered = 0, !.timers = {"election"}]

\* Faulty variant: the node steps down for its own term as well.
HeardAlways(n, m) == IF m.term >= node[n].term THEN StepDown(node[n], m.term) ELSE node[n]

\* _process_message: a higher term is adopted before the message is looked at.
Heard(n, m) == IF m.term > node[n].term THEN StepDown(node[n], m.term) ELSE node[n]

\* The counts a majority of votes may be taken of, one for each freshness.
VoteBases(n, r) ==
    IF mode = "classic" THEN {Cardinality(Nodes)}
    ELSE IF r.discovered # 0 THEN {r.discovered}
    ELSE {Cardinality(Nodes)} \cup
         (IF r.count = 0 THEN {}
          ELSE {IF r.count <= 2 THEN Cardinality(ActiveNodes(n, r)) ELSE r.count})

\* Faulty variant: half of the nodes is enough.
ConfirmedByHalf(n, r) ==
    LET S == IF mode = "classic" THEN Nodes ELSE ActiveNodes(n, r)
    IN  1 + Cardinality({m \in S \ {n} : r.match[m] >= r.tn}) >= Cardinality(S) \div 2

\* has_majority_confirmation
Confirmed(n, r) ==
    LET S == IF mode = "classic" THEN Nodes ELSE ActiveNodes(n, r)
    IN  1 + Cardinality({m \in S \ {n} : r.match[m] >= r.tn})
            >= Majority(Cardinality(S))

\* _check_and_commit_values
Commit(n, r) ==
    IF r.cons \notin {Cleared, r.comm} /\ Confirmed(n, r)
    THEN [r EXCEPT !.comm = r.cons, !.cons = Cleared]
    ELSE r

\* The message of _send_append_entries, put together before the detector runs.
Entries(n, r) == [type |-> "AppendEntries", from |-> n, term |-> r.term, tn |-> r.tn,
                  cons |-> r.cons, count |-> Cardinality(ActiveNodes(n, r))]

\* on_node_recovery_detected, while the nodes of I are the failed ones: with two
\* active nodes or more the leader tries to commit.
Recovers(n, r, I) ==
    LET q == [r EXCEPT !.failed = I]
    IN  IF Cardinality(ActiveNodes(n, q)) < 2 THEN q ELSE Commit(n, q)

\* The states on_heartbeat_sent may leave: the check is not due, or it goes through
\* the nodes and leaves those of F failed.  At a recovery some of the other changes
\* have been made and some have not.
Detected(n, r) ==
    LET Verdicts == {G \in SUBSET (Nodes \ {n}) : Cardinality(G) <= MaxFailed}
        Midway(F) == {I \in SUBSET (r.failed \cup F) :
                         r.failed \cap F \subseteq I /\ ~(r.failed \subseteq I)}
    IN  IF ~DetectorConfigured THEN {r}
        ELSE UNION {IF r.failed \subseteq F
                    THEN {[r EXCEPT !.failed = F]}
                    ELSE {[Recovers(n, r, I) EXCEPT !.failed = F] : I \in Midway(F)} :
                    F \in Verdicts}

\* _send_append_entries and _schedule_heartbeat_timer.  With no heartbeat
\* interval the detector's check raises, and the second call is never made.
Beat(n, r) ==
    /\ Send(Entries(n, r))
    /\ \/ \E q \in Detected(n, r) :
             node' = [node EXCEPT ![n] = [q EXCEPT !.timers = @ \cup {"heartbeat"}]]
       \/ ~DetectorConfigured /\ node' = [node EXCEPT ![n] = r]

\* Faulty variant: a discovery that is under way is not called off.
BecomeLeaderDiscovering(n, r) ==
    Beat(n, [r EXCEPT !.state = "leader", !.count = 0, !.discovered = 0,
                      !.match = [m \in Nodes |-> 0], !.timers = @ \ {"election"}])

\* _become_leader
BecomeLeader(n, r) ==
    Beat(n, [r EXCEPT !.state = "leader", !.count = 0, !.discovered = 0,
                      !.match = [m \in Nodes |-> 0],
                      !.timers = @ \ {"election", "discovery"}])

\* _start_election, and its twin that follows a discovery: an inactive node
\* returns at once, and schedules nothing.
StartElection(n, r) ==
    \/ /\ ~r.active
       /\ node' = [node EXCEPT ![n] = r]
       /\ UNCHANGED msgs
    \/ /\ r.active /\ r.term < MaxTerm
       /\ node' = [node EXCEPT ![n] =
                      [r EXCEPT !.term = @ + 1, !.state = "candidate", !.votedFor = n,
                                !.votes = {n}, !.timers = @ \cup {"election"}]]
       /\ Send([type |-> "RequestVote", from |-> n, term |-> r.term + 1])

\* _discover_active_nodes_before_election: an inactive node asks nobody and
\* waits all the same.
StartDiscovery(n, r) ==
    /\ node' = [node EXCEPT ![n] = [r EXCEPT !.responses = {},
                                             !.timers = @ \cup {"discovery"}]]
    /\ IF r.active THEN Send([type |-> "Discovery", from |-> n, term |-> r.term])
                   ELSE UNCHANGED msgs

-----------------------------------------------------------------------------
(* Timers.                                                                  *)

ElectionTimeout(n) ==
    /\ "election" \in node[n].timers /\ n \in Contenders
    /\ LET r == [node[n] EXCEPT !.timers = @ \ {"election"}]
       IN  \/ (mode = "classic" \/ r.count # 0) /\ StartElection(n, r)
           \/ mode = "fault_tolerant" /\ StartDiscovery(n, r)
    /\ UNCHANGED <<mode, hit>>

DiscoveryTimeout(n) ==
    /\ "discovery" \in node[n].timers
    /\ StartElection(n, [node[n] EXCEPT !.timers = @ \ {"discovery"},
                                        !.discovered = Cardinality(node[n].responses) + 1,
                                        !.responses = {}])
    /\ UNCHANGED <<mode, hit>>

HeartbeatTimeout(n) ==
    /\ "heartbeat" \in node[n].timers
    /\ node[n].state = "leader"
    /\ Beat(n, [node[n] EXCEPT !.timers = @ \ {"heartbeat"}])
    /\ UNCHANGED <<mode, hit>>

-----------------------------------------------------------------------------
(* Messages: an inactive node hears nothing.                                *)

Hears(n, m) == node[n].active /\ m.from # n

\* Become the state r, and answer m with reply.
Answer(n, r, reply) ==
    /\ node' = [node EXCEPT ![n] = r]
    /\ Send(reply)
    /\ UNCHANGED <<mode, hit>>

\* Become the state r.
Silently(n, r) ==
    /\ node' = [node EXCEPT ![n] = r]
    /\ UNCHANGED <<mode, msgs, hit>>

\* Faulty variant: the vote is given without looking at an earlier one.
HandleRequestVoteTwice(n, m) ==
    LET r == Heard(n, m)
    IN  Answer(n, IF m.term = r.term THEN [r EXCEPT !.votedFor = m.from] ELSE r,
               [type |-> "VoteResponse", from |-> n, to |-> m.from, term |-> r.term,
                granted |-> m.term = r.term])

\* One vote a term, for whoever asks first; the election timer is left alone.
HandleRequestVote(n, m) ==
    LET r == Heard(n, m)
        grant == m.term = r.term /\ r.votedFor \in {NoNode, m.from}
    IN  Answer(n, IF grant THEN [r EXCEPT !.votedFor = m.from] ELSE r,
               [type |-> "VoteResponse", from |-> n, to |-> m.from, term |-> r.term,
                granted |-> grant])

HandleVoteResponse(n, m) ==
    LET r == Heard(n, m)
        q == [r EXCEPT !.votes = @ \cup {m.from}]
    IN  IF r.state # "candidate" \/ m.term # r.term \/ ~m.granted
        THEN Silently(n, r)
        ELSE \E b \in VoteBases(n, r) :
                IF Cardinality(q.votes) >= Majority(b)
                THEN BecomeLeader(n, q) /\ UNCHANGED <<mode, hit>>
                ELSE Silently(n, q)

\* The sender's term is not compared: an old leader's values are taken too.  A
\* higher number commits the values that come with it at once.
HandleAppendEntries(n, m) ==
    LET r == Heard(n, m)
        news == m.tn > r.tn
    IN  Answer(n, [r EXCEPT !.count = m.count,
                            !.cons = IF m.cons = Cleared THEN @ ELSE m.cons,
                            !.tn = IF news THEN m.tn ELSE @,
                            !.comm = IF news /\ m.cons # Cleared THEN m.cons ELSE @,
                            !.timers = IF r.state = "follower" THEN @ \cup {"election"}
                                                               ELSE @],
               [type |-> "AppendResponse", from |-> n, to |-> m.from, term |-> r.term,
                tn |-> m.tn])

\* Faulty variant: the follower's next_index is kept where its match_index belongs.
HandleAppendResponseNext(n, m) ==
    LET r == Heard(n, m)
    IN  Silently(n, IF r.state = "leader" /\ m.term = r.term
                    THEN Commit(n, [r EXCEPT !.match = [@ EXCEPT ![m.from] = m.tn + 1]])
                    ELSE r)

\* match_index takes the number of whichever response comes last.
HandleAppendResponse(n, m) ==
    LET r == Heard(n, m)
    IN  Silently(n, IF r.state = "leader" /\ m.term = r.term
                    THEN Commit(n, [r EXCEPT !.match = [@ EXCEPT ![m.from] = m.tn]])
                    ELSE r)

HandleDiscovery(n, m) ==
    LET r == Heard(n, m)
    IN  Answer(n, r, [type |-> "DiscoveryResponse", from |-> n, to |-> m.from,
                      term |-> r.term])

HandleDiscoveryResponse(n, m) ==
    LET r == Heard(n, m)
    IN  Silently(n, IF "discovery" \in r.timers
                    THEN [r EXCEPT !.responses = @ \cup {m.from}] ELSE r)

\* A broadcast reaches any other node, an answer the node it is for.
Receive(n, m) ==
    /\ Hears(n, m)
    /\ \/ m.type = "RequestVote" /\ HandleRequestVote(n, m)
       \/ m.type = "AppendEntries" /\ HandleAppendEntries(n, m)
       \/ m.type = "Discovery" /\ HandleDiscovery(n, m)
       \/ m.type = "VoteResponse" /\ m.to = n /\ HandleVoteResponse(n, m)
       \/ m.type = "AppendResponse" /\ m.to = n /\ HandleAppendResponse(n, m)
       \/ m.type = "DiscoveryResponse" /\ m.to = n /\ HandleDiscoveryResponse(n, m)

-----------------------------------------------------------------------------
(* The protocol above the plugin, and the operator of the simulation.       *)

\* propose_value: a value that is committed already is not proposed again.  The
\* heartbeat timer is left as it is, whether the detector's check raises or not.
Propose(n, v) ==
    /\ node[n].state = "leader" /\ node[n].active
    /\ node[n].comm # v /\ node[n].tn < MaxNumber
    /\ LET r == [node[n] EXCEPT !.cons = v, !.tn = @ + 1]
       IN  /\ Send(Entries(n, r))
           /\ \E q \in Detected(n, r) : node' = [node EXCEPT ![n] = q]
    /\ UNCHANGED <<mode, hit>>

\* set_simulation_active(False): a leader steps down into the next term.
Deactivate(n) ==
    /\ node[n].active /\ n \notin hit /\ Cardinality(hit) < MaxOutages
    /\ hit' = hit \cup {n}
    /\ \/ /\ node[n].state = "leader" /\ node[n].term < MaxTerm
          /\ node' = [node EXCEPT ![n] = [StepDown(@, @.term + 1) EXCEPT !.active = FALSE]]
       \/ /\ node[n].state # "leader"
          /\ node' = [node EXCEPT ![n].active = FALSE]
    /\ UNCHANGED <<mode, msgs>>

Activate(n) ==
    /\ ~node[n].active
    /\ node' = [node EXCEPT ![n].active = TRUE]
    /\ UNCHANGED <<mode, msgs, hit>>

-----------------------------------------------------------------------------
Step(n) == \/ ElectionTimeout(n) \/ DiscoveryTimeout(n) \/ HeartbeatTimeout(n)
           \/ \E m \in msgs : Receive(n, m)
           \/ \E v \in Values : Propose(n, v)
           \/ Deactivate(n) \/ Activate(n)

Next == \E n \in Nodes : Step(n)

Spec == Init /\ [][Next]_vars

-----------------------------------------------------------------------------
(* Elections.                                                               *)

\* The nodes that have sent heartbeats of the term t.
LeadersOf(t) ==
    {n \in Nodes : \E a \in msgs : a.type = "AppendEntries" /\ a.from = n /\ a.term = t}

\* With a fixed majority no two nodes ever lead in the same term, not even one after
\* the other.  With a counted one, which may be two votes in a cluster of any size, the
\* leaders of a term are at most half of the nodes: still one, if there are three.
ElectionSafety ==
    \A t \in Terms : /\ mode = "classic" => Cardinality(LeadersOf(t)) <= 1
                     /\ 2 * Cardinality(LeadersOf(t)) <= Cardinality(Nodes)

\* A node's term never goes back, and within a term its vote is not taken back:
\* not by a stale message, not by an outage, not by stepping down.
VoteIsFinal ==
    [][\A n \in Nodes :
          /\ node'[n].term >= node[n].term
          /\ node'[n].term = node[n].term /\ node[n].votedFor # NoNode
                => node'[n].votedFor = node[n].votedFor]_vars

-----------------------------------------------------------------------------
(* Values.                                                                  *)

\* With fixed majorities a leader commits what it proposed only when a majority
\* of the nodes is at its number or past it, however late or reordered the
\* responses it counted are ("Commit entries when majority replicated",
\* raft_state.py:69).
CommitsAreReplicated ==
    [][\A n \in Nodes :
          /\ mode = "classic"
          /\ node[n].state = "leader" /\ node'[n].state = "leader"
          /\ node'[n].tn = node[n].tn /\ node'[n].comm # node[n].comm
          => Cardinality({m \in Nodes : node[m].tn >= node[n].tn})
                >= Majority(Cardinality(Nodes))]_vars

\* Two nodes at the same number, with no proposal open at either, hold the same
\* value if they hold one ("It enables protocols to reach agreement on shared
\* values", raft/__init__.py:5).
Agreement ==
    \A a, b \in Nodes :
        /\ node[a].tn = node[b].tn
        /\ node[a].cons \in {Cleared, node[a].comm}
        /\ node[b].cons \in {Cleared, node[b].comm}
        /\ node[a].comm # Null /\ node[b].comm # Null
        => node[a].comm = node[b].comm

-----------------------------------------------------------------------------
(* Timers: a node whose timers are all gone never acts by itself again.     *)

\* A leader waits for its next heartbeat and for nothing else: no election or
\* discovery timer it left behind can start an election against itself ("Send
\* periodic heartbeats to all followers", raft_state.py:61).
LeaderBeats ==
    \A n \in Nodes : node[n].state = "leader" => node[n].timers = {"heartbeat"}

\* A node that was never made inactive waits for an election timeout, or for the
\* end of its discovery, whenever it does not lead.
TimersKeepRunning ==
    \A n \in Nodes \ hit :
        node[n].state # "leader" => node[n].timers \cap {"election", "discovery"} # {}

=============================================================================

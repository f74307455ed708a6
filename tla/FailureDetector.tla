--------------------------- MODULE FailureDetector ---------------------------
(***************************************************************************)
(* The failure detector of one Raft node                                   *)
(* (protocol/plugin/raft/failure_detection/), whose verdict RaftNode leaves *)
(* open.  It lives as long as the node, through any number of leaderships: *)
(* answers are recorded and heartbeats are counted while the node leads,   *)
(* and nothing is reset in between.                                        *)
(*                                                                         *)
(* Time is counted in heartbeat intervals.  The node sends a heartbeat     *)
(* whenever its timer fires and at once when a value is proposed, so any   *)
(* number may go out between two ticks.  Any heartbeat or its answer may   *)
(* be lost, delayed or delivered twice.                                    *)
(***************************************************************************)
EXTENDS Integers

CONSTANTS
    Peers,             \* the known nodes but the node itself
    FailureThreshold, RecoveryThreshold, DetectionInterval,   \* FailureConfig
    Timeout,           \* get_timeout_ms(), in heartbeat intervals
    MaxDue             \* bound of the model: messages on their way, per peer

ASSUME FailureConfigAssumption ==
    /\ FailureThreshold \in Nat \ {0}
    /\ RecoveryThreshold \in Nat \ {0}
    /\ DetectionInterval \in Nat \ {0}
    /\ Timeout \in Nat \ {0}
    /\ MaxDue \in Nat \ {0}

VARIABLES
    leading, \* the node is the leader
    beat,    \* _heartbeat_counter, modulo the detection interval
    peer,    \* what FailureState holds of each peer
    up,      \* the peers that answer
    due,     \* heartbeats and answers on their way, to a peer or back
    since    \* history: the heartbeats sent since the peer's last answer

vars == <<leading, beat, peer, up, due, since>>

\* The heartbeats it takes from the first check that misses a peer to the last one.
Patience == (FailureThreshold - 1) * DetectionInterval + 1

\* Counters are compared with their thresholds only, and stop there; so does an
\* age that has exceeded the timeout.
PeerState ==
    [status : {"active", "failed"},
     fails : 0 .. FailureThreshold,    \* _consecutive_failures
     succs : 0 .. RecoveryThreshold,   \* _consecutive_successes
     heard : BOOLEAN,                  \* the peer is in _last_heartbeat_response,
     age : 0 .. Timeout + 1]           \* and how long ago that was

TypeOK ==
    /\ leading \in BOOLEAN
    /\ beat \in 0 .. DetectionInterval - 1
    /\ peer \in [Peers -> PeerState]
    /\ up \subseteq Peers
    /\ due \in [Peers -> 0 .. MaxDue]
    /\ since \in [Peers -> 0 .. Patience]

\* The node follows, and set_known_nodes has added its peers.
Init ==
    /\ leading = FALSE
    /\ beat = 0
    /\ peer = [p \in Peers |-> [status |-> "active", fails |-> 0, succs |-> 0,
                                heard |-> FALSE, age |-> 0]]
    /\ up = Peers
    /\ due = [p \in Peers |-> 0]
    /\ since = [p \in Peers |-> 0]

-----------------------------------------------------------------------------
(* FailureState, for one peer in the state q.                               *)

UpTo(bound, k) == IF k > bound THEN bound ELSE k

Overdue(q) == q.heard /\ q.age > Timeout

\* Faulty variant: an answer leaves the failures counted before it.
RecordForgiving(q) == [q EXCEPT !.heard = TRUE, !.age = 0,
                                !.succs = UpTo(RecoveryThreshold, @ + 1)]

\* record_heartbeat_response: followers only ever report success.
RecordResponse(q) == [q EXCEPT !.heard = TRUE, !.age = 0, !.fails = 0,
                               !.succs = UpTo(RecoveryThreshold, @ + 1)]

\* Faulty variant: an overdue peer keeps the answers counted before.
CheckFailureLenient(q) ==
    LET k == IF Overdue(q) THEN UpTo(FailureThreshold, q.fails + 1) ELSE q.fails
    IN  [q EXCEPT !.fails = k,
                  !.status = IF k >= FailureThreshold THEN "failed" ELSE @]

\* check_node_failure_with_timeout
CheckFailure(q) ==
    LET k == IF Overdue(q) THEN UpTo(FailureThreshold, q.fails + 1) ELSE q.fails
    IN  [q EXCEPT !.fails = k,
                  !.succs = IF Overdue(q) THEN 0 ELSE @,
                  !.status = IF k >= FailureThreshold THEN "failed" ELSE @]

\* check_node_recovery
CheckRecovery(q) ==
    [q EXCEPT !.status = IF q.succs >= RecoveryThreshold THEN "active" ELSE @]

-----------------------------------------------------------------------------
(* The leader.                                                              *)

\* A heartbeat goes out: to each peer that is up, lost, once or twice.
Broadcast ==
    /\ due' \in [Peers -> 0 .. MaxDue]
    /\ \A p \in Peers : due'[p] >= due[p] /\ (p \notin up => due'[p] = due[p])
    /\ since' = [p \in Peers |-> UpTo(Patience, since[p] + 1)]

\* Faulty variant: recoveries are never looked for.
CheckPeerFailing(q) == CheckFailure(q)

\* Faulty variant: recoveries are looked for first.
CheckPeerSwapped(q) == CheckFailure(CheckRecovery(q))

\* _run_detection_check, for one peer.
CheckPeer(q) == CheckRecovery(CheckFailure(q))

\* Faulty variant: the interval is counted one too far.
HeartbeatSentLate ==
    /\ Broadcast
    /\ beat' = IF beat = DetectionInterval THEN 0 ELSE beat + 1
    /\ peer' = [p \in Peers |-> IF beat' = 0 THEN CheckPeer(peer[p]) ELSE peer[p]]

\* _send_append_entries, up to on_heartbeat_sent: every n-th heartbeat runs the check.
HeartbeatSent ==
    /\ Broadcast
    /\ beat' = (beat + 1) % DetectionInterval
    /\ peer' = [p \in Peers |-> IF beat' = 0 THEN CheckPeer(peer[p]) ELSE peer[p]]

\* The heartbeat timer fires, or a value is proposed.
Heartbeat ==
    /\ leading
    /\ HeartbeatSent
    /\ UNCHANGED <<leading, up>>

\* _become_leader, with its first heartbeat.
Elected ==
    /\ ~leading
    /\ leading' = TRUE
    /\ HeartbeatSent
    /\ UNCHANGED up

\* The node steps down.  What is on its way may be answered after the next election,
\* in the term of that election.
Deposed ==
    /\ leading
    /\ leading' = FALSE
    /\ UNCHANGED <<beat, peer, up, due, since>>

\* An answer of the current term arrives.
Answer(p) ==
    /\ leading
    /\ due[p] > 0
    /\ due' = [due EXCEPT ![p] = @ - 1]
    /\ peer' = [peer EXCEPT ![p] = RecordResponse(@)]
    /\ since' = [since EXCEPT ![p] = 0]
    /\ UNCHANGED <<leading, beat, up>>

-----------------------------------------------------------------------------
(* The peers, the network and the clock.                                    *)

Lose(p) ==
    /\ due[p] > 0
    /\ due' = [due EXCEPT ![p] = @ - 1]
    /\ UNCHANGED <<leading, beat, peer, up, since>>

FallSilent(p) ==
    /\ p \in up
    /\ up' = up \ {p}
    /\ UNCHANGED <<leading, beat, peer, due, since>>

ComeBack(p) ==
    /\ p \notin up
    /\ up' = up \cup {p}
    /\ UNCHANGED <<leading, beat, peer, due, since>>

Tick ==
    /\ peer' = [p \in Peers |-> [peer[p] EXCEPT !.age = IF peer[p].heard THEN UpTo(Timeout + 1, @ + 1)
                                                                 ELSE 0]]
    /\ UNCHANGED <<leading, beat, up, due, since>>

Next ==
    \/ Heartbeat \/ Elected \/ Deposed \/ Tick
    \/ \E p \in Peers : Answer(p) \/ Lose(p) \/ FallSilent(p) \/ ComeBack(p)

Spec == Init /\ [][Next]_vars

\* Time passes, and a leader's heartbeat timer fires again and again.
Fairness == WF_vars(Tick) /\ WF_vars(Heartbeat)

FairSpec == Spec /\ Fairness

-----------------------------------------------------------------------------
(* Verdicts are earned.                                                     *)

\* A peer is marked failed only when its last answer is older than the timeout, and
\* after Patience heartbeats without one: no burst of proposals, no leadership that
\* comes and goes, and no late or repeated answer makes it any sooner.
FailureIsEarned ==
    [][\A p \in Peers : peer[p].status = "active" /\ peer'[p].status = "failed"
           => Overdue(peer[p]) /\ since'[p] = Patience]_vars

\* A failed peer is taken back only while its last answer is recent, however many
\* it sent before that.
RecoveryIsCurrent ==
    [][\A p \in Peers : peer[p].status = "failed" /\ peer'[p].status = "active"
           => peer[p].heard /\ ~Overdue(peer[p])]_vars

-----------------------------------------------------------------------------
(* Verdicts are reached, while the node goes on leading.                    *)

\* A peer that has answered once and then stays silent is marked failed for good.
SilenceIsNoticed ==
    \A p \in Peers : <>[](leading /\ p \notin up) /\ <>(peer[p].heard)
                        => <>[](peer[p].status = "failed")

\* A peer whose answers keep arriving within the timeout is active for good.
ReturnIsNoticed ==
    \A p \in Peers : <>[](leading /\ peer[p].heard /\ ~Overdue(peer[p]))
                        => <>[](peer[p].status = "active")

=============================================================================

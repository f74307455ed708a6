------------------------ MODULE FailureDetector_proofs ------------------------
(***************************************************************************)
(* The safety of the failure detector, proved for any number of peers and  *)
(* any configuration of thresholds, interval and timeout.                  *)
(***************************************************************************)
EXTENDS FailureDetector, TLAPS

\* The beats of an interval: the counter goes up by one, or the check is due.
LEMMA NextBeat ==
    ASSUME NEW b \in 0 .. DetectionInterval - 1
    PROVE  \/ b + 1 < DetectionInterval /\ (b + 1) % DetectionInterval = b + 1
           \/ b + 1 = DetectionInterval /\ (b + 1) % DetectionInterval = 0
  BY FailureConfigAssumption

\* One more failed check takes one more interval.
LEMMA OneMoreInterval ==
    ASSUME NEW k \in Nat
    PROVE  /\ k * DetectionInterval \in Nat
           /\ (k + 1) * DetectionInterval = k * DetectionInterval + DetectionInterval
  BY FailureConfigAssumption

\* Patience is a number of heartbeats, one at least.
LEMMA PatienceType == Patience \in Nat /\ Patience >= 1
  <1>1. FailureThreshold - 1 \in Nat
    BY FailureConfigAssumption
  <1> QED BY <1>1, OneMoreInterval DEF Patience

\* A peer whose counters, age and verdict are rewritten within their ranges.
LEMMA PeerUpdate ==
    ASSUME NEW q \in PeerState, NEW k \in 0 .. FailureThreshold,
           NEW u \in 0 .. RecoveryThreshold, NEW h \in BOOLEAN,
           NEW a \in 0 .. Timeout + 1, NEW st \in {"active", "failed"},
           NEW r, r = [status |-> st, fails |-> k, succs |-> u, heard |-> h, age |-> a]
    PROVE  r \in PeerState
  BY DEF PeerState

\* The ends of those ranges.
LEMMA Zeroes == /\ 0 \in 0 .. FailureThreshold /\ 0 \in 0 .. RecoveryThreshold
                /\ 0 \in 0 .. Timeout + 1 /\ 0 \in 0 .. MaxDue
                /\ 0 \in 0 .. DetectionInterval - 1 /\ 0 \in 0 .. Patience
  BY FailureConfigAssumption, PatienceType

-----------------------------------------------------------------------------
(* One peer: q is what is held of it, s the heartbeats since its last       *)
(* answer, and b the beats since the last check.                            *)

\* Answers and failures are never counted together, an answer was heard of who has
\* any, and failing takes all the failures there are to count.
Consistent(q) ==
    /\ q.succs = 0 \/ q.fails = 0
    /\ q.succs > 0 => q.heard
    /\ q.fails = FailureThreshold => q.status = "failed"

\* The failed checks counted took their intervals, and the beats since come on top.
Waited(q, s, b) ==
    q.fails > 0 => \/ s = Patience
                   \/ s >= (q.fails - 1) * DetectionInterval + 1 + b

EarnedInv ==
    /\ TypeOK
    /\ \A p \in Peers : Consistent(peer[p]) /\ Waited(peer[p], since[p], beat)

\* A failed check leaves a consistent state, and fails a peer it did not find failed
\* only if the peer is overdue and this was the last failure it took.
LEMMA CheckFailureEarned ==
    ASSUME NEW q \in PeerState, Consistent(q)
    PROVE  /\ CheckFailure(q) \in PeerState
           /\ Consistent(CheckFailure(q))
           /\ Overdue(q) => CheckFailure(q).succs = 0
           /\ ~Overdue(q) => CheckFailure(q).fails = q.fails
           /\ q.fails < FailureThreshold /\ Overdue(q)
                 => CheckFailure(q).fails = q.fails + 1
           /\ q.fails = FailureThreshold => CheckFailure(q).fails = q.fails
           /\ q.status = "active" /\ CheckFailure(q).status = "failed"
                 => Overdue(q) /\ q.fails = FailureThreshold - 1
           /\ CheckFailure(q).heard = q.heard
           /\ CheckFailure(q).status = "active" => q.status = "active"
  <1> DEFINE c == CheckFailure(q)
             k == UpTo(FailureThreshold, q.fails + 1)
             st == IF k >= FailureThreshold THEN "failed" ELSE q.status
  <1>1. /\ q.fails \in 0 .. FailureThreshold /\ q.succs \in 0 .. RecoveryThreshold
        /\ q.status \in {"active", "failed"}
    BY DEF PeerState
  <1>2. /\ k \in 1 .. FailureThreshold
        /\ q.fails < FailureThreshold => k = q.fails + 1
        /\ q.fails = FailureThreshold => k = q.fails
    BY <1>1, FailureConfigAssumption DEF UpTo
  <1>3. CASE Overdue(q)
    <2>1. c = [q EXCEPT !.fails = k, !.succs = 0, !.status = st]
      BY <1>3 DEF CheckFailure
    <2>3. st \in {"active", "failed"}
      BY <1>1
    <2> HIDE DEF k, c, st
    <2>4. k \in 0 .. FailureThreshold
      BY <1>2, FailureConfigAssumption
    <2>5. c = [status |-> st, fails |-> k, succs |-> 0, heard |-> q.heard, age |-> q.age]
      BY <2>1 DEF PeerState
    <2>2. /\ c \in PeerState /\ c.fails = k /\ c.succs = 0 /\ c.heard = q.heard
          /\ c.status = st
      BY <2>3, <2>4, <2>5, Zeroes, PeerUpdate DEF PeerState
    <2> QED BY <1>1, <1>2, <1>3, <2>2, FailureConfigAssumption DEF Consistent, c, st
  <1>4. CASE ~Overdue(q)
    <2>1. c = [q EXCEPT !.fails = q.fails, !.succs = q.succs,
                        !.status = IF q.fails >= FailureThreshold THEN "failed" ELSE @]
      BY <1>4 DEF CheckFailure
    <2>2. /\ c \in PeerState /\ c.fails = q.fails /\ c.succs = q.succs
          /\ c.heard = q.heard
          /\ c.status = IF q.fails >= FailureThreshold THEN "failed" ELSE q.status
      BY <1>1, <2>1, FailureConfigAssumption DEF PeerState
    <2> QED BY <1>1, <1>4, <2>2, FailureConfigAssumption DEF Consistent
  <1> QED BY <1>3, <1>4

\* So does the whole check, which takes a peer back only if it is heard of and not
\* overdue.
LEMMA CheckEarned ==
    ASSUME NEW q \in PeerState, Consistent(q)
    PROVE  /\ CheckPeer(q) \in PeerState
           /\ Consistent(CheckPeer(q))
           /\ CheckPeer(q).fails = CheckFailure(q).fails
           /\ q.status = "active" /\ CheckPeer(q).status = "failed"
                 => Overdue(q) /\ q.fails = FailureThreshold - 1
           /\ q.status = "failed" /\ CheckPeer(q).status = "active"
                 => q.heard /\ ~Overdue(q)
  <1> DEFINE c == CheckFailure(q)
  <1>1. c \in PeerState /\ Consistent(c)
    BY CheckFailureEarned
  <1>2. CheckPeer(q) = [c EXCEPT !.status = IF c.succs >= RecoveryThreshold THEN "active"
                                                                         ELSE @]
    BY DEF CheckPeer, CheckRecovery
  <1>3. c.succs >= RecoveryThreshold => c.fails = 0 /\ c.heard /\ ~Overdue(q)
    BY <1>1, CheckFailureEarned, FailureConfigAssumption DEF Consistent, PeerState
  <1>4. /\ c.heard = q.heard
        /\ c.status = "active" => q.status = "active"
        /\ q.status = "active" /\ c.status = "failed"
              => Overdue(q) /\ q.fails = FailureThreshold - 1
    BY CheckFailureEarned
  <1>5. c.status \in {"active", "failed"} /\ q.status \in {"active", "failed"}
    BY <1>1 DEF PeerState
  <1> HIDE DEF c
  <1>6. CheckPeer(q).fails = c.fails
    BY <1>1, <1>2 DEF PeerState
  <1>7. CheckPeer(q) \in PeerState /\ Consistent(CheckPeer(q))
    BY <1>1, <1>2, <1>3, FailureConfigAssumption DEF PeerState, Consistent
  <1>8. CheckPeer(q).status = IF c.succs >= RecoveryThreshold THEN "active" ELSE c.status
    BY <1>1, <1>2 DEF PeerState
  <1>9. q.status = "failed" /\ CheckPeer(q).status = "active" => q.heard /\ ~Overdue(q)
    BY <1>3, <1>4, <1>5, <1>8
  <1>10. q.status = "active" /\ CheckPeer(q).status = "failed"
            => Overdue(q) /\ q.fails = FailureThreshold - 1
    BY <1>4, <1>5, <1>8
  <1> QED BY <1>6, <1>7, <1>9, <1>10 DEF c

-----------------------------------------------------------------------------
(* The steps.                                                               *)

\* A heartbeat waits one beat longer, and the check at the end of an interval counts
\* no more than one failure for it.
LEMMA HeartbeatEarned ==
    ASSUME EarnedInv, HeartbeatSent, leading' \in BOOLEAN, up' = up
    PROVE  /\ EarnedInv'
           /\ \A p \in Peers :
                 /\ peer[p].status = "active" /\ peer'[p].status = "failed"
                       => Overdue(peer[p]) /\ since'[p] = Patience
                 /\ peer[p].status = "failed" /\ peer'[p].status = "active"
                       => peer[p].heard /\ ~Overdue(peer[p])
  <1>1. /\ beat \in 0 .. DetectionInterval - 1
        /\ peer \in [Peers -> PeerState] /\ since \in [Peers -> 0 .. Patience]
        /\ \A p \in Peers : Consistent(peer[p]) /\ Waited(peer[p], since[p], beat)
    BY DEF EarnedInv, TypeOK
  <1>2. \/ beat + 1 < DetectionInterval /\ beat' = beat + 1
        \/ beat + 1 = DetectionInterval /\ beat' = 0
    BY <1>1, NextBeat DEF HeartbeatSent
  <1>3. /\ peer' = [p \in Peers |-> IF beat' = 0 THEN CheckPeer(peer[p]) ELSE peer[p]]
        /\ since' = [p \in Peers |-> UpTo(Patience, since[p] + 1)]
        /\ due' \in [Peers -> 0 .. MaxDue]
    BY DEF HeartbeatSent, Broadcast
  <1>4. ASSUME NEW p \in Peers
        PROVE  /\ peer'[p] \in PeerState /\ Consistent(peer'[p])
               /\ since'[p] \in 0 .. Patience
               /\ Waited(peer'[p], since'[p], beat')
               /\ peer[p].status = "active" /\ peer'[p].status = "failed"
                     => Overdue(peer[p]) /\ since'[p] = Patience
               /\ peer[p].status = "failed" /\ peer'[p].status = "active"
                     => peer[p].heard /\ ~Overdue(peer[p])
    <2> DEFINE q == peer[p]
               r == peer'[p]
               s == since[p]
    <2>1. /\ q \in PeerState /\ Consistent(q) /\ Waited(q, s, beat)
          /\ s \in 0 .. Patience /\ q.fails \in 0 .. FailureThreshold
      BY <1>1 DEF PeerState
    <2>2. since'[p] = UpTo(Patience, s + 1) /\ since'[p] \in 0 .. Patience
      BY <1>3, <2>1, PatienceType DEF UpTo
    <2>3. CASE beat + 1 < DetectionInterval /\ beat' = beat + 1
      <3>1. r = q
        BY <1>1, <1>3, <2>3
      <3>2. q.fails > 0 => (q.fails - 1) * DetectionInterval \in Nat
        <4>1. q.fails > 0 => q.fails - 1 \in Nat
          BY <2>1, FailureConfigAssumption
        <4> QED BY <4>1, OneMoreInterval
      <3>3. Waited(q, since'[p], beat')
        BY <1>1, <2>1, <2>2, <2>3, <3>2, PatienceType, FailureConfigAssumption
           DEF Waited, UpTo
      <3> QED BY <2>1, <2>2, <3>1, <3>3
    <2>4. CASE beat + 1 = DetectionInterval /\ beat' = 0
      <3>1. r = CheckPeer(q)
        BY <1>3, <2>4
      <3>2. r \in PeerState /\ Consistent(r) /\ r.fails = CheckFailure(q).fails
        BY <2>1, <3>1, CheckEarned
      <3>3. CASE ~Overdue(q) \/ q.fails = FailureThreshold
        <4>1. r.fails = q.fails
          BY <2>1, <3>2, <3>3, CheckFailureEarned
        <4>2. q.fails > 0 => (q.fails - 1) * DetectionInterval \in Nat
          <5>1. q.fails > 0 => q.fails - 1 \in Nat
            BY <2>1, FailureConfigAssumption
          <5> QED BY <5>1, OneMoreInterval
        <4>3. Waited(r, since'[p], beat')
          <5>1. SUFFICES ASSUME q.fails > 0
                         PROVE  \/ since'[p] = Patience
                                \/ since'[p] >= (q.fails - 1) * DetectionInterval + 1
            BY <2>4, <4>1, <4>2 DEF Waited
          <5>2. since'[p] = Patience \/ since'[p] = s + 1
            BY <2>2 DEF UpTo
          <5>3. s = Patience \/ s >= (q.fails - 1) * DetectionInterval + 1 + beat
            BY <2>1, <5>1 DEF Waited
          <5>4. s = Patience => since'[p] = Patience
            BY <2>1, <2>2, PatienceType DEF UpTo
          <5> QED BY <1>1, <2>1, <4>2, <5>1, <5>2, <5>3, <5>4, PatienceType,
                     FailureConfigAssumption
        <4>4. ~(q.status = "active" /\ r.status = "failed")
          BY <2>1, <3>1, <3>3, CheckEarned, FailureConfigAssumption
        <4> QED BY <2>1, <2>2, <3>1, <3>2, <4>3, <4>4, CheckEarned
      <3>4. CASE Overdue(q) /\ q.fails < FailureThreshold
        <4>1. r.fails = q.fails + 1
          BY <2>1, <3>2, <3>4, CheckFailureEarned
        <4>2. since'[p] = Patience \/ since'[p] >= q.fails * DetectionInterval + 1
          <5>1. CASE q.fails = 0
            BY <2>1, <2>2, <5>1, PatienceType, FailureConfigAssumption DEF UpTo
          <5>2. CASE q.fails > 0
            <6>1. /\ (q.fails - 1) * DetectionInterval \in Nat
                  /\ q.fails * DetectionInterval
                        = (q.fails - 1) * DetectionInterval + DetectionInterval
              <7>1. q.fails - 1 \in Nat /\ (q.fails - 1) + 1 = q.fails
                BY <2>1, <5>2, FailureConfigAssumption
              <7> QED BY <7>1, OneMoreInterval
            <6>2. s = Patience \/ s >= (q.fails - 1) * DetectionInterval + 1 + beat
              BY <2>1, <5>2 DEF Waited
            <6> QED BY <1>1, <2>1, <2>2, <2>4, <6>1, <6>2, PatienceType,
                       FailureConfigAssumption DEF UpTo
          <5> QED BY <2>1, <5>1, <5>2
        <4>3. Waited(r, since'[p], beat')
          BY <2>1, <2>4, <4>1, <4>2, FailureConfigAssumption DEF Waited
        <4>4. q.status = "active" /\ r.status = "failed" => since'[p] = Patience
          <5>1. SUFFICES ASSUME q.status = "active", r.status = "failed"
                         PROVE  since'[p] = Patience
            OBVIOUS
          <5>2. q.fails = FailureThreshold - 1
            BY <2>1, <3>1, <5>1, CheckEarned
          <5>3. since'[p] = Patience \/ since'[p] >= Patience
            BY <4>2, <5>2 DEF Patience
          <5> QED BY <2>2, <5>3, PatienceType
        <4> QED BY <2>1, <2>2, <3>1, <3>2, <3>4, <4>3, <4>4, CheckEarned
      <3> QED BY <2>1, <3>3, <3>4, FailureConfigAssumption
    <2> QED BY <1>2, <2>3, <2>4
  <1>5. beat' \in 0 .. DetectionInterval - 1
    BY <1>1, <1>2, FailureConfigAssumption
  <1>6. TypeOK'
    BY <1>3, <1>4, <1>5 DEF EarnedInv, TypeOK
  <1> QED BY <1>4, <1>6 DEF EarnedInv

\* Any other step preserves the invariant and changes no verdict.
LEMMA QuietStepsEarned ==
    ASSUME EarnedInv,
           \/ Deposed \/ Tick
           \/ \E p \in Peers : Answer(p) \/ Lose(p) \/ FallSilent(p) \/ ComeBack(p)
    PROVE  EarnedInv' /\ \A p \in Peers : peer'[p].status = peer[p].status
  <1>1. /\ peer \in [Peers -> PeerState] /\ since \in [Peers -> 0 .. Patience]
        /\ due \in [Peers -> 0 .. MaxDue] /\ up \subseteq Peers
    BY DEF EarnedInv, TypeOK
  <1>2. CASE Deposed
    BY <1>2 DEF Deposed, EarnedInv, TypeOK
  <1>3. CASE Tick
    <2>1. ASSUME NEW p \in Peers
          PROVE  /\ peer'[p] \in PeerState /\ peer'[p].status = peer[p].status
                 /\ peer'[p].fails = peer[p].fails /\ peer'[p].succs = peer[p].succs
                 /\ peer'[p].heard = peer[p].heard
      BY <1>1, <1>3, FailureConfigAssumption DEF Tick, PeerState, UpTo
    <2>2. TypeOK'
      BY <1>3, <2>1 DEF Tick, EarnedInv, TypeOK
    <2>3. \A p \in Peers : Consistent(peer'[p]) /\ Waited(peer'[p], since'[p], beat')
      BY <1>3, <2>1 DEF Tick, EarnedInv, Consistent, Waited
    <2> QED BY <2>1, <2>2, <2>3 DEF EarnedInv
  <1>4. ASSUME NEW p \in Peers, Answer(p)
        PROVE  EarnedInv' /\ \A o \in Peers : peer'[o].status = peer[o].status
    <2> DEFINE q == peer[p]
               r == RecordResponse(q)
               k == UpTo(RecoveryThreshold, q.succs + 1)
    <2>6. q \in PeerState /\ k \in 0 .. RecoveryThreshold
      BY <1>1, FailureConfigAssumption DEF PeerState, UpTo
    <2>7. r = [q EXCEPT !.heard = TRUE, !.age = 0, !.fails = 0, !.succs = k]
      BY DEF RecordResponse
    <2> HIDE DEF q, k
    <2>8. r = [status |-> q.status, fails |-> 0, succs |-> k, heard |-> TRUE, age |-> 0]
      BY <2>6, <2>7 DEF PeerState
    <2>1. r \in PeerState /\ r.status = q.status /\ r.fails = 0 /\ r.heard
      BY <2>6, <2>8, Zeroes, PeerUpdate DEF PeerState
    <2> HIDE DEF r
    <2>2. /\ peer' = [peer EXCEPT ![p] = r] /\ since' = [since EXCEPT ![p] = 0]
          /\ due' = [due EXCEPT ![p] = @ - 1] /\ due[p] > 0
          /\ UNCHANGED <<leading, beat, up>>
      BY <1>4 DEF Answer, r, q
    <2>3. TypeOK'
      BY <1>1, <2>1, <2>2, PatienceType, FailureConfigAssumption DEF EarnedInv, TypeOK
    <2>4. Consistent(r) /\ Waited(r, 0, beat)
      BY <2>1, FailureConfigAssumption DEF Consistent, Waited
    <2>5. \A o \in Peers : Consistent(peer'[o]) /\ Waited(peer'[o], since'[o], beat')
      BY <1>1, <2>2, <2>4 DEF EarnedInv
    <2> QED BY <1>1, <2>1, <2>2, <2>3, <2>5 DEF EarnedInv, q
  <1>5. ASSUME NEW p \in Peers, Lose(p) \/ FallSilent(p) \/ ComeBack(p)
        PROVE  EarnedInv' /\ \A o \in Peers : peer'[o].status = peer[o].status
    <2>1. /\ UNCHANGED <<leading, beat, peer, since>>
          /\ due' \in [Peers -> 0 .. MaxDue] /\ up' \subseteq Peers
      BY <1>1, <1>5, FailureConfigAssumption DEF Lose, FallSilent, ComeBack
    <2> QED BY <2>1 DEF EarnedInv, TypeOK
  <1> QED BY <1>2, <1>3, <1>4, <1>5

\* What a step does to the verdicts.
VerdictsEarned ==
    \A p \in Peers :
       /\ peer[p].status = "active" /\ peer'[p].status = "failed"
             => Overdue(peer[p]) /\ since'[p] = Patience
       /\ peer[p].status = "failed" /\ peer'[p].status = "active"
             => peer[p].heard /\ ~Overdue(peer[p])

\* The invariant holds at first,
LEMMA InitEarned == Init => EarnedInv
  <1> SUFFICES ASSUME Init PROVE EarnedInv
    OBVIOUS
  <1> DEFINE q == [status |-> "active", fails |-> 0, succs |-> 0,
                   heard |-> FALSE, age |-> 0]
  <1>3. q \in PeerState
    BY FailureConfigAssumption DEF PeerState
  <1>4. Consistent(q) /\ Waited(q, 0, 0)
    BY FailureConfigAssumption DEF Consistent, Waited
  <1>5. peer = [p \in Peers |-> q] /\ since = [p \in Peers |-> 0] /\ beat = 0
    BY DEF Init
  <1> HIDE DEF q
  <1>1. TypeOK
    <2>1. leading = FALSE /\ up = Peers /\ due = [p \in Peers |-> 0]
      BY DEF Init
    <2> QED BY <1>3, <1>5, <2>1, Zeroes DEF TypeOK
  <1>2. \A p \in Peers : Consistent(peer[p]) /\ Waited(peer[p], since[p], beat)
    BY <1>4, <1>5
  <1> QED BY <1>1, <1>2 DEF EarnedInv

\* every step preserves it, and gives no verdict that is not earned.
LEMMA NextEarned == EarnedInv /\ [Next]_vars => EarnedInv' /\ VerdictsEarned
  <1> SUFFICES ASSUME EarnedInv, [Next]_vars PROVE EarnedInv' /\ VerdictsEarned
    OBVIOUS
  <1>1. CASE Heartbeat \/ Elected
    <2>1. HeartbeatSent /\ leading' \in BOOLEAN /\ up' = up
      BY <1>1 DEF Heartbeat, Elected, EarnedInv, TypeOK
    <2> QED BY <2>1, HeartbeatEarned DEF VerdictsEarned
  <1>2. CASE \/ Deposed \/ Tick
             \/ \E p \in Peers : Answer(p) \/ Lose(p) \/ FallSilent(p) \/ ComeBack(p)
    <2>1. EarnedInv' /\ \A p \in Peers : peer'[p].status = peer[p].status
      BY <1>2, QuietStepsEarned
    <2> QED BY <2>1 DEF VerdictsEarned
  <1>3. CASE UNCHANGED vars
    BY <1>3 DEF vars, EarnedInv, TypeOK, VerdictsEarned
  <1> QED BY <1>1, <1>2, <1>3 DEF Next

-----------------------------------------------------------------------------
\* The detector's fields keep their types, under any traffic and any leaderships.
THEOREM DetectorTypes == Spec => []TypeOK
  <1>1. EarnedInv => TypeOK
    BY DEF EarnedInv
  <1> QED BY <1>1, InitEarned, NextEarned, PTL DEF Spec

\* No peer is marked failed before Patience heartbeats without an answer, nor while
\* its last answer is within the timeout (check_node_failure_with_timeout).
THEOREM FailuresAreEarned == Spec => FailureIsEarned
  <1>1. VerdictsEarned => \A p \in Peers :
           peer[p].status = "active" /\ peer'[p].status = "failed"
              => Overdue(peer[p]) /\ since'[p] = Patience
    BY DEF VerdictsEarned
  <1> QED BY <1>1, InitEarned, NextEarned, PTL DEF Spec, FailureIsEarned

\* No peer is taken back on answers that are out of date (check_node_recovery).
THEOREM RecoveriesAreCurrent == Spec => RecoveryIsCurrent
  <1>1. VerdictsEarned => \A p \in Peers :
           peer[p].status = "failed" /\ peer'[p].status = "active"
              => peer[p].heard /\ ~Overdue(peer[p])
    BY DEF VerdictsEarned
  <1> QED BY <1>1, InitEarned, NextEarned, PTL DEF Spec, RecoveryIsCurrent

=============================================================================

------------------------ MODULE FollowMobility_proofs ------------------------
(***************************************************************************)
(* A follower knows of the leader it follows, for any leaders, followers   *)
(* and timeouts.                                                           *)
(***************************************************************************)
EXTENDS FollowMobility, TLAPS

\* TypeOK says where a leader may think it is, and not that told is a function.
TypeInv == TypeOK /\ told \in [Leaders -> Leaders \cup {Elsewhere}]

FollowInv == TypeInv /\ FollowsAvailable

Ages == (0 .. FollowerTimeout) \cup {None}

Ticks == (0 .. LeaderTimeout) \cup {None}

LEMMA Zeroes == 0 \in Ages /\ 0 \in Ticks /\ 0 # None /\ None \in Ages /\ None \in Ticks
  BY FollowAssumption DEF Ages, Ticks

LEMMA NextRoundType == ASSUME NEW a \in Ages PROVE NextRound(a) \in Ages
  BY FollowAssumption DEF NextRound, Ages

\* A tick of a follower's clock: who was heard of is still known.
LEMMA NextTick ==
    ASSUME NEW a \in Ticks,
           NEW b, b = IF a \in 0 .. LeaderTimeout - 1 THEN a + 1 ELSE a
    PROVE  b \in Ticks /\ (a # None => b # None)
  BY FollowAssumption DEF Ticks

LEMMA PhaseType ==
    ASSUME NEW p \in 0 .. ScanEvery - 1 PROVE (p + 1) % ScanEvery \in 0 .. ScanEvery - 1
  BY FollowAssumption

\* What a reply does to the leader it reaches.
LEMMA ReplyType ==
    ASSUME TypeInv, NEW m \in Reply, LeaderHears(m)
    PROVE  age' \in [Leaders -> [Followers -> Ages]]
  <1>1. age \in [Leaders -> [Followers -> Ages]]
    BY DEF TypeInv, TypeOK, Ages
  <1> QED BY <1>1, Zeroes DEF LeaderHears, Reply

LEMMA AnswerType ==
    ASSUME TypeInv, NEW m \in Reply, NEW others, others \subseteq Beacon \cup Reply,
           Answer(m, others)
    PROVE  age' \in [Leaders -> [Followers -> Ages]] /\ late' \subseteq Beacon \cup Reply
  <1>1. age \in [Leaders -> [Followers -> Ages]]
    BY DEF TypeInv, TypeOK, Ages
  <1> QED BY <1>1, ReplyType DEF Answer

\* What a broadcast does to the follower it reaches.
LEMMA BeaconInv ==
    ASSUME FollowInv, NEW m \in Beacon, NEW others, others \subseteq Beacon \cup Reply,
           FollowerHears(m, others), UNCHANGED <<clock, calm>>,
           beacons' \subseteq Beacon
    PROVE  FollowInv'
  <1>1. /\ age \in [Leaders -> [Followers -> Ages]]
        /\ heard \in [Followers -> [Leaders -> Ticks]]
    BY DEF FollowInv, TypeInv, TypeOK, Ages, Ticks
  <1>2. m.from \in Leaders /\ m.to \in Followers /\ m.position \in Leaders \cup {Elsewhere}
    BY DEF Beacon
  <1>3. heard' = [heard EXCEPT ![m.to][m.from] = 0]
    BY DEF FollowerHears
  <1>4. heard' \in [Followers -> [Leaders -> Ticks]]
    BY <1>1, <1>2, <1>3, Zeroes
  <1>5. [from |-> m.to, to |-> m.from] \in Reply
    BY <1>2 DEF Reply
  <1>6. /\ age' \in [Leaders -> [Followers -> Ages]]
        /\ late' \subseteq Beacon \cup Reply
        /\ dest' \in [Followers -> Leaders \cup {Elsewhere}]
    <2>1. CASE m.from = leader[m.to]
      BY <1>2, <1>5, <2>1, AnswerType DEF FollowerHears, FollowInv, TypeInv, TypeOK
    <2>2. CASE m.from # leader[m.to]
      BY <1>1, <2>2 DEF FollowerHears, FollowInv, TypeInv, TypeOK
    <2> QED BY <2>1, <2>2
  <1>7. TypeInv'
    BY <1>4, <1>6
       DEF FollowerHears, FollowInv, TypeInv, TypeOK, clock, Ages, Ticks
  <1>8. \A f \in Followers, l \in Leaders : heard[f][l] # None => heard'[f][l] # None
    BY <1>1, <1>2, <1>3, Zeroes
  <1>9. FollowsAvailable'
    <2>1. UNCHANGED leader
      BY DEF FollowerHears
    <2> QED BY <1>8, <2>1 DEF FollowInv, FollowsAvailable, available_leaders
  <1> QED BY <1>7, <1>9 DEF FollowInv

LEMMA NetworkInv ==
    FollowInv /\ (ReceiveBeacon \/ ReceiveLate \/ Disturb) => FollowInv'
  <1> SUFFICES ASSUME FollowInv, ReceiveBeacon \/ ReceiveLate \/ Disturb PROVE FollowInv'
    OBVIOUS
  <1> USE DEF FollowInv, TypeInv, TypeOK
  <1>1. CASE ReceiveBeacon
    <2>1. PICK m \in beacons : /\ beacons' = beacons \ {m} /\ FollowerHears(m, late)
                               /\ UNCHANGED <<clock, calm>>
      BY <1>1 DEF ReceiveBeacon
    <2> QED BY <2>1, BeaconInv
  <1>2. CASE ReceiveLate
    <2>1. PICK m \in late :
             /\ \/ m \in Beacon /\ FollowerHears(m, late \ {m})
                \/ /\ m \in Reply /\ LeaderHears(m) /\ late' = late \ {m}
                   /\ UNCHANGED <<up, told, heard, leader, dest>>
             /\ UNCHANGED <<beacons, clock, calm>>
      BY <1>2 DEF ReceiveLate
    <2>2. CASE m \in Beacon /\ FollowerHears(m, late \ {m})
      BY <2>1, <2>2, BeaconInv
    <2>3. CASE /\ m \in Reply /\ LeaderHears(m) /\ late' = late \ {m}
               /\ UNCHANGED <<up, told, heard, leader, dest>>
      <3>1. age' \in [Leaders -> [Followers -> Ages]]
        BY <2>3, ReplyType
      <3> QED BY <2>1, <2>3, <3>1 DEF Ages, clock, FollowsAvailable, available_leaders
    <2> QED BY <2>1, <2>2, <2>3
  <1>3. CASE Disturb
    BY <1>3 DEF Disturb, nodes, clock, FollowsAvailable, available_leaders
  <1> QED BY <1>1, <1>2, <1>3

\* Moving a leader away from where others believe it is.
LEMMA LeaveType ==
    ASSUME NEW l \in Leaders, NEW m \in Beacon \cup Reply
    PROVE  Leave(l, m) \in Beacon \cup Reply /\ (m \in Beacon => Leave(l, m) \in Beacon)
  BY DEF Leave, Beacon, Reply

LEMMA LeaderInv ==
    ASSUME FollowInv, NEW l \in Leaders, LeaderStep(l) PROVE FollowInv'
  <1> USE DEF FollowInv, TypeInv, TypeOK, FollowsAvailable, available_leaders, network, clock
  <1>1. CASE Telemetry(l)
    BY <1>1 DEF Telemetry
  <1>2. CASE Move(l)
    <2>1. beacons' \subseteq Beacon
      BY <1>2, LeaveType DEF Move
    <2>2. late' \subseteq Beacon \cup Reply
      BY <1>2, LeaveType DEF Move
    <2>3. dest' \in [Followers -> Leaders \cup {Elsewhere}]
      BY <1>2 DEF Move
    <2> QED BY <1>2, <2>1, <2>2, <2>3 DEF Move
  <1>3. CASE Fail(l)
    BY <1>3 DEF Fail
  <1>4. CASE ComeBack(l)
    BY <1>4 DEF ComeBack
  <1> QED BY <1>1, <1>2, <1>3, <1>4 DEF LeaderStep

LEMMA FollowerInv ==
    ASSUME FollowInv, NEW f \in Followers, FollowerStep(f) PROVE FollowInv'
  <1> USE DEF FollowInv, TypeInv, TypeOK, network, clock
  <1>1. CASE Scan(f)
    <2>1. heard' = [heard EXCEPT ![f] =
                       [l \in Leaders |-> IF l \in Recent(f) THEN heard[f][l] ELSE None]]
      BY <1>1 DEF Scan
    <2>2. heard' \in [Followers -> [Leaders -> (0 .. LeaderTimeout) \cup {None}]]
      BY <2>1
    <2>3. \A l \in Recent(f) : heard[f][l] # None /\ l \in Leaders
      BY DEF Recent, available_leaders
    <2>4. \/ leader' = leader /\ leader[f] \in Recent(f)
          \/ \E l \in Recent(f) \cup {None} : leader' = [leader EXCEPT ![f] = l]
      BY <1>1 DEF Scan
    <2>5. leader' \in [Followers -> Leaders \cup {None}]
      BY <2>3, <2>4
    <2>6. leader'[f] # None => leader'[f] \in Recent(f)
      BY <2>4
    <2>7. \A g \in Followers \ {f} : leader'[g] = leader[g] /\ heard'[g] = heard[g]
      BY <2>1, <2>4
    <2>8. FollowsAvailable'
      BY <2>1, <2>3, <2>6, <2>7 DEF FollowsAvailable, available_leaders
    <2> QED BY <1>1, <2>2, <2>5, <2>8 DEF Scan
  <1>2. ASSUME NEW l \in Leaders, follow_leader(f, l) PROVE FollowInv'
    BY <1>2 DEF follow_leader, FollowsAvailable, available_leaders
  <1> QED BY <1>1, <1>2 DEF FollowerStep

LEMMA TickInv == FollowInv /\ Tick => FollowInv'
  <1> SUFFICES ASSUME FollowInv, Tick PROVE FollowInv'
    OBVIOUS
  <1> USE DEF FollowInv, TypeInv, TypeOK
  <1>1. age' \in [Leaders -> [Followers -> Ages]]
    <2>1. \A l \in Leaders, f \in Followers : NextRound(age[l][f]) \in Ages
      BY NextRoundType DEF Ages
    <2>2. age \in [Leaders -> [Followers -> Ages]]
      BY DEF Ages
    <2> QED BY <2>1, <2>2 DEF Tick, CullFollowers
  <1>2. beacons' \subseteq Beacon
    BY DEF Tick, Broadcasts, Beacon
  <1>3. phase' \in 0 .. ScanEvery - 1
    BY PhaseType DEF Tick
  <1>4. \A f \in Followers, l \in Leaders :
           heard'[f][l] \in Ticks /\ (heard[f][l] # None => heard'[f][l] # None)
    <2>1. \A f \in Followers, l \in Leaders :
             /\ heard[f][l] \in Ticks
             /\ heard'[f][l] = IF heard[f][l] \in 0 .. LeaderTimeout - 1
                               THEN heard[f][l] + 1 ELSE heard[f][l]
      BY DEF Tick, Ticks
    <2> QED BY <2>1, NextTick
  <1>5. heard' \in [Followers -> [Leaders -> Ticks]]
    BY <1>4 DEF Tick
  <1>6. FollowsAvailable'
    BY <1>4 DEF Tick, FollowsAvailable, available_leaders
  <1> QED BY <1>1, <1>2, <1>3, <1>5, <1>6 DEF Tick, Ages, Ticks

LEMMA FollowInit == Init => FollowInv
  <1> SUFFICES ASSUME Init PROVE FollowInv
    OBVIOUS
  <1>1. 0 \in 0 .. ScanEvery - 1
    BY FollowAssumption
  <1> QED BY <1>1 DEF Init, FollowInv, TypeInv, TypeOK, FollowsAvailable

LEMMA FollowNext == FollowInv /\ [Next]_vars => FollowInv'
  <1>1. FollowInv /\ UNCHANGED vars => FollowInv'
    BY DEF vars, nodes, network, clock, FollowInv, TypeInv, TypeOK, FollowsAvailable,
           available_leaders
  <1>2. FollowInv /\ CalmDown => FollowInv'
    BY DEF CalmDown, nodes, network, clock, FollowInv, TypeInv, TypeOK, FollowsAvailable,
           available_leaders
  <1> QED BY <1>1, <1>2, TickInv, NetworkInv, LeaderInv, FollowerInv DEF Next

\* Leaders, followers and the network keep their types, whatever the timeouts.
THEOREM FollowTypes == Spec => []TypeOK
  <1>1. FollowInv => TypeOK
    BY DEF FollowInv, TypeInv
  <1> QED BY <1>1, FollowInit, FollowNext, PTL DEF Spec

\* A follower follows a leader it knows of, whatever the timeouts.
THEOREM FollowersKnowTheirLeader == Spec => []FollowsAvailable
  <1>1. FollowInv => FollowsAvailable
    BY DEF FollowInv
  <1> QED BY <1>1, FollowInit, FollowNext, PTL DEF Spec

=============================================================================

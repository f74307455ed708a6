---------------------------- MODULE FollowMobility ----------------------------
(***************************************************************************)
(* Leaders that broadcast their position and followers that fly to it      *)
(* (protocol/plugin/follow_mobility.py), over a network that loses and     *)
(* delays, with leaders that fail and come back.                           *)
(*                                                                         *)
(* Time is counted in ticks of broadcast_interval.  A tick begins with     *)
(* every leader's broadcast.  During it, in any order, a follower whose    *)
(* timer is due scans, and what was sent is received, lost or left late.   *)
(* A position is either where the leader of that name is or elsewhere.     *)
(***************************************************************************)
EXTENDS Integers, FiniteSets

CONSTANTS
    Leaders, Followers,
    Unsteady,          \* the leaders that move and fail
    None,
    Elsewhere,         \* any position where no leader is
    FollowerTimeout,   \* follower_timeout, which the code compares with rounds
    LeaderTimeout,     \* leader_timeout, in ticks
    ScanEvery,         \* scanning_interval, in ticks
    MaxLate            \* bound: messages that are late at once

ASSUME FollowAssumption ==
    /\ Unsteady \subseteq Leaders
    /\ None \notin Leaders \cup {Elsewhere} /\ Elsewhere \notin Leaders
    /\ None \notin Int
    /\ FollowerTimeout \in Nat \ {0} /\ LeaderTimeout \in Nat \ {0}
    /\ ScanEvery \in Nat \ {0} /\ MaxLate \in Nat

VARIABLES
    up,        \* the leaders that run
    told,      \* _position: what telemetry has told a leader, or (0, 0, 0)
    age,       \* rounds since _last_connection_from_follower, of each follower in it
    heard,     \* ticks since _last_leader_broadcast, of each leader in it
    leader,    \* _leader
    dest,      \* where a follower was last sent: _leader_position
    beacons,   \* broadcasts to be received in this tick
    late,      \* messages that will be received some time
    toScan,    \* the followers that are to scan in this tick
    phase,     \* ticks since followers last scanned
    calm       \* nothing is lost, late, moved or failing any more

nodes == <<up, told, age, heard, leader, dest>>
network == <<beacons, late>>
clock == <<toScan, phase>>
vars == <<nodes, network, clock, calm>>

Beacon == [from : Leaders, to : Followers, position : Leaders \cup {Elsewhere}]
Reply == [from : Followers, to : Leaders]

TypeOK ==
    /\ up \subseteq Leaders
    /\ \A l \in Leaders : told[l] \in {l, Elsewhere}
    /\ age \in [Leaders -> [Followers -> (0 .. FollowerTimeout) \cup {None}]]
    /\ heard \in [Followers -> [Leaders -> (0 .. LeaderTimeout) \cup {None}]]
    /\ leader \in [Followers -> Leaders \cup {None}]
    /\ dest \in [Followers -> Leaders \cup {Elsewhere}]
    /\ beacons \subseteq Beacon
    /\ late \subseteq Beacon \cup Reply
    /\ toScan \subseteq Followers
    /\ phase \in 0 .. ScanEvery - 1
    /\ calm \in BOOLEAN

Init ==
    /\ up = Leaders
    /\ told = [l \in Leaders |-> Elsewhere]
    /\ age = [l \in Leaders |-> [f \in Followers |-> None]]
    /\ heard = [f \in Followers |-> [l \in Leaders |-> None]]
    /\ leader = [f \in Followers |-> None]
    /\ dest = [f \in Followers |-> Elsewhere]
    /\ beacons = {} /\ late = {}
    /\ toScan = Followers /\ phase = 0
    /\ calm = FALSE

-----------------------------------------------------------------------------
(* A leader.                                                               *)

MayBeLate(others, m) == Cardinality(others \cup {m}) <= MaxLate

followers(l) == {f \in Followers : age[l][f] # None}

\* position_handler
Telemetry(l) ==
    /\ l \in up /\ told' = [told EXCEPT ![l] = l]
    /\ UNCHANGED <<up, age, heard, leader, dest, network, clock, calm>>

\* Faulty variant: a round too late.
NextRoundLate(a) == IF a = None \/ a > FollowerTimeout THEN None ELSE a + 1

\* _cull_disconnected_followers, and the next round.
NextRound(a) == IF a = None \/ a >= FollowerTimeout THEN None ELSE a + 1

\* broadcast_handler, of the leaders that are up: what they send, and what they know
\* then of their followers.
Broadcasts ==
    {[from |-> l, to |-> f, position |-> told[l]] : l \in up, f \in Followers}

CullFollowers ==
    age' = [l \in Leaders |-> IF l \in up THEN [f \in Followers |-> NextRound(age[l][f])]
                                         ELSE age[l]]

\* listen_handler
LeaderHears(m) == age' = IF m.to \in up THEN [age EXCEPT ![m.to][m.from] = 0] ELSE age

-----------------------------------------------------------------------------
(* A follower.                                                             *)

available_leaders(f) == {l \in Leaders : heard[f][l] # None}

\* An answer is received in the same tick, and when makes no difference; or it is lost,
\* or comes late.  The other late messages are others.
Answer(m, others) ==
    \/ LeaderHears(m) /\ late' = others
    \/ ~calm /\ UNCHANGED age /\ late' = others
    \/ ~calm /\ UNCHANGED age /\ MayBeLate(others, m) /\ late' = others \cup {m}

\* Faulty variant: whoever broadcasts is flown to and answered.
FollowerHearsAll(m, others) ==
    /\ heard' = [heard EXCEPT ![m.to][m.from] = 0]
    /\ dest' = [dest EXCEPT ![m.to] = m.position]
    /\ Answer([from |-> m.to, to |-> m.from], others)
    /\ UNCHANGED <<up, told, leader>>

\* follow_handler: the follower flies to its leader, and answers it.
FollowerHears(m, others) ==
    /\ heard' = [heard EXCEPT ![m.to][m.from] = 0]
    /\ IF m.from = leader[m.to]
       THEN /\ dest' = [dest EXCEPT ![m.to] = m.position]
            /\ Answer([from |-> m.to, to |-> m.from], others)
       ELSE UNCHANGED <<age, dest>> /\ late' = others
    /\ UNCHANGED <<up, told, leader>>

Recent(f) == {l \in available_leaders(f) : heard[f][l] < LeaderTimeout}

\* Faulty variant: the leader is not forgotten with its broadcast.
ScanForgetful(f) ==
    /\ f \in toScan /\ toScan' = toScan \ {f}
    /\ heard' = [heard EXCEPT ![f] =
                    [l \in Leaders |-> IF l \in Recent(f) THEN @[l] ELSE None]]
    /\ IF leader[f] # None \/ Recent(f) = {}
       THEN UNCHANGED leader
       ELSE \E l \in Recent(f) : leader' = [leader EXCEPT ![f] = l]
    /\ UNCHANGED <<up, told, age, dest, network, phase, calm>>

\* Faulty variant: a follower without a leader does not look for another.
ScanOnce(f) ==
    /\ f \in toScan /\ toScan' = toScan \ {f}
    /\ heard' = [heard EXCEPT ![f] =
                    [l \in Leaders |-> IF l \in Recent(f) THEN @[l] ELSE None]]
    /\ IF leader[f] \in Recent(f)
       THEN UNCHANGED leader
       ELSE leader' = [leader EXCEPT ![f] = None]
    /\ UNCHANGED <<up, told, age, dest, network, phase, calm>>

\* scan_handler: leaders not heard of lately are forgotten, and a follower left without
\* one takes any that is available, whatever auto_follow says.
Scan(f) ==
    /\ f \in toScan /\ toScan' = toScan \ {f}
    /\ heard' = [heard EXCEPT ![f] =
                    [l \in Leaders |-> IF l \in Recent(f) THEN @[l] ELSE None]]
    /\ IF leader[f] \in Recent(f)
       THEN UNCHANGED leader
       ELSE \E l \in IF Recent(f) = {} THEN {None} ELSE Recent(f) :
                leader' = [leader EXCEPT ![f] = l]
    /\ UNCHANGED <<up, told, age, dest, network, phase, calm>>

\* follow_leader, called by the protocol.
follow_leader(f, l) ==
    /\ ~calm /\ l \in available_leaders(f)
    /\ leader' = [leader EXCEPT ![f] = l]
    /\ UNCHANGED <<up, told, age, heard, dest, network, clock, calm>>

-----------------------------------------------------------------------------
(* The network, time, and what befalls leaders.                            *)

ReceiveBeacon ==
    \E m \in beacons :
        /\ beacons' = beacons \ {m} /\ FollowerHears(m, late)
        /\ UNCHANGED <<clock, calm>>

ReceiveLate ==
    \E m \in late :
        /\ \/ m \in Beacon /\ FollowerHears(m, late \ {m})
           \/ /\ m \in Reply /\ LeaderHears(m) /\ late' = late \ {m}
              /\ UNCHANGED <<up, told, heard, leader, dest>>
        /\ UNCHANGED <<beacons, clock, calm>>

\* A broadcast is lost for a follower, or will come late.
Disturb ==
    /\ ~calm
    /\ \E m \in beacons :
          /\ beacons' = beacons \ {m}
          /\ \/ UNCHANGED late
             \/ MayBeLate(late, m) /\ late' = late \cup {m}
    /\ UNCHANGED <<nodes, clock, calm>>

\* A tick: every leader broadcasts, and followers that are due will scan before the next.
Tick ==
    /\ toScan = {} /\ beacons = {}
    /\ beacons' = Broadcasts
    /\ CullFollowers
    /\ phase' = (phase + 1) % ScanEvery
    /\ toScan' = IF phase' = 0 THEN Followers ELSE {}
    /\ heard' = [f \in Followers |-> [l \in Leaders |->
                    IF heard[f][l] \in 0 .. LeaderTimeout - 1
                    THEN heard[f][l] + 1 ELSE heard[f][l]]]
    /\ UNCHANGED <<up, told, leader, dest, late, calm>>

\* Where the leader was is elsewhere from now on.
Leave(l, m) == IF m \in Beacon /\ m.position = l
               THEN [m EXCEPT !.position = Elsewhere] ELSE m

Move(l) ==
    /\ ~calm /\ l \in Unsteady
    /\ told' = [told EXCEPT ![l] = Elsewhere]
    /\ dest' = [f \in Followers |-> IF dest[f] = l THEN Elsewhere ELSE dest[f]]
    /\ beacons' = {Leave(l, m) : m \in beacons}
    /\ late' = {Leave(l, m) : m \in late}
    /\ UNCHANGED <<up, age, heard, leader, clock, calm>>

Fail(l) ==
    /\ ~calm /\ l \in Unsteady \cap up
    /\ up' = up \ {l}
    /\ UNCHANGED <<told, age, heard, leader, dest, network, clock, calm>>

\* A leader that comes back knows neither its followers nor its position.
ComeBack(l) ==
    /\ ~calm /\ l \notin up
    /\ up' = up \cup {l}
    /\ told' = [told EXCEPT ![l] = Elsewhere]
    /\ age' = [age EXCEPT ![l] = [f \in Followers |-> None]]
    /\ UNCHANGED <<heard, leader, dest, network, clock, calm>>

CalmDown ==
    /\ ~calm /\ calm' = TRUE
    /\ UNCHANGED <<nodes, network, clock>>

-----------------------------------------------------------------------------

LeaderStep(l) == Telemetry(l) \/ Move(l) \/ Fail(l) \/ ComeBack(l)

FollowerStep(f) == Scan(f) \/ \E l \in Leaders : follow_leader(f, l)

Next ==
    \/ \E l \in Leaders : LeaderStep(l)
    \/ \E f \in Followers : FollowerStep(f)
    \/ ReceiveBeacon \/ ReceiveLate \/ Disturb
    \/ Tick \/ CalmDown

Spec == Init /\ [][Next]_vars

\* Timers fire, telemetry comes and what is not lost is received.
Fairness ==
    /\ WF_vars(Tick) /\ WF_vars(ReceiveBeacon) /\ WF_vars(ReceiveLate)
    /\ \A l \in Leaders : WF_vars(Telemetry(l))
    /\ \A f \in Followers : WF_vars(Scan(f))

FairSpec == Spec /\ Fairness

-----------------------------------------------------------------------------
(* What has to hold.                                                       *)

\* A follower follows a leader it knows of, however its leader list is pruned, its timers
\* interleave with broadcasts and its protocol chooses for it.
FollowsAvailable ==
    \A f \in Followers : leader[f] # None => leader[f] \in available_leaders(f)

\* Once nothing is lost, late or failing, everybody agrees: each follower has a leader
\* that is up, if there is one, and keeps it; and a leader counts exactly the followers
\* that follow it.
FollowersSettle ==
    <>[]calm => \/ <>[](up = {} /\ \A f \in Followers : leader[f] = None)
                \/ \A f \in Followers : \E l \in Leaders :
                       <>[](/\ l \in up /\ leader[f] = l
                            /\ \A k \in up : f \in followers(k) <=> k = l)

\* And each is sent to where its leader is: neither to (0, 0, 0), which a leader
\* broadcasts until its first telemetry, nor to where it was.
FollowersArrive ==
    <>[]calm => <>[](\A f \in Followers : leader[f] # None => dest[f] = leader[f])

=============================================================================

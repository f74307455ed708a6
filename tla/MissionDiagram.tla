---------------------------- MODULE MissionDiagram ----------------------------
(***************************************************************************)
(* The state machine the documentation draws (runner/mission.py:9-19):     *)
(*                                                                         *)
(*   IDLE -load-> LOADED -setup-> READY -start-> RUNNING -stop-> RETURNING *)
(*                                                                         *)
(* with what it promises about the mission behind the state: a mission is  *)
(* the same one from load until IDLE, a protocol begins only while its     *)
(* drone holds the mission's initial position, and a protocol is installed *)
(* in RUNNING alone.  Of a start that fails the documentation says nothing:*)
(* the mission stays READY, and what the protocol left behind may take the *)
(* drone from its position.                                                *)
(***************************************************************************)
EXTENDS Naturals

CONSTANT MaxRuns

VARIABLES
    st,       \* the state of the diagram
    run,      \* the mission it is about, 0 in IDLE
    protocol, \* the mission whose protocol is installed, 0 for none
    at,       \* the mission whose initial position the drone holds, 0 for none
    stray     \* something that a failed start left behind is alive

vars == <<st, run, protocol, at, stray>>

Init == st = "idle" /\ run = 0 /\ protocol = 0 /\ at = 0 /\ stray = FALSE

Load == /\ st = "idle" /\ st' = "loaded"
        /\ run' \in 1 .. MaxRuns
        /\ UNCHANGED <<protocol, at, stray>>

Setup == /\ st = "loaded" /\ st' = "ready"
         /\ at' = run
         /\ UNCHANGED <<run, protocol, stray>>

Start == /\ st = "ready" /\ (at = run \/ stray)
         /\ st' = "running"
         /\ protocol' = run
         /\ UNCHANGED <<run, at, stray>>

StartFails == /\ st = "ready"
              /\ stray' = TRUE
              /\ UNCHANGED <<st, run, protocol, at>>

\* The end of a mission may end what its failed start left behind.
Stop == /\ st \in {"ready", "running"}
        /\ st' = "returning"
        /\ protocol' = 0
        /\ stray' \in {stray, FALSE}
        /\ UNCHANGED <<run, at>>

\* Landing, stopping what has not flown, the operator's reset, the process's end.
End == /\ st # "idle" /\ st' = "idle"
       /\ run' = 0 /\ protocol' = 0
       /\ stray' \in {stray, FALSE}
       /\ UNCHANGED at

\* The process ends where no mission is open.
Reboot == /\ st = "idle"
          /\ stray' = FALSE
          /\ UNCHANGED <<st, run, protocol, at>>

\* The drone leaves the position: never while a mission is READY.
Drift == /\ st # "ready" \/ stray
         /\ at' = 0
         /\ UNCHANGED <<st, run, protocol, stray>>

Next == Load \/ Setup \/ Start \/ StartFails \/ Stop \/ End \/ Reboot \/ Drift

Spec == Init /\ [][Next]_vars

=============================================================================

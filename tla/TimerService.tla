----------------------------- MODULE TimerService -----------------------------
(***************************************************************************)
(* What IProvider (protocol/interface.py) promises of timers: each timer   *)
(* scheduled fires once, timers of the same name are independent of each   *)
(* other, cancelling a name cancels all of them, and a provider that was   *)
(* shut down schedules and fires nothing.                                  *)
(***************************************************************************)
EXTENDS Naturals

CONSTANTS Owners, Names

VARIABLES
    pending,   \* how many timers of each name are to fire
    hushed,    \* the names cancelled and not scheduled since
    closed     \* the owners that were shut down

vars == <<pending, hushed, closed>>

Init ==
    /\ pending = [o \in Owners |-> [n \in Names |-> 0]]
    /\ hushed = [o \in Owners |-> {}]
    /\ closed = {}

Schedule(o, n) ==
    /\ o \notin closed
    /\ pending' = [pending EXCEPT ![o][n] = @ + 1]
    /\ hushed' = [hushed EXCEPT ![o] = @ \ {n}]
    /\ UNCHANGED closed

Fire(o, n) ==
    /\ o \notin closed /\ pending[o][n] > 0
    /\ pending' = [pending EXCEPT ![o][n] = @ - 1]
    /\ UNCHANGED <<hushed, closed>>

Cancel(o, n) ==
    /\ pending' = [pending EXCEPT ![o][n] = 0]
    /\ hushed' = [hushed EXCEPT ![o] = @ \cup {n}]
    /\ UNCHANGED closed

Close(o) ==
    /\ pending' = [pending EXCEPT ![o] = [n \in Names |-> 0]]
    /\ hushed' = [hushed EXCEPT ![o] = {}]
    /\ closed' = closed \cup {o}

Next ==
    \E o \in Owners :
        \/ Close(o)
        \/ \E n \in Names : Schedule(o, n) \/ Fire(o, n) \/ Cancel(o, n)

Spec == Init /\ [][Next]_vars

=============================================================================

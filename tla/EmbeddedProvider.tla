--------------------------- MODULE EmbeddedProvider ---------------------------
(***************************************************************************)
(* The encapsulators of the missions one process flies, each with its      *)
(* provider (encapsulator/embedded.py), on the loop they share.            *)
(*                                                                         *)
(* The loop runs one callback at a time: busy is the protocol whose code   *)
(* it runs.  Protocols may also call their provider from tasks of their    *)
(* own, long after they were finished.  Zenoh delivers from a thread, that *)
(* runs beside the loop.                                                   *)
(*                                                                         *)
(* A TimerHandle is pending in the loop or gone.  The provider's           *)
(* dictionary holds the latest of each name; those it forgot while they    *)
(* were pending are stray.                                                 *)
(***************************************************************************)
EXTENDS Integers, FiniteSets

CONSTANTS
    Encs,         \* encapsulators
    Names,        \* names of timers
    Careless,     \* the protocols that schedule a timer again while it is pending
    Nobody,
    MaxStray, MaxCommands, MaxInbox   \* bounds of the model

ASSUME ProviderAssumption ==
    /\ Nobody \notin Encs
    /\ Careless \subseteq Encs
    /\ MaxStray \in Nat /\ MaxCommands \in Nat /\ MaxInbox \in Nat

VARIABLES
    stage,    \* "live" until finish(), "over" after shutdown(): _finished and _active
    bound,    \* runner._encapsulator
    busy,     \* the protocol the loop is running
    timers,   \* the names in provider._timers
    stray,    \* how many pending handles of each name are not in _timers
    tasks,    \* how many commands are in _pending_tasks: to be posted, or to be answered
    hushed,   \* history: the names cancelled and not scheduled since
    sent,     \* the protocols that have handed a message to the backend
    inbox,    \* calls of handle_packet that zenoh has put on the loop
    thread    \* what the zenoh thread is doing

vars == <<stage, bound, busy, timers, stray, hushed, tasks, sent, inbox, thread>>
work == <<timers, stray, hushed, tasks, sent>>

TypeOK ==
    /\ stage \in [Encs -> {"unborn", "live", "finishing", "over"}]
    /\ bound \in Encs \cup {Nobody}
    /\ busy \in Encs \cup {Nobody}
    /\ timers \in [Encs -> SUBSET Names]
    /\ stray \in [Encs -> [Names -> 0 .. MaxStray]]
    /\ tasks \in [Encs -> 0 .. MaxCommands]
    /\ hushed \in [Encs -> SUBSET Names]
    /\ sent \subseteq Encs
    /\ inbox \in [Encs -> 0 .. MaxInbox]
    /\ thread \in {"idle", "seen"}

Init ==
    /\ stage = [e \in Encs |-> "unborn"]
    /\ bound = Nobody
    /\ busy = Nobody
    /\ timers = [e \in Encs |-> {}]
    /\ stray = [e \in Encs |-> [n \in Names |-> 0]]
    /\ tasks = [e \in Encs |-> 0]
    /\ hushed = [e \in Encs |-> {}]
    /\ sent = {}
    /\ inbox = [e \in Encs |-> 0]
    /\ thread = "idle"

Active(e) == stage[e] \in {"live", "finishing"}     \* provider._active
Finished(e) == stage[e] \in {"finishing", "over"}   \* encapsulator._finished

-----------------------------------------------------------------------------
(* What a protocol does with its provider, in a callback or in a task of   *)
(* its own.                                                                *)

Calls(e) == stage[e] # "unborn" /\ busy \in {e, Nobody}

\* Faulty variant: a stopped protocol still schedules.
ScheduleTimerAlways(e, n) ==
    /\ Calls(e)
    /\ n \in timers[e] => e \in Careless /\ stray[e][n] < MaxStray
    /\ timers' = [timers EXCEPT ![e] = @ \cup {n}]
    /\ stray' = IF n \in timers[e] THEN [stray EXCEPT ![e][n] = @ + 1] ELSE stray
    /\ hushed' = [hushed EXCEPT ![e] = @ \ {n}]
    /\ UNCHANGED <<stage, bound, busy, tasks, sent, inbox, thread>>

\* schedule_timer: a handle that was pending under the name is forgotten, not cancelled.
ScheduleTimer(e, n) ==
    /\ Calls(e) /\ Active(e)
    /\ n \in timers[e] => e \in Careless /\ stray[e][n] < MaxStray
    /\ timers' = [timers EXCEPT ![e] = @ \cup {n}]
    /\ stray' = IF n \in timers[e] THEN [stray EXCEPT ![e][n] = @ + 1] ELSE stray
    /\ hushed' = [hushed EXCEPT ![e] = @ \ {n}]
    /\ UNCHANGED <<stage, bound, busy, tasks, sent, inbox, thread>>

\* Faulty variant: the handle is popped and not cancelled.
CancelTimerPopped(e, n) ==
    /\ Calls(e) /\ n \in timers[e] /\ stray[e][n] < MaxStray
    /\ timers' = [timers EXCEPT ![e] = @ \ {n}]
    /\ stray' = [stray EXCEPT ![e][n] = @ + 1]
    /\ hushed' = [hushed EXCEPT ![e] = @ \cup {n}]
    /\ UNCHANGED <<stage, bound, busy, tasks, sent, inbox, thread>>

\* cancel_timer: what the dictionary has under the name is cancelled.
CancelTimer(e, n) ==
    /\ Calls(e)
    /\ timers' = [timers EXCEPT ![e] = @ \ {n}]
    /\ hushed' = [hushed EXCEPT ![e] = @ \cup {n}]
    /\ UNCHANGED <<stage, bound, busy, stray, tasks, sent, inbox, thread>>

\* send_mobility_command, through _fire_and_forget: a task that will post the command.
SendMobility(e) ==
    /\ Calls(e) /\ Active(e) /\ tasks[e] < MaxCommands
    /\ tasks' = [tasks EXCEPT ![e] = @ + 1]
    /\ UNCHANGED <<stage, bound, busy, timers, stray, hushed, sent, inbox, thread>>

\* send_communication_command
SendMessage(e) ==
    /\ Calls(e) /\ Active(e) /\ e \notin sent
    /\ sent' = sent \cup {e}
    /\ UNCHANGED <<stage, bound, busy, timers, stray, hushed, tasks, inbox, thread>>

\* A callback other than finish() returns, or raises.
Return ==
    /\ busy # Nobody /\ stage[busy] # "finishing"
    /\ busy' = Nobody
    /\ UNCHANGED <<stage, bound, work, inbox, thread>>

-----------------------------------------------------------------------------
(* What the loop runs.                                                     *)

\* runner.bootstrap_protocol: the encapsulator of a mission is made, bound, and
\* initialized.  Nothing looks at the one that was bound before.
Bootstrap(e) ==
    /\ busy = Nobody /\ stage[e] = "unborn"
    /\ stage' = [stage EXCEPT ![e] = "live"]
    /\ bound' = e
    /\ busy' = e
    /\ UNCHANGED <<work, inbox, thread>>

\* _on_timer forgets whatever handle the dictionary has under the name: the one that
\* fires, or, if a stray one fires, another that is stray from then on.
PopTimer(e, n) ==
    /\ timers' = [timers EXCEPT ![e] = @ \ {n}]
    /\ IF n \in timers[e]
       THEN UNCHANGED stray
       ELSE stray[e][n] > 0 /\ stray' = [stray EXCEPT ![e][n] = @ - 1]

\* _on_timer, and handle_timer: the callback runs unless the protocol was finished.
TimerFires(e, n) ==
    /\ busy = Nobody
    /\ PopTimer(e, n)
    /\ busy' = IF Active(e) /\ ~Finished(e) THEN e ELSE busy
    /\ UNCHANGED <<stage, bound, hushed, tasks, sent, inbox, thread>>

\* A telemetry sample, or a message over http, is handed to whoever is bound.
Deliver ==
    /\ busy = Nobody /\ bound # Nobody /\ ~Finished(bound)
    /\ busy' = bound
    /\ UNCHANGED <<stage, bound, work, inbox, thread>>

\* Faulty variant: handle_packet is not gated.
HandlePacketAlways(e) ==
    /\ busy = Nobody /\ inbox[e] > 0
    /\ inbox' = [inbox EXCEPT ![e] = @ - 1]
    /\ busy' = e
    /\ UNCHANGED <<stage, bound, work, thread>>

\* handle_packet, put on the loop by the zenoh thread some time ago.
HandlePacket(e) ==
    /\ busy = Nobody /\ inbox[e] > 0
    /\ inbox' = [inbox EXCEPT ![e] = @ - 1]
    /\ busy' = IF Finished(e) THEN busy ELSE e
    /\ UNCHANGED <<stage, bound, work, thread>>

\* Faulty variant: tasks are counted, and one that shutdown cancelled counts again.
CommandEndsCounted(e) ==
    /\ busy = Nobody /\ (tasks[e] > 0 \/ stage[e] = "over")
    /\ tasks' = [tasks EXCEPT ![e] = @ - 1]
    /\ UNCHANGED <<stage, bound, busy, timers, stray, hushed, sent, inbox, thread>>

\* The task of a command has posted it, and is answered, refused or timed out.
CommandEnds(e) ==
    /\ busy = Nobody /\ tasks[e] > 0
    /\ tasks' = [tasks EXCEPT ![e] = @ - 1]
    /\ UNCHANGED <<stage, bound, busy, timers, stray, hushed, sent, inbox, thread>>

\* runner.teardown_protocol and the first half of finish(): the protocol is unbound,
\* marked finished, and its own finish() runs.
Finish ==
    /\ busy = Nobody /\ bound # Nobody /\ stage[bound] = "live"
    /\ stage' = [stage EXCEPT ![bound] = "finishing"]
    /\ bound' = Nobody
    /\ busy' = bound
    /\ UNCHANGED <<work, inbox, thread>>

\* Faulty variant: what is in the air is left there.
ShutdownTimersOnly(e) ==
    /\ timers' = [timers EXCEPT ![e] = {}]
    /\ UNCHANGED tasks

\* provider.shutdown(), apart from _active: the timers it knows of and the tasks are
\* cancelled.
Shutdown(e) ==
    /\ timers' = [timers EXCEPT ![e] = {}]
    /\ tasks' = [tasks EXCEPT ![e] = 0]

\* The second half of finish(), after the protocol's own returned or raised.
FinishReturns(e) ==
    /\ busy = e /\ stage[e] = "finishing"
    /\ stage' = [stage EXCEPT ![e] = "over"]
    /\ busy' = Nobody
    /\ Shutdown(e)
    /\ hushed' = [hushed EXCEPT ![e] = {}]
    /\ UNCHANGED <<bound, stray, sent, inbox, thread>>

-----------------------------------------------------------------------------
(* The zenoh thread.                                                       *)

\* on_sample finds a protocol bound,
SampleSeen ==
    /\ thread = "idle" /\ bound # Nobody
    /\ thread' = "seen"
    /\ UNCHANGED <<stage, bound, busy, work, inbox>>

\* and reads the runner's encapsulator once more.  It may be another by now, or none:
\* then the read raises in the thread and the message is lost.
SampleDispatched ==
    /\ thread = "seen"
    /\ thread' = "idle"
    /\ IF bound = Nobody
       THEN UNCHANGED inbox
       ELSE inbox[bound] < MaxInbox /\ inbox' = [inbox EXCEPT ![bound] = @ + 1]
    /\ UNCHANGED <<stage, bound, busy, work>>

-----------------------------------------------------------------------------

ProtocolStep(e) ==
    \/ SendMobility(e) \/ SendMessage(e)
    \/ \E n \in Names : ScheduleTimer(e, n) \/ CancelTimer(e, n)

LoopStep(e) ==
    \/ Bootstrap(e) \/ HandlePacket(e) \/ CommandEnds(e) \/ FinishReturns(e)
    \/ \E n \in Names : TimerFires(e, n)

Next ==
    \/ Return \/ Deliver \/ Finish \/ SampleSeen \/ SampleDispatched
    \/ \E e \in Encs : ProtocolStep(e) \/ LoopStep(e)

Spec == Init /\ [][Next]_vars

\* Callbacks end, and the loop runs what is ready in the order it became so: a timer or a
\* packet waits for the callbacks before it and no longer.
Fairness ==
    /\ WF_vars(Return)
    /\ \A e \in Encs :
          /\ WF_vars(FinishReturns(e))
          /\ SF_vars(HandlePacket(e))
          /\ \A n \in Names : SF_vars(TimerFires(e, n))

FairSpec == Spec /\ Fairness

-----------------------------------------------------------------------------
(* A finished protocol.                                                    *)

\* A provider that was shut down holds no timer and no task, whatever late tasks of the
\* protocol ask of it and whatever stray timers fire.
OverHoldsNothing ==
    \A e \in Encs : stage[e] = "over" => timers[e] = {} /\ tasks[e] = 0

\* After finish() no timer, packet or sample reaches the protocol any more, no message
\* of it is handed to the backend, and no command of it leaves.
SilentAfterFinish ==
    [][\A e \in Encs : stage[e] = "over" =>
            /\ stage'[e] = "over" /\ busy' # e
            /\ (e \in sent' => e \in sent) /\ tasks'[e] = 0]_vars

Gone(e) == /\ timers[e] = {} /\ \A n \in Names : stray[e][n] = 0
           /\ tasks[e] = 0 /\ inbox[e] = 0

\* In the end nothing on the loop refers to a finished protocol: even the stray timers
\* that shutdown() could not cancel, and packets that were on their way.
FinishedLeavesNothing == \A e \in Encs : stage[e] = "over" ~> []Gone(e)

-----------------------------------------------------------------------------
(* Timers, against what IProvider promises of them.                        *)

Pending(e, n) ==
    IF stage[e] = "over" THEN 0
    ELSE stray[e][n] + (IF n \in timers[e] THEN 1 ELSE 0)

Promised(owners) == [e \in owners |-> [n \in Names |-> Pending(e, n)]]

Over == {e \in Encs : stage[e] = "over"}

Careful == INSTANCE TimerService WITH
    Owners <- Encs \ Careless, pending <- Promised(Encs \ Careless),
    hushed <- [e \in Encs \ Careless |-> hushed[e]], closed <- Over \ Careless

Every == INSTANCE TimerService WITH
    Owners <- Encs, pending <- Promised(Encs), closed <- Over

\* The timers of a protocol that schedules none while it is pending are what IProvider
\* says: each fires once unless it is cancelled, and nothing fires after a cancel or
\* after finish().
TimersAsDocumented == Careful!Spec

\* interface.py:57-58 says so of every timer: "If multiple timers with the same
\* identifier are scheduled, all of them are canceled."
AllTimersAsDocumented == Every!Spec

=============================================================================

--------------------------- MODULE MissionLifecycle ---------------------------
(***************************************************************************)
(* The mission manager of one drone (runner/mission.py) together with the  *)
(* parts of the runner it drives (runner/runner.py): the data-plane        *)
(* backend, the protocol's encapsulator, the telemetry loop and the        *)
(* return-to-launch task.                                                  *)
(*                                                                         *)
(* Everything runs on one asyncio loop, so a handler is atomic between two *)
(* awaits.  A request that awaits is therefore split exactly there: pc[c]  *)
(* names the await client c's request is suspended in and job[c] is the    *)
(* local context it carries across it.  What is read before an await and   *)
(* used after it is read in one action and used in another.                *)
(***************************************************************************)
EXTENDS Naturals, FiniteSets

CONSTANTS
    Clients,       \* control-API requests that can be in flight at once
    Transports,    \* backend signatures a mission can ask for
    NoTransport,   \* the signature of no backend
    MaxRuns, MaxStarts, MaxRestarts   \* bounds on the counters below

ASSUME TransportAssumption == NoTransport \notin Transports
ASSUME BoundsAssumption == MaxRuns \in Nat /\ MaxStarts \in Nat /\ MaxRestarts \in Nat

VARIABLES
    state,     \* MissionManager.state
    context,   \* MissionManager._context and _run_dir, set and cleared together
    lastRun,   \* MissionManager.run_id, kept after the run is finalized
    outcome,   \* the "outcome" in each run directory's RUN_INFO.json
    unsaved,   \* history: runs whose RUN_INFO.json could not be written the last time
    runs,      \* run directories created so far
    pc, job,   \* per client: the await it is suspended in, and its local context
    backend,   \* EmbeddedRunner._backend with its signature; alive: serve() runs
    bound,     \* EmbeddedRunner._encapsulator
    live,      \* encapsulators whose finish() has not run
    starts,    \* encapsulators created so far
    tele,      \* the telemetry loop: where it is, the frame and altitude it holds
    vehicle,   \* the altitude uav_api reports
    rtl,       \* the vehicle is flying a return to launch
    stationed, \* the run whose initial position the vehicle holds, 0 for none
    restarts   \* process restarts so far

manager == <<state, context, lastRun, outcome, unsaved, runs>>
requests == <<pc, job>>
protocols == <<bound, live, starts>>
flight == <<vehicle, rtl, stationed>>
vars == <<manager, requests, backend, protocols, tele, flight, restarts>>

States == {"idle", "loaded", "ready", "running", "returning"}
FinalOutcomes == {"completed", "stopped", "reset", "interrupted"}
Outcomes == {"absent", "deleted"} \cup (States \ {"idle"}) \cup FinalOutcomes
RunIds == 1 .. MaxRuns

LoadPCs == {"frame", "close", "bind", "unwind"}
SetupPCs == {"arm", "takeoff", "goto"}

\* run is 0 in a context that has not been committed.
Contexts == [run : 0 .. MaxRuns, pos : BOOLEAN, sig : Transports \cup {NoTransport}]
NoMission == [run |-> 0, pos |-> FALSE, sig |-> NoTransport]
NoBackend == [sig |-> NoTransport, alive |-> FALSE]
\* raised: the protocol's initialize() raised, and start failed.
Encapsulators == [id : 0 .. MaxStarts, run : 0 .. MaxRuns, raised : BOOLEAN]
NoProtocol == [id |-> 0, run |-> 0, raised |-> FALSE]
Asleep == [pc |-> "sleep", frame |-> 0, low |-> FALSE]

TypeOK ==
    /\ state \in States
    /\ context \in Contexts
    /\ lastRun \in 0 .. MaxRuns
    /\ outcome \in [RunIds -> Outcomes] /\ unsaved \subseteq 0 .. MaxRuns
    /\ runs \in 0 .. MaxRuns
    /\ pc \in [Clients -> {"none"} \cup LoadPCs \cup SetupPCs]
    /\ job \in [Clients -> Contexts]
    /\ backend \in [sig : Transports \cup {NoTransport}, alive : BOOLEAN]
    /\ bound \in Encapsulators
    /\ live \in SUBSET Encapsulators
    /\ starts \in 0 .. MaxStarts
    /\ tele \in [pc : {"sleep", "get", "got"}, frame : 0 .. MaxRuns, low : BOOLEAN]
    /\ vehicle \in {"ground", "low", "air"}
    /\ rtl \in BOOLEAN
    /\ stationed \in 0 .. MaxRuns
    /\ restarts \in 0 .. MaxRestarts

Init ==
    /\ state = "idle" /\ context = NoMission /\ lastRun = 0
    /\ outcome = [r \in RunIds |-> "absent"] /\ unsaved = {} /\ runs = 0
    /\ pc = [c \in Clients |-> "none"] /\ job = [c \in Clients |-> NoMission]
    /\ backend = NoBackend
    /\ bound = NoProtocol /\ live = {} /\ starts = 0
    /\ tele = Asleep
    /\ vehicle = "ground" /\ rtl = FALSE /\ stationed = 0
    /\ restarts = 0

-----------------------------------------------------------------------------
(* Steps shared by the handlers.                                            *)

Suspend(c, at, m) == /\ pc' = [pc EXCEPT ![c] = at]
                     /\ job' = [job EXCEPT ![c] = m]

Respond(c) == Suspend(c, "none", NoMission)

\* Faulty variant: the outcome file repeats the state instead of the given outcome.
WriteRunInfoState(o) ==
    IF context = NoMission
    THEN UNCHANGED <<outcome, unsaved>>
    ELSE /\ outcome[context.run] # "deleted"
         /\ outcome' = [outcome EXCEPT ![context.run] = state']
         /\ unsaved' = unsaved \ {context.run}

\* _write_run_info, when it returns: nothing is written when no run is open, and no
\* file goes into a directory that was removed.
WriteRunInfo(o) ==
    IF context = NoMission
    THEN UNCHANGED <<outcome, unsaved>>
    ELSE /\ outcome[context.run] # "deleted"
         /\ outcome' = [outcome EXCEPT ![context.run] = o]
         /\ unsaved' = unsaved \ {context.run}

\* _write_run_info, when write_text raises.  The file holds the outcome before, or is
\* cut short; the next write replaces either, so they are not told apart.
RunInfoRaises ==
    /\ context # NoMission
    /\ unsaved' = unsaved \cup {context.run}
    /\ UNCHANGED outcome

\* Where nothing but the answer depends on the write: the state is assigned already.
Record(o) == WriteRunInfo(o) \/ RunInfoRaises

\* Faulty variant: the run stays open after the handler closed it.
FinalizeNothing == UNCHANGED <<context, lastRun, runs>>

\* _finalize_run, for the handlers that close the run.
FinalizeRun == context' = NoMission /\ UNCHANGED <<lastRun, runs>>

\* Faulty variant: the run is closed before its outcome is written.
CloseUnwritten(o) == FinalizeRun /\ UNCHANGED <<outcome, unsaved>>

\* The end of a run: _write_run_info, then _finalize_run, which a write that raises
\* skips.
Close(o) == \/ WriteRunInfo(o) /\ FinalizeRun
            \/ RunInfoRaises /\ UNCHANGED <<context, lastRun, runs>>

\* Faulty variant: the encapsulator is unbound and not finished.
TeardownUnfinished == bound' = NoProtocol /\ UNCHANGED <<live, starts>>

\* Faulty variant: the encapsulator is finished and stays bound.
TeardownBound == live' = live \ {bound} /\ UNCHANGED <<bound, starts>>

\* teardown_protocol: unbind, then finish() the encapsulator that was bound.
TeardownProtocol == /\ bound' = NoProtocol
                    /\ live' = live \ {bound}
                    /\ UNCHANGED starts

\* The end of load: nothing awaits here, and the state is not checked again.
CommitLoad(c, m) ==
    /\ \/ /\ runs < MaxRuns
          /\ runs' = runs + 1
          /\ context' = [m EXCEPT !.run = runs + 1]
          /\ lastRun' = runs + 1
          /\ outcome' = [outcome EXCEPT ![runs + 1] = "loaded"]
          /\ state' = "loaded"
          /\ UNCHANGED unsaved
       \/ \* disk trouble: everything load set is cleared and the directory removed
          /\ context' = NoMission
          /\ lastRun' = 0
          /\ UNCHANGED <<state, outcome, unsaved, runs>>
       \/ \* the label is no file name: refused before anything is set
          UNCHANGED manager
    /\ Respond(c)

CreateBackend(c, m) == /\ backend' = [sig |-> m.sig, alive |-> TRUE]
                       /\ Suspend(c, "bind", m)
                       /\ UNCHANGED manager

\* Faulty variant: any running backend is reused, whatever its signature.
StartBackendAny(c, m) ==
    \/ backend # NoBackend /\ CommitLoad(c, m) /\ UNCHANGED backend
    \/ backend = NoBackend /\ CreateBackend(c, m)

\* start_backend up to its first await.
StartBackend(c, m) ==
    \/ backend.sig = m.sig /\ CommitLoad(c, m) /\ UNCHANGED backend
    \/ backend = NoBackend /\ CreateBackend(c, m)
    \/ /\ backend.sig \notin {m.sig, NoTransport}
       /\ backend' = NoBackend
       /\ Suspend(c, "close", m)
       /\ UNCHANGED manager

-----------------------------------------------------------------------------
(* POST /mission/load.                                                      *)

\* Faulty variant: a load is accepted whatever the state.
LoadBeginAnyState(c) ==
    /\ pc[c] = "none" /\ runs < MaxRuns
    /\ \E p \in BOOLEAN, t \in Transports :
          StartBackend(c, [run |-> 0, pos |-> p, sig |-> t])
    /\ UNCHANGED <<protocols, tele, flight, restarts>>

\* A mission that supplies both halves of its frame does not await resolve_frame.
LoadBegin(c) ==
    /\ pc[c] = "none" /\ state = "idle" /\ runs < MaxRuns
    /\ \E p \in BOOLEAN, t \in Transports, framed \in BOOLEAN :
          LET m == [run |-> 0, pos |-> p, sig |-> t]
          IN  IF framed THEN StartBackend(c, m)
              ELSE Suspend(c, "frame", m) /\ UNCHANGED <<manager, backend>>
    /\ UNCHANGED <<protocols, tele, flight, restarts>>

\* uav_api answered the frame lookup, or did not (502).
LoadFrame(c) ==
    /\ pc[c] = "frame"
    /\ \/ StartBackend(c, job[c])
       \/ Respond(c) /\ UNCHANGED <<manager, backend>>
    /\ UNCHANGED <<protocols, tele, flight, restarts>>

\* stop_backend returned: the fields are assigned whatever they hold by now.
LoadBackendClosed(c) ==
    /\ pc[c] = "close"
    /\ CreateBackend(c, job[c])
    /\ UNCHANGED <<protocols, tele, flight, restarts>>

\* The listener is ready before serve() died, or it died or timed out: then
\* stop_backend takes whatever backend the fields hold, and the load fails once
\* that is closed.  A serve() that another load's stop_backend cancelled ends this
\* load at once.
LoadBackendBound(c) ==
    /\ pc[c] = "bind"
    /\ \/ /\ backend.alive \/ backend = NoBackend
          /\ CommitLoad(c, job[c])
          /\ UNCHANGED backend
       \/ /\ backend' = NoBackend
          /\ IF backend = NoBackend THEN Respond(c) ELSE Suspend(c, "unwind", job[c])
          /\ UNCHANGED manager
       \/ /\ Clients # {c}
          /\ Respond(c)
          /\ UNCHANGED <<manager, backend>>
    /\ UNCHANGED <<protocols, tele, flight, restarts>>

LoadBackendUnwound(c) ==
    /\ pc[c] = "unwind"
    /\ Respond(c)
    /\ UNCHANGED <<manager, backend, protocols, tele, flight, restarts>>

-----------------------------------------------------------------------------
(* POST /mission/setup: arm, take off, fly to the initial position.         *)

SetupBegin(c) ==
    /\ pc[c] = "none" /\ state = "loaded"
    /\ context # NoMission /\ context.pos
    /\ Suspend(c, "arm", context)
    /\ UNCHANGED <<manager, backend, protocols, tele, flight, restarts>>

SetupArmed(c) ==
    /\ pc[c] = "arm"
    /\ Suspend(c, "takeoff", job[c])
    /\ UNCHANGED <<manager, backend, protocols, tele, flight, restarts>>

SetupAirborne(c) ==
    /\ pc[c] = "takeoff"
    /\ Suspend(c, "goto", job[c])
    /\ vehicle' = "air" /\ rtl' = FALSE /\ stationed' = 0
    /\ UNCHANGED <<manager, backend, protocols, tele, restarts>>

\* READY is assigned without looking at what state has become meanwhile.
SetupArrived(c) ==
    /\ pc[c] = "goto"
    /\ vehicle' = "air" /\ rtl' = FALSE /\ stationed' = job[c].run
    /\ state' = "ready"
    /\ Record("ready")
    /\ Respond(c)
    /\ UNCHANGED <<context, lastRun, runs, backend, protocols, tele, restarts>>

\* One of the three calls failed: the mission stays as it is, wherever the
\* vehicle has got to.
SetupFails(c) ==
    /\ pc[c] \in SetupPCs
    /\ Respond(c)
    /\ UNCHANGED <<manager, backend, protocols, tele, flight, restarts>>

-----------------------------------------------------------------------------
(* POST /mission/start, /mission/stop, /mission/reset, DELETE /runs/{id}:   *)
(* none of these suspends.                                                  *)

\* Faulty variant: a mission may start without its setup.
StartUnprepared(c) ==
    /\ pc[c] = "none" /\ state \in {"loaded", "ready"}
    /\ context # NoMission /\ backend # NoBackend /\ starts < MaxStarts
    /\ starts' = starts + 1
    /\ bound' = [id |-> starts + 1, run |-> context.run, raised |-> FALSE]
    /\ live' = live \cup {bound'}
    /\ state' = "running" /\ Record("running")
    /\ UNCHANGED <<context, lastRun, runs, requests, backend, tele, flight, restarts>>

\* The encapsulator is bound before initialize() runs, so an initialize() that
\* raises leaves it bound and live while the state stays READY; the next start
\* binds another, and nobody finishes the first.
Start(c) ==
    /\ pc[c] = "none" /\ state = "ready"
    /\ context # NoMission /\ backend # NoBackend /\ starts < MaxStarts
    /\ starts' = starts + 1
    /\ bound' \in [id : {starts + 1}, run : {context.run}, raised : BOOLEAN]
    /\ live' = live \cup {bound'}
    /\ IF bound'.raised THEN UNCHANGED <<state, outcome, unsaved>>
                        ELSE state' = "running" /\ Record("running")
    /\ UNCHANGED <<context, lastRun, runs, requests, backend, tele, flight, restarts>>

StopFlying(c) ==
    /\ pc[c] = "none" /\ state \in {"running", "ready"}
    /\ TeardownProtocol
    /\ rtl' = TRUE
    /\ state' = "returning"
    /\ Record("returning")
    /\ UNCHANGED <<context, lastRun, runs, requests, backend, tele, vehicle,
                   stationed, restarts>>

StopLoaded(c) ==
    /\ pc[c] = "none" /\ state = "loaded"
    /\ TeardownProtocol
    /\ state' = "idle"
    /\ Close("stopped")
    /\ UNCHANGED <<requests, backend, tele, flight, restarts>>

Reset(c) ==
    /\ pc[c] = "none" /\ state # "idle"
    /\ TeardownProtocol
    /\ state' = "idle"
    /\ Close("reset")
    /\ UNCHANGED <<requests, backend, tele, flight, restarts>>

\* Faulty variant: the run in progress may be deleted.
DeleteAnyRun(c) ==
    /\ pc[c] = "none"
    /\ \E r \in RunIds :
          /\ outcome[r] \notin {"absent", "deleted"}
          /\ outcome' = [outcome EXCEPT ![r] = "deleted"]
    /\ UNCHANGED <<state, context, lastRun, unsaved, runs, requests, backend, protocols,
                   tele, flight, restarts>>

DeleteRun(c) ==
    /\ pc[c] = "none"
    /\ \E r \in RunIds :
          /\ outcome[r] \notin {"absent", "deleted"}
          /\ ~(r = lastRun /\ state # "idle")
          /\ outcome' = [outcome EXCEPT ![r] = "deleted"]
    /\ UNCHANGED <<state, context, lastRun, unsaved, runs, requests, backend, protocols,
                   tele, flight, restarts>>

-----------------------------------------------------------------------------
(* The telemetry loop: the frame is read before the GET, the encapsulator   *)
(* and the mission state after it.                                          *)

TelemetryPoll ==
    /\ tele.pc = "sleep"
    /\ tele' = [pc |-> "get", frame |-> context.run, low |-> FALSE]
    /\ UNCHANGED <<manager, requests, backend, protocols, flight, restarts>>

\* uav_api takes the sample somewhere between the request and the answer.
TelemetrySample ==
    /\ tele.pc = "get"
    /\ tele' = [tele EXCEPT !.pc = "got", !.low = vehicle # "air"]
    /\ UNCHANGED <<manager, requests, backend, protocols, flight, restarts>>

TelemetryFails ==
    /\ tele.pc = "get"
    /\ tele' = Asleep
    /\ UNCHANGED <<manager, requests, backend, protocols, flight, restarts>>

\* Faulty variant: the landing check is made only while a protocol is bound.
TelemetryDeliverBound ==
    /\ tele.pc = "got"
    /\ tele' = Asleep
    /\ IF state = "returning" /\ tele.low /\ bound # NoProtocol
       THEN state' = "idle" /\ Close("completed")
       ELSE UNCHANGED manager
    /\ UNCHANGED <<requests, backend, protocols, flight, restarts>>

\* Hand the sample to the bound protocol; a protocol that raises skips the
\* landing check, which calls note_landed.  The loop survives whatever raises.
TelemetryDeliver ==
    /\ tele.pc = "got"
    /\ tele' = Asleep
    /\ \/ /\ state = "returning" /\ tele.low
          /\ state' = "idle"
          /\ Close("completed")
       \/ /\ \/ state # "returning" \/ ~tele.low
             \/ bound # NoProtocol /\ tele.frame # 0
          /\ UNCHANGED manager
    /\ UNCHANGED <<requests, backend, protocols, flight, restarts>>

-----------------------------------------------------------------------------
(* Around the service: the vehicle behind uav_api, the listener, the        *)
(* protocols and the process.                                               *)

\* A live protocol commands the vehicle, which leaves any other flight it was on.
ProtocolMoves ==
    /\ live # {} /\ vehicle # "ground"
    /\ vehicle' \in {"low", "air"}
    /\ rtl' = FALSE /\ stationed' = 0
    /\ UNCHANGED <<manager, requests, backend, protocols, tele, restarts>>

ReturnDescends ==
    /\ rtl /\ vehicle = "air"
    /\ vehicle' = "low" /\ stationed' = 0
    /\ UNCHANGED <<rtl, manager, requests, backend, protocols, tele, restarts>>

ReturnLands ==
    /\ rtl /\ vehicle # "air"
    /\ vehicle' = "ground" /\ rtl' = FALSE /\ stationed' = 0
    /\ UNCHANGED <<manager, requests, backend, protocols, tele, restarts>>

\* /command/rtl failed: logged, and nothing else is told.
ReturnRefused ==
    /\ rtl
    /\ rtl' = FALSE
    /\ UNCHANGED <<vehicle, stationed, manager, requests, backend, protocols, tele, restarts>>

\* serve() ended on its own: only logged, the fields stay set.
BackendDies ==
    /\ backend.alive
    /\ backend' = [backend EXCEPT !.alive = FALSE]
    /\ UNCHANGED <<manager, requests, protocols, tele, flight, restarts>>

\* The process ends -- in order, or without running shutdown -- and boots again.
Restart ==
    /\ restarts < MaxRestarts
    /\ restarts' = restarts + 1
    /\ state' = "idle" /\ context' = NoMission /\ lastRun' = 0
    /\ \/ state # "idle" /\ Record("interrupted")
       \/ UNCHANGED <<outcome, unsaved>>
    /\ pc' = [c \in Clients |-> "none"] /\ job' = [c \in Clients |-> NoMission]
    /\ backend' = NoBackend /\ bound' = NoProtocol /\ live' = {}
    /\ tele' = Asleep
    /\ UNCHANGED <<runs, starts, flight>>

-----------------------------------------------------------------------------
Load(c) == \/ LoadBegin(c) \/ LoadFrame(c) \/ LoadBackendClosed(c)
           \/ LoadBackendBound(c) \/ LoadBackendUnwound(c)

Setup(c) == \/ SetupBegin(c) \/ SetupArmed(c) \/ SetupAirborne(c)
            \/ SetupArrived(c) \/ SetupFails(c)

Request(c) == \/ Load(c) \/ Setup(c) \/ Start(c) \/ StopFlying(c) \/ StopLoaded(c)
              \/ Reset(c) \/ DeleteRun(c)

Telemetry == TelemetryPoll \/ TelemetrySample \/ TelemetryFails \/ TelemetryDeliver

Surroundings == \/ ProtocolMoves \/ ReturnDescends \/ ReturnLands \/ ReturnRefused
                \/ BackendDies \/ Restart

Next == (\E c \in Clients : Request(c)) \/ Telemetry \/ Surroundings

Spec == Init /\ [][Next]_vars

\* The telemetry loop retries for ever, uav_api answers it again and again, and
\* a vehicle that accepted a return keeps flying it.  No request need ever come.
Fairness == /\ WF_vars(TelemetryPoll) /\ WF_vars(TelemetryDeliver)
            /\ SF_vars(TelemetrySample)
            /\ WF_vars(ReturnDescends) /\ WF_vars(ReturnLands)

FairSpec == Spec /\ Fairness

-----------------------------------------------------------------------------
(* What holds however many requests are in flight.                          *)

\* While the service is idle or the vehicle is returning no protocol is bound, so
\* nothing delivers packets or telemetry to one; and an idle service has no mission
\* open ("or None while idle", runner/mission.py:303), unless the disk refused the
\* outcome of the last.  A load, a setup or a stop resuming out of turn must not
\* break it.
QuietWhenIdle ==
    /\ state \in {"idle", "returning"} => bound = NoProtocol
    /\ state = "idle" => context = NoMission \/ context.run \in unsaved

\* The RUN_INFO.json of the open run says what the state machine says, and its
\* directory is there, as soon as the last write of it succeeded: no write reaches
\* another run, no delete takes this one.
RunInfoAgrees ==
    context # NoMission /\ context.run \notin unsaved => outcome[context.run] = state

\* The outcome of a run that was closed is never rewritten by a later step (a
\* setup resuming late, the next mission): only DELETE removes the directory.
OutcomesAreFinal ==
    [][\A r \in RunIds : outcome[r] \in FinalOutcomes =>
                              outcome'[r] \in {outcome[r], "deleted"}]_vars

-----------------------------------------------------------------------------
(* What a single operator, who waits for each answer, may rely on.          *)

\* A protocol whose start failed is alive: it was never finished, and may act.
Stray == \E e \in live : e.raised

\* The service follows the documented diagram: one mission from load to idle, its
\* protocol begun at its initial position and installed in RUNNING alone -- as long
\* as no start has failed, which the diagram says nothing of.
Diagram == INSTANCE MissionDiagram
               WITH st <- state,
                    run <- IF state = "idle" THEN 0 ELSE context.run,
                    protocol <- IF bound.raised THEN 0 ELSE bound.run,
                    at <- stationed, stray <- Stray
FollowsDiagram == Diagram!Spec

\* A protocol begins only with its drone at the initial position of its mission
\* ("fleet coordination needs every drone at its initial position before any
\* protocol begins", runner/mission.py:13-14), unless one whose start failed is
\* still alive, and may have moved it.
StartsAtInitialPosition ==
    [][state # "running" /\ state' = "running" => stationed = context.run \/ Stray]_vars

\* Outside READY and RUNNING no protocol is alive that was started: none can command
\* the vehicle while it returns, or once the next mission is loaded.  "A stopped
\* protocol can no longer command the vehicle or send messages" (README.md:196-197)
\* is not true of one whose initialize() raised and that another start replaced
\* before the stop: it alone is excepted.
StoppedProtocolIsSilent ==
    state \in {"idle", "loaded", "returning"} => \A e \in live : e.raised

\* Every run directory but the open one ends with a final outcome, but for those the
\* disk refused it for; at most one more is left behind by each death of the process.
NoAbandonedRun ==
    Cardinality({r \in 1 .. runs :
                    /\ outcome[r] \notin FinalOutcomes \cup {"deleted"}
                    /\ r # context.run /\ r \notin unsaved}) <= restarts

\* The data plane that is up is the one the mission in progress asked for, whatever
\* became of loads before it.
DataPlaneOfMission == state # "idle" => backend.sig = context.sig

\* A stopped mission gets back to idle by itself, unless the return itself was
\* refused and left the vehicle in the air.
ReturnCompletes ==
    state = "returning" ~> (state # "returning" \/ (~rtl /\ vehicle = "air"))

=============================================================================

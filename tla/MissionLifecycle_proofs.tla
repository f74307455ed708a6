------------------------ MODULE MissionLifecycle_proofs ------------------------
(***************************************************************************)
(* Theorems about the mission manager, for any set of clients, any number  *)
(* of runs, starts and restarts; then for one client, who waits for each   *)
(* answer.  Protocols may raise and writes may fail throughout.            *)
(***************************************************************************)
EXTENDS MissionLifecycle, FiniteSetTheorems, TLAPS

(* Types.                                                                   *)

TeleTypes == [pc : {"sleep", "get", "got"}, frame : 0 .. MaxRuns, low : BOOLEAN]

\* What the service starts, and restarts, with.
LEMMA StartValues ==
    /\ NoMission \in Contexts /\ NoProtocol \in Encapsulators /\ Asleep \in TeleTypes
    /\ NoBackend \in [sig : Transports \cup {NoTransport}, alive : BOOLEAN]
    /\ 0 \in 0 .. MaxRuns /\ 0 \in 0 .. MaxStarts /\ 0 \in 0 .. MaxRestarts
  BY BoundsAssumption DEF NoMission, Contexts, NoProtocol, Encapsulators, Asleep, TeleTypes,
                          NoBackend

LEMMA RespondType ==
    ASSUME TypeOK, NEW c \in Clients, Respond(c)
    PROVE  /\ pc' \in [Clients -> {"none"} \cup LoadPCs \cup SetupPCs]
           /\ job' \in [Clients -> Contexts]
  <1>1. NoMission \in Contexts
    BY BoundsAssumption DEF NoMission, Contexts
  <1> QED BY <1>1 DEF Respond, Suspend, TypeOK

LEMMA SuspendType ==
    ASSUME TypeOK, NEW c \in Clients, NEW m \in Contexts,
           NEW at \in LoadPCs \cup SetupPCs, Suspend(c, at, m)
    PROVE  /\ pc' \in [Clients -> {"none"} \cup LoadPCs \cup SetupPCs]
           /\ job' \in [Clients -> Contexts]
  BY DEF Suspend, TypeOK

\* What is written to the open run's file, or to none, is an outcome.
LEMMA WriteType ==
    ASSUME TypeOK, NEW o \in Outcomes, WriteRunInfo(o)
    PROVE  outcome' \in [RunIds -> Outcomes] /\ unsaved' \subseteq 0 .. MaxRuns
  BY DEF WriteRunInfo, TypeOK

LEMMA RecordType ==
    ASSUME TypeOK, NEW o \in Outcomes, Record(o)
    PROVE  outcome' \in [RunIds -> Outcomes] /\ unsaved' \subseteq 0 .. MaxRuns
  BY WriteType DEF Record, RunInfoRaises, TypeOK, Contexts

LEMMA FinalizeType ==
    ASSUME TypeOK, FinalizeRun
    PROVE  context' \in Contexts /\ lastRun' \in 0 .. MaxRuns /\ runs' \in 0 .. MaxRuns
  BY BoundsAssumption DEF FinalizeRun, NoMission, Contexts, TypeOK

LEMMA CloseType ==
    ASSUME TypeOK, NEW o \in Outcomes, Close(o)
    PROVE  /\ outcome' \in [RunIds -> Outcomes] /\ unsaved' \subseteq 0 .. MaxRuns
           /\ context' \in Contexts /\ lastRun' \in 0 .. MaxRuns /\ runs' \in 0 .. MaxRuns
  BY WriteType, FinalizeType DEF Close, RunInfoRaises, TypeOK, Contexts

LEMMA TeardownType ==
    ASSUME TypeOK, TeardownProtocol
    PROVE  /\ bound' \in Encapsulators /\ live' \in SUBSET Encapsulators
           /\ starts' \in 0 .. MaxStarts
  BY BoundsAssumption DEF TeardownProtocol, NoProtocol, Encapsulators, TypeOK

LEMMA OutcomeNames ==
    {"absent", "deleted", "loaded", "ready", "running", "returning", "completed",
     "stopped", "reset", "interrupted"} \subseteq Outcomes
  BY DEF Outcomes, States, FinalOutcomes

\* The manager's variables and the requests', as TypeOK has them.
ManagerType == /\ state \in States /\ context \in Contexts /\ lastRun \in 0 .. MaxRuns
               /\ outcome \in [RunIds -> Outcomes] /\ unsaved \subseteq 0 .. MaxRuns
               /\ runs \in 0 .. MaxRuns
RequestsType == /\ pc \in [Clients -> {"none"} \cup LoadPCs \cup SetupPCs]
                /\ job \in [Clients -> Contexts]
BackendType == backend \in [sig : Transports \cup {NoTransport}, alive : BOOLEAN]

LEMMA CommitType ==
    ASSUME TypeOK, NEW c \in Clients, NEW m \in Contexts, CommitLoad(c, m)
    PROVE  ManagerType' /\ RequestsType'
  <1>1. RequestsType'
    BY RespondType DEF CommitLoad, RequestsType
  <1>2. CASE /\ runs < MaxRuns /\ runs' = runs + 1
             /\ context' = [m EXCEPT !.run = runs + 1] /\ lastRun' = runs + 1
             /\ outcome' = [outcome EXCEPT ![runs + 1] = "loaded"] /\ state' = "loaded"
             /\ UNCHANGED unsaved
    <2>1. runs + 1 \in 0 .. MaxRuns
      BY <1>2, BoundsAssumption DEF TypeOK
    <2> QED BY <1>1, <1>2, <2>1, OutcomeNames DEF ManagerType, TypeOK, Contexts, States
  <1>3. CASE /\ context' = NoMission /\ lastRun' = 0
             /\ UNCHANGED <<state, outcome, unsaved, runs>>
    BY <1>1, <1>3, BoundsAssumption DEF ManagerType, TypeOK, Contexts, NoMission
  <1>4. CASE UNCHANGED manager
    BY <1>1, <1>4 DEF manager, ManagerType, TypeOK
  <1> QED BY <1>2, <1>3, <1>4 DEF CommitLoad

LEMMA BackendSignature ==
    ASSUME TypeOK, NEW c \in Clients, NEW m \in Contexts, StartBackend(c, m) \/ CreateBackend(c, m)
    PROVE  ManagerType' /\ RequestsType' /\ BackendType'
  <1>1. CASE CreateBackend(c, m)
    <2>1. RequestsType'
      BY <1>1, SuspendType DEF CreateBackend, RequestsType, LoadPCs
    <2> QED BY <1>1, <2>1 DEF CreateBackend, manager, ManagerType, BackendType, TypeOK, Contexts
  <1>2. CASE CommitLoad(c, m) /\ UNCHANGED backend
    BY <1>2, CommitType DEF BackendType, TypeOK
  <1>3. CASE backend' = NoBackend /\ Suspend(c, "close", m) /\ UNCHANGED manager
    <2>1. RequestsType'
      BY <1>3, SuspendType DEF RequestsType, LoadPCs
    <2> QED BY <1>3, <2>1 DEF NoBackend, manager, ManagerType, BackendType, TypeOK
  <1> QED BY <1>1, <1>2, <1>3 DEF StartBackend

LEMMA LoadType ==
    ASSUME TypeOK, NEW c \in Clients, Load(c)
    PROVE  TypeOK'
  <1>1. job[c] \in Contexts
    BY DEF TypeOK
  <1>2. ManagerType' /\ RequestsType' /\ BackendType'
    <2>1. CASE LoadBegin(c)
      <3>1. PICK p \in BOOLEAN, t \in Transports, framed \in BOOLEAN :
              LET m == [run |-> 0, pos |-> p, sig |-> t]
              IN  IF framed THEN StartBackend(c, m)
                  ELSE Suspend(c, "frame", m) /\ UNCHANGED <<manager, backend>>
        BY <2>1 DEF LoadBegin
      <3> DEFINE m == [run |-> 0, pos |-> p, sig |-> t]
      <3>2. m \in Contexts
        BY BoundsAssumption DEF Contexts
      <3>3. CASE StartBackend(c, m)
        BY <3>2, <3>3, BackendSignature
      <3>4. CASE Suspend(c, "frame", m) /\ UNCHANGED <<manager, backend>>
        <4>1. RequestsType'
          BY <3>2, <3>4, SuspendType DEF RequestsType, LoadPCs
        <4> QED BY <3>4, <4>1 DEF manager, ManagerType, BackendType, TypeOK
      <3> QED BY <3>1, <3>3, <3>4
    <2>2. CASE LoadFrame(c)
      <3>1. CASE StartBackend(c, job[c])
        BY <1>1, <3>1, BackendSignature
      <3>2. CASE Respond(c) /\ UNCHANGED <<manager, backend>>
        BY <3>2, RespondType DEF manager, ManagerType, RequestsType, BackendType, TypeOK
      <3> QED BY <2>2, <3>1, <3>2 DEF LoadFrame
    <2>3. CASE LoadBackendClosed(c)
      BY <1>1, <2>3, BackendSignature DEF LoadBackendClosed
    <2>4. CASE LoadBackendBound(c)
      <3>1. CASE CommitLoad(c, job[c]) /\ UNCHANGED backend
        BY <1>1, <3>1, CommitType DEF BackendType, TypeOK
      <3>2. CASE /\ backend' = NoBackend
                 /\ Respond(c) \/ Suspend(c, "unwind", job[c])
                 /\ UNCHANGED manager
        <4>1. RequestsType'
          BY <1>1, <3>2, SuspendType, RespondType DEF RequestsType, LoadPCs
        <4> QED BY <3>2, <4>1 DEF NoBackend, manager, ManagerType, BackendType, TypeOK
      <3>3. CASE Respond(c) /\ UNCHANGED <<manager, backend>>
        BY <3>3, RespondType DEF manager, ManagerType, RequestsType, BackendType, TypeOK
      <3> QED BY <2>4, <3>1, <3>2, <3>3 DEF LoadBackendBound
    <2>5. CASE LoadBackendUnwound(c)
      BY <2>5, RespondType
         DEF LoadBackendUnwound, manager, ManagerType, RequestsType, BackendType, TypeOK
    <2> QED BY <2>1, <2>2, <2>3, <2>4, <2>5 DEF Load
  <1>3. UNCHANGED <<protocols, tele, flight, restarts>>
    BY DEF Load, LoadBegin, LoadFrame, LoadBackendClosed, LoadBackendBound,
           LoadBackendUnwound
  <1> QED BY <1>2, <1>3
          DEF TypeOK, ManagerType, RequestsType, BackendType, protocols, flight

LEMMA SetupType ==
    ASSUME TypeOK, NEW c \in Clients, Setup(c)
    PROVE  TypeOK'
  <1>1. /\ context \in Contexts /\ job[c] \in Contexts
        /\ job[c].run \in 0 .. MaxRuns /\ 0 \in 0 .. MaxRuns
    BY BoundsAssumption DEF TypeOK, Contexts
  <1>2. RequestsType'
    <2>1. \/ Respond(c)
          \/ \E m \in {context, job[c]}, at \in SetupPCs : Suspend(c, at, m)
      BY DEF Setup, SetupBegin, SetupArmed, SetupAirborne, SetupArrived, SetupFails, SetupPCs
    <2> QED BY <1>1, <2>1, RespondType, SuspendType DEF RequestsType
  <1>3. UNCHANGED <<context, lastRun, runs, backend, protocols, tele, restarts>>
    BY DEF Setup, SetupBegin, SetupArmed, SetupAirborne, SetupArrived, SetupFails, manager
  <1>4. /\ state' \in States
        /\ outcome' \in [RunIds -> Outcomes] /\ unsaved' \subseteq 0 .. MaxRuns
    <2>1. CASE UNCHANGED <<state, outcome, unsaved>>
      BY <2>1 DEF TypeOK
    <2>2. CASE SetupArrived(c)
      BY <2>2, RecordType, OutcomeNames DEF SetupArrived, States
    <2> QED BY <2>1, <2>2
            DEF Setup, SetupBegin, SetupArmed, SetupAirborne, SetupFails, manager
  <1>5. vehicle' \in {"ground", "low", "air"} /\ rtl' \in BOOLEAN /\ stationed' \in 0 .. MaxRuns
    <2>1. CASE UNCHANGED flight
      BY <2>1 DEF TypeOK, flight
    <2>2. CASE vehicle' = "air" /\ rtl' = FALSE /\ stationed' \in {0, job[c].run}
      BY <1>1, <2>2
    <2> QED BY <2>1, <2>2
            DEF Setup, SetupBegin, SetupArmed, SetupAirborne, SetupArrived, SetupFails
  <1> QED BY <1>2, <1>3, <1>4, <1>5 DEF TypeOK, RequestsType, protocols

LEMMA OperationType ==
    ASSUME TypeOK, NEW c \in Clients,
           Start(c) \/ StopFlying(c) \/ StopLoaded(c) \/ Reset(c) \/ DeleteRun(c)
    PROVE  TypeOK'
  <1>1. CASE Start(c)
    <2>1. bound' \in Encapsulators /\ starts + 1 \in 0 .. MaxStarts
      BY <1>1, BoundsAssumption DEF Start, TypeOK, Contexts, Encapsulators
    <2>2. /\ bound' \in Encapsulators /\ live' \in SUBSET Encapsulators
          /\ starts' \in 0 .. MaxStarts
      BY <1>1, <2>1 DEF Start, TypeOK
    <2>3. /\ state' \in States
          /\ outcome' \in [RunIds -> Outcomes] /\ unsaved' \subseteq 0 .. MaxRuns
      <3>1. CASE state' = "running" /\ Record("running")
        BY <3>1, RecordType, OutcomeNames DEF States
      <3>2. CASE UNCHANGED <<state, outcome, unsaved>>
        BY <3>2 DEF TypeOK
      <3> QED BY <1>1, <3>1, <3>2 DEF Start
    <2> QED BY <1>1, <2>2, <2>3 DEF Start, TypeOK, requests, flight
  <1>2. CASE StopFlying(c)
    <2>1. outcome' \in [RunIds -> Outcomes] /\ unsaved' \subseteq 0 .. MaxRuns
      BY <1>2, RecordType, OutcomeNames DEF StopFlying
    <2>2. /\ bound' \in Encapsulators /\ live' \in SUBSET Encapsulators
          /\ starts' \in 0 .. MaxStarts
      BY <1>2, TeardownType DEF StopFlying
    <2> QED BY <1>2, <2>1, <2>2 DEF StopFlying, TypeOK, States, requests
  <1>3. CASE StopLoaded(c) \/ Reset(c)
    <2>1. /\ outcome' \in [RunIds -> Outcomes] /\ unsaved' \subseteq 0 .. MaxRuns
          /\ context' \in Contexts /\ lastRun' \in 0 .. MaxRuns /\ runs' \in 0 .. MaxRuns
      BY <1>3, CloseType, OutcomeNames DEF StopLoaded, Reset
    <2>2. /\ bound' \in Encapsulators /\ live' \in SUBSET Encapsulators
          /\ starts' \in 0 .. MaxStarts
      BY <1>3, TeardownType DEF StopLoaded, Reset
    <2> QED BY <1>3, <2>1, <2>2 DEF StopLoaded, Reset, TypeOK, States, requests, flight
  <1>4. CASE DeleteRun(c)
    <2>1. outcome' \in [RunIds -> Outcomes]
      BY <1>4, OutcomeNames DEF DeleteRun, TypeOK
    <2> QED BY <1>4, <2>1 DEF DeleteRun, TypeOK, requests, protocols, flight
  <1> QED BY <1>1, <1>2, <1>3, <1>4

LEMMA TelemetryType ==
    ASSUME TypeOK, Telemetry
    PROVE  TypeOK'
  <1>1. tele' \in TeleTypes
    <2>1. CASE TelemetryPoll
      BY <2>1 DEF TelemetryPoll, TypeOK, Contexts, TeleTypes
    <2>2. CASE TelemetrySample
      BY <2>2 DEF TelemetrySample, TypeOK, TeleTypes
    <2>3. CASE TelemetryFails \/ TelemetryDeliver
      BY <2>3, StartValues DEF TelemetryFails, TelemetryDeliver
    <2> QED BY <2>1, <2>2, <2>3 DEF Telemetry
  <1>2. ManagerType'
    <2>1. CASE UNCHANGED manager
      BY <2>1 DEF manager, ManagerType, TypeOK
    <2>2. CASE state' = "idle" /\ Close("completed")
      BY <2>2, CloseType, OutcomeNames DEF ManagerType, States
    <2> QED BY <2>1, <2>2
            DEF Telemetry, TelemetryPoll, TelemetrySample, TelemetryFails, TelemetryDeliver
  <1>3. UNCHANGED <<requests, backend, protocols, flight, restarts>>
    BY DEF Telemetry, TelemetryPoll, TelemetrySample, TelemetryFails, TelemetryDeliver
  <1> QED BY <1>1, <1>2, <1>3
          DEF TypeOK, TeleTypes, ManagerType, requests, protocols, flight

LEMMA SurroundingsType ==
    ASSUME TypeOK, Surroundings
    PROVE  TypeOK'
  <1>1. CASE ProtocolMoves \/ ReturnDescends \/ ReturnLands \/ ReturnRefused
    <2>1. /\ vehicle' \in {"ground", "low", "air"} /\ rtl' \in BOOLEAN
          /\ stationed' \in 0 .. MaxRuns
      BY <1>1, StartValues
         DEF ProtocolMoves, ReturnDescends, ReturnLands, ReturnRefused, TypeOK
    <2>2. UNCHANGED <<manager, requests, backend, protocols, tele, restarts>>
      BY <1>1 DEF ProtocolMoves, ReturnDescends, ReturnLands, ReturnRefused
    <2> QED BY <2>1, <2>2 DEF TypeOK, manager, requests, protocols
  <1>2. CASE BackendDies
    BY <1>2 DEF BackendDies, TypeOK, manager, requests, protocols, flight
  <1>3. CASE Restart
    <2>1. outcome' \in [RunIds -> Outcomes] /\ unsaved' \subseteq 0 .. MaxRuns
      <3>1. CASE Record("interrupted")
        BY <3>1, RecordType, OutcomeNames
      <3>2. CASE UNCHANGED <<outcome, unsaved>>
        BY <3>2 DEF TypeOK
      <3> QED BY <1>3, <3>1, <3>2 DEF Restart
    <2>2. restarts' \in 0 .. MaxRestarts
      BY <1>3, BoundsAssumption DEF Restart, TypeOK
    <2>3. RequestsType'
      BY <1>3, StartValues DEF Restart, RequestsType
    <2> QED BY <1>3, <2>1, <2>2, <2>3, StartValues
            DEF Restart, TypeOK, States, TeleTypes, RequestsType, flight
  <1> QED BY <1>1, <1>2, <1>3 DEF Surroundings

LEMMA TypeInit == Init => TypeOK
  <1> SUFFICES ASSUME Init PROVE TypeOK
    OBVIOUS
  <1>1. outcome \in [RunIds -> Outcomes] /\ unsaved \subseteq 0 .. MaxRuns
    BY OutcomeNames DEF Init
  <1>2. RequestsType
    BY StartValues DEF Init, RequestsType
  <1>3. live \in SUBSET Encapsulators /\ vehicle \in {"ground", "low", "air"} /\ rtl \in BOOLEAN
    BY DEF Init
  <1>4. state \in States
    BY DEF Init, States
  <1> QED BY <1>1, <1>2, <1>3, <1>4, StartValues DEF Init, TypeOK, TeleTypes, RequestsType

LEMMA TypeNext == TypeOK /\ [Next]_vars => TypeOK'
  <1> SUFFICES ASSUME TypeOK, [Next]_vars PROVE TypeOK'
    OBVIOUS
  <1>1. CASE UNCHANGED vars
    BY <1>1 DEF vars, manager, requests, protocols, flight, TypeOK
  <1>2. ASSUME NEW c \in Clients, Request(c) PROVE TypeOK'
    BY <1>2, LoadType, SetupType, OperationType DEF Request
  <1> QED BY <1>1, <1>2, TelemetryType, SurroundingsType DEF Next

-----------------------------------------------------------------------------
(* Any number of requests in flight.                                        *)

\* The open run is one that was created, the last one at that.  Its file says what
\* the state machine says, or was not written, and holds no final outcome yet.
OpenRun ==
    context # NoMission => /\ context.run \in 1 .. runs
                           /\ lastRun = context.run
                           /\ outcome[context.run] \notin FinalOutcomes
                           /\ \/ outcome[context.run] = state
                              \/ context.run \in unsaved

\* Nothing was written yet for a run that was not created.
UnusedRuns == \A r \in RunIds : r > runs => outcome[r] = "absent"

MissionInv == TypeOK /\ QuietWhenIdle /\ OpenRun /\ UnusedRuns

\* What a step may do to the files: write the state, or an outcome, to the open
\* run; create the next run; or delete a run.
FilesStep ==
    \A r \in RunIds : outcome[r] \in FinalOutcomes => outcome'[r] \in {outcome[r], "deleted"}

\* No step of the state machine is an outcome, and no outcome is a state.
LEMMA StatesAreNotFinal ==
    ASSUME NEW x \in States PROVE x \notin FinalOutcomes /\ x # "absent" /\ x # "deleted"
  BY DEF States, FinalOutcomes

\* Writing to the open run, or failing to, leaves alone the files of closed and of
\* unused runs.
LEMMA WriteKeeps ==
    ASSUME MissionInv, NEW o, Record(o), runs' = runs
    PROVE  FilesStep /\ UnusedRuns'
  <1>1. CASE outcome' = outcome
    BY <1>1 DEF FilesStep, MissionInv, UnusedRuns
  <1>2. CASE context # NoMission /\ outcome' = [outcome EXCEPT ![context.run] = o]
    <2>1. context.run \in 1 .. runs /\ outcome[context.run] \notin FinalOutcomes
      BY <1>2 DEF MissionInv, OpenRun
    <2>2. FilesStep
      BY <1>2, <2>1 DEF FilesStep, MissionInv, TypeOK
    <2>3. UnusedRuns'
      BY <1>2, <2>1, BoundsAssumption DEF MissionInv, TypeOK, UnusedRuns, RunIds
    <2> QED BY <2>2, <2>3
  <1> QED BY <1>1, <1>2 DEF Record, WriteRunInfo, RunInfoRaises

\* A step that writes its new state to the open run keeps OpenRun, and so does one
\* that fails to.
LEMMA WriteState ==
    ASSUME MissionInv, NEW o \in States, Record(o), state' = o,
           UNCHANGED <<context, lastRun, runs>>
    PROVE  OpenRun'
  <1>1. CASE WriteRunInfo(o)
    <2> SUFFICES ASSUME context # NoMission
                 PROVE  OpenRun'
      BY DEF OpenRun
    <2>1. context.run \in 1 .. runs /\ lastRun = context.run /\ context.run \in RunIds
      BY BoundsAssumption DEF MissionInv, TypeOK, OpenRun, RunIds
    <2>2. outcome' = [outcome EXCEPT ![context.run] = o]
      BY <1>1 DEF WriteRunInfo
    <2>3. outcome'[context.run] = o
      BY <2>1, <2>2 DEF MissionInv, TypeOK
    <2> QED BY <2>1, <2>3, StatesAreNotFinal DEF OpenRun
  <1>2. CASE RunInfoRaises
    BY <1>2 DEF RunInfoRaises, MissionInv, OpenRun
  <1> QED BY <1>1, <1>2 DEF Record

\* A step that ends the run, or fails to write its outcome, leaves the service idle.
LEMMA CloseKeeps ==
    ASSUME MissionInv, NEW o, Close(o), state' = "idle", bound' = NoProtocol
    PROVE  QuietWhenIdle' /\ OpenRun' /\ UnusedRuns' /\ FilesStep
  <1>1. UnusedRuns' /\ FilesStep
    BY WriteKeeps DEF Close, Record, FinalizeRun
  <1>2. CASE FinalizeRun
    BY <1>1, <1>2 DEF FinalizeRun, QuietWhenIdle, OpenRun
  <1>3. CASE RunInfoRaises /\ UNCHANGED <<context, lastRun, runs>>
    BY <1>1, <1>3 DEF RunInfoRaises, QuietWhenIdle, OpenRun, MissionInv
  <1> QED BY <1>2, <1>3 DEF Close

\* Steps that leave the manager and the encapsulator alone.
LEMMA AsideKeeps ==
    ASSUME MissionInv, UNCHANGED <<manager, bound>>
    PROVE  QuietWhenIdle' /\ OpenRun' /\ UnusedRuns' /\ FilesStep
  BY DEF MissionInv, QuietWhenIdle, OpenRun, UnusedRuns, FilesStep, manager

\* The end of a load opens the next run or none.
LEMMA CommitKeeps ==
    ASSUME MissionInv, NEW c \in Clients, NEW m \in Contexts, CommitLoad(c, m),
           UNCHANGED bound
    PROVE  QuietWhenIdle' /\ OpenRun' /\ UnusedRuns' /\ FilesStep
  <1>1. CASE /\ runs < MaxRuns /\ runs' = runs + 1
             /\ context' = [m EXCEPT !.run = runs + 1] /\ lastRun' = runs + 1
             /\ outcome' = [outcome EXCEPT ![runs + 1] = "loaded"] /\ state' = "loaded"
             /\ UNCHANGED unsaved
    <2>1. runs + 1 \in RunIds /\ runs + 1 > runs /\ runs \in Nat
      BY <1>1, BoundsAssumption DEF MissionInv, TypeOK, RunIds
    <2>2. outcome[runs + 1] = "absent"
      BY <2>1 DEF MissionInv, UnusedRuns
    <2>3. QuietWhenIdle'
      BY <1>1 DEF QuietWhenIdle
    <2>4. OpenRun'
      BY <1>1, <2>1 DEF OpenRun, MissionInv, TypeOK, Contexts, FinalOutcomes
    <2>5. UnusedRuns'
      BY <1>1, <2>1 DEF UnusedRuns, MissionInv, TypeOK, RunIds
    <2>6. FilesStep
      BY <1>1, <2>1, <2>2 DEF FilesStep, FinalOutcomes, MissionInv, TypeOK
    <2> QED BY <2>3, <2>4, <2>5, <2>6
  <1>2. CASE /\ context' = NoMission /\ lastRun' = 0
             /\ UNCHANGED <<state, outcome, unsaved, runs>>
    BY <1>2 DEF QuietWhenIdle, OpenRun, UnusedRuns, FilesStep, MissionInv
  <1>3. CASE UNCHANGED manager
    BY <1>3, AsideKeeps
  <1> QED BY <1>1, <1>2, <1>3 DEF CommitLoad

LEMMA LoadKeeps ==
    ASSUME MissionInv, NEW c \in Clients, Load(c)
    PROVE  QuietWhenIdle' /\ OpenRun' /\ UnusedRuns' /\ FilesStep
  <1>1. UNCHANGED bound
    BY DEF Load, LoadBegin, LoadFrame, LoadBackendClosed, LoadBackendBound,
           LoadBackendUnwound, protocols
  <1>2. \/ UNCHANGED manager
        \/ \E m \in Contexts : CommitLoad(c, m)
    <2>1. job[c] \in Contexts
      BY DEF MissionInv, TypeOK
    <2>2. CASE LoadBegin(c)
      <3>1. PICK p \in BOOLEAN, t \in Transports :
               \/ StartBackend(c, [run |-> 0, pos |-> p, sig |-> t])
               \/ UNCHANGED manager
        BY <2>2 DEF LoadBegin
      <3>2. [run |-> 0, pos |-> p, sig |-> t] \in Contexts
        BY BoundsAssumption DEF Contexts
      <3> QED BY <3>1, <3>2 DEF StartBackend, CreateBackend
    <2>3. CASE \/ LoadFrame(c) \/ LoadBackendClosed(c) \/ LoadBackendBound(c)
               \/ LoadBackendUnwound(c)
      BY <2>1, <2>3 DEF LoadFrame, LoadBackendClosed, LoadBackendBound,
                        LoadBackendUnwound, StartBackend, CreateBackend
    <2> QED BY <2>2, <2>3 DEF Load
  <1> QED BY <1>1, <1>2, AsideKeeps, CommitKeeps

LEMMA SetupKeeps ==
    ASSUME MissionInv, NEW c \in Clients, Setup(c)
    PROVE  QuietWhenIdle' /\ OpenRun' /\ UnusedRuns' /\ FilesStep
  <1>1. CASE SetupArrived(c)
    <2>1. "ready" \in States /\ Record("ready") /\ state' = "ready"
          /\ UNCHANGED <<context, lastRun, runs>>
      BY <1>1 DEF SetupArrived, States
    <2>2. OpenRun' /\ UnusedRuns' /\ FilesStep
      BY <2>1, WriteKeeps, WriteState
    <2> QED BY <2>1, <2>2 DEF QuietWhenIdle
  <1>2. CASE UNCHANGED <<manager, bound>>
    BY <1>2, AsideKeeps
  <1> QED BY <1>1, <1>2
          DEF Setup, SetupBegin, SetupArmed, SetupAirborne, SetupFails, protocols

LEMMA OperationKeeps ==
    ASSUME MissionInv, NEW c \in Clients,
           Start(c) \/ StopFlying(c) \/ StopLoaded(c) \/ Reset(c) \/ DeleteRun(c)
    PROVE  QuietWhenIdle' /\ OpenRun' /\ UnusedRuns' /\ FilesStep
  <1>1. CASE Start(c)
    <2>1. CASE state' = "running" /\ Record("running")
      BY <1>1, <2>1, WriteKeeps, WriteState DEF Start, QuietWhenIdle, States
    <2>2. CASE UNCHANGED <<state, outcome, unsaved>>
      BY <1>1, <2>2 DEF Start, MissionInv, QuietWhenIdle, OpenRun, UnusedRuns, FilesStep
    <2> QED BY <1>1, <2>1, <2>2 DEF Start
  <1>2. CASE StopFlying(c)
    BY <1>2, WriteKeeps, WriteState DEF StopFlying, TeardownProtocol, QuietWhenIdle, States
  <1>3. CASE StopLoaded(c) \/ Reset(c)
    BY <1>3, CloseKeeps DEF StopLoaded, Reset, TeardownProtocol
  <1>4. CASE DeleteRun(c)
    <2>1. PICK r \in RunIds : /\ outcome[r] # "absent" /\ ~(r = lastRun /\ state # "idle")
                              /\ outcome' = [outcome EXCEPT ![r] = "deleted"]
      BY <1>4 DEF DeleteRun
    <2>2. UNCHANGED <<state, context, lastRun, runs, bound>>
      BY <1>4 DEF DeleteRun, protocols
    <2>3. FilesStep
      BY <2>1 DEF FilesStep, MissionInv, TypeOK
    <2>4. UnusedRuns'
      BY <2>1, <2>2 DEF UnusedRuns, MissionInv, TypeOK
    <2>5. QuietWhenIdle'
      BY <1>4, <2>2 DEF DeleteRun, QuietWhenIdle, MissionInv
    <2>6. ASSUME context # NoMission
          PROVE  /\ outcome'[context.run] \notin FinalOutcomes
                 /\ outcome'[context.run] = state \/ context.run \in unsaved
      <3>1. CASE r # context.run
        BY <2>1, <2>6, <3>1 DEF MissionInv, OpenRun, TypeOK
      <3>2. CASE r = context.run
        <4>1. state = "idle"
          BY <2>1, <2>6, <3>2 DEF MissionInv, OpenRun
        <4>2. outcome'[context.run] = "deleted"
          BY <2>1, <3>2 DEF MissionInv, TypeOK
        <4> QED BY <2>6, <4>1, <4>2 DEF MissionInv, QuietWhenIdle, FinalOutcomes
      <3> QED BY <3>1, <3>2
    <2>7. OpenRun'
      BY <1>4, <2>2, <2>6 DEF DeleteRun, OpenRun, MissionInv
    <2> QED BY <2>3, <2>4, <2>5, <2>7
  <1> QED BY <1>1, <1>2, <1>3, <1>4

LEMMA SelfKeeps ==
    ASSUME MissionInv, Telemetry \/ Surroundings
    PROVE  QuietWhenIdle' /\ OpenRun' /\ UnusedRuns' /\ FilesStep
  <1>1. CASE UNCHANGED <<manager, bound>>
    BY <1>1, AsideKeeps
  <1>2. CASE /\ TelemetryDeliver /\ state = "returning" /\ state' = "idle"
             /\ Close("completed")
    <2>1. bound' = NoProtocol
      BY <1>2 DEF TelemetryDeliver, protocols, MissionInv, QuietWhenIdle
    <2> QED BY <1>2, <2>1, CloseKeeps
  <1>3. CASE Restart
    <2>1. bound' = NoProtocol /\ context' = NoMission /\ runs' = runs
      BY <1>3 DEF Restart
    <2>2. CASE Record("interrupted")
      BY <2>1, <2>2, WriteKeeps DEF QuietWhenIdle, OpenRun
    <2>3. CASE UNCHANGED <<outcome, unsaved>>
      BY <2>1, <2>3 DEF QuietWhenIdle, OpenRun, UnusedRuns, FilesStep, MissionInv
    <2> QED BY <1>3, <2>2, <2>3 DEF Restart
  <1> QED BY <1>1, <1>2, <1>3
          DEF Telemetry, TelemetryPoll, TelemetrySample, TelemetryFails, TelemetryDeliver,
              Surroundings, ProtocolMoves, ReturnDescends, ReturnLands, ReturnRefused,
              BackendDies, protocols

LEMMA MissionInit == Init => MissionInv
  BY TypeInit DEF Init, MissionInv, QuietWhenIdle, OpenRun, UnusedRuns

LEMMA MissionNext == MissionInv /\ [Next]_vars => MissionInv' /\ (FilesStep \/ UNCHANGED vars)
  <1> SUFFICES ASSUME MissionInv, [Next]_vars
               PROVE  MissionInv' /\ (FilesStep \/ UNCHANGED vars)
    OBVIOUS
  <1>1. TypeOK'
    BY TypeNext DEF MissionInv
  <1>2. CASE UNCHANGED vars
    BY <1>1, <1>2, AsideKeeps DEF vars, protocols, MissionInv
  <1>3. ASSUME NEW c \in Clients, Request(c)
        PROVE  QuietWhenIdle' /\ OpenRun' /\ UnusedRuns' /\ FilesStep
    BY <1>3, LoadKeeps, SetupKeeps, OperationKeeps DEF Request
  <1> QED BY <1>1, <1>2, <1>3, SelfKeeps DEF Next, MissionInv

\* The service's state keeps its types, whatever the bounds of the counters.
THEOREM MissionTypes == Spec => []TypeOK
  BY TypeInit, TypeNext, PTL DEF Spec

\* However the requests of any number of clients interleave at their awaits, an
\* idle service has no mission, and no protocol is bound while it is idle or the
\* vehicle returns.
THEOREM QuietOutsideMissions == Spec => []QuietWhenIdle
  <1>1. MissionInv => QuietWhenIdle
    BY DEF MissionInv
  <1> QED BY <1>1, MissionInit, MissionNext, PTL DEF Spec

\* However the requests interleave, RUN_INFO.json of the open run agrees with the
\* state machine.
THEOREM RunInfoFollows == Spec => []RunInfoAgrees
  <1>1. MissionInv => RunInfoAgrees
    BY DEF MissionInv, OpenRun, RunInfoAgrees
  <1> QED BY <1>1, MissionInit, MissionNext, PTL DEF Spec

\* However the requests interleave, the outcome of a closed run stands.
THEOREM OutcomesStand == Spec => OutcomesAreFinal
  <1>1. FilesStep \/ UNCHANGED vars => [FilesStep]_vars
    OBVIOUS
  <1> QED BY <1>1, MissionInit, MissionNext, PTL DEF Spec, OutcomesAreFinal, FilesStep

-----------------------------------------------------------------------------
(* One client, who waits for each answer.                                   *)

OneClient == \A c, d \in Clients : c = d

\* A load is only under way in IDLE and a setup in LOADED, each with the mission and
\* the backend it left behind at its last await.
Pending ==
    \A c \in Clients :
        /\ pc[c] \in LoadPCs => state = "idle"
        /\ pc[c] \in SetupPCs => state = "loaded" /\ job[c] = context
        /\ pc[c] = "bind" => backend.sig = job[c].sig

\* From LOADED on there is an open mission, with its own data plane.
Opened == state # "idle" => context # NoMission /\ backend.sig = context.sig

ClientInv == OneClient /\ TypeOK /\ QuietWhenIdle /\ Pending /\ Opened

\* The only client's step leaves nobody else suspended anywhere.
LEMMA OnlyClient ==
    ASSUME ClientInv, NEW c \in Clients
    PROVE  \A d \in Clients : d = c
  BY DEF ClientInv, OneClient

LEMMA ClientCommits ==
    ASSUME ClientInv, NEW c \in Clients, NEW m \in Contexts, CommitLoad(c, m),
           state = "idle", backend.sig = m.sig, UNCHANGED backend
    PROVE  Pending' /\ Opened'
  <1>1. Pending'
    <2>1. pc' = [pc EXCEPT ![c] = "none"]
      BY DEF CommitLoad, Respond, Suspend
    <2> QED BY <2>1, OnlyClient DEF ClientInv, TypeOK, Pending, LoadPCs, SetupPCs
  <1>2. CASE /\ runs < MaxRuns /\ context' = [m EXCEPT !.run = runs + 1]
             /\ state' = "loaded"
    <2>1. context'.run = runs + 1 /\ context'.sig = m.sig /\ runs + 1 # 0
      BY <1>2, BoundsAssumption DEF Contexts, ClientInv, TypeOK
    <2>2. context' # NoMission
      BY <2>1 DEF NoMission
    <2> QED BY <1>1, <1>2, <2>1, <2>2 DEF Opened
  <1>3. CASE UNCHANGED state
    BY <1>1, <1>3 DEF Opened
  <1>4. CASE UNCHANGED manager
    BY <1>3, <1>4 DEF manager
  <1> QED BY <1>2, <1>3, <1>4 DEF CommitLoad

\* A load that gets as far as its next await, or fails.
LEMMA ClientWaits ==
    ASSUME ClientInv, NEW c \in Clients, NEW m \in Contexts, NEW at,
           Suspend(c, at, m), at \in LoadPCs \cup {"none"}, state = "idle",
           at = "bind" => backend'.sig = m.sig,
           UNCHANGED manager
    PROVE  Pending' /\ Opened'
  <1>1. /\ UNCHANGED <<state, context>>
        /\ pc' = [pc EXCEPT ![c] = at] /\ job' = [job EXCEPT ![c] = m]
    BY DEF manager, Suspend
  <1>2. Pending'
    BY <1>1, OnlyClient DEF ClientInv, TypeOK, Pending, LoadPCs, SetupPCs
  <1> QED BY <1>1, <1>2 DEF Opened

LEMMA ClientStartsBackend ==
    ASSUME ClientInv, NEW c \in Clients, NEW m \in Contexts,
           StartBackend(c, m) \/ CreateBackend(c, m), state = "idle"
    PROVE  Pending' /\ Opened'
  <1>1. CASE backend.sig = m.sig /\ CommitLoad(c, m) /\ UNCHANGED backend
    BY <1>1, ClientCommits
  <1>2. CASE CreateBackend(c, m)
    BY <1>2, ClientWaits DEF CreateBackend, LoadPCs
  <1>3. CASE Suspend(c, "close", m) /\ UNCHANGED manager
    BY <1>3, ClientWaits DEF LoadPCs
  <1> QED BY <1>1, <1>2, <1>3 DEF StartBackend

\* Nobody but the one client's load can have left IDLE since it began.
LEMMA LoadWhileIdle ==
    ASSUME ClientInv, NEW c \in Clients, Load(c)
    PROVE  /\ state = "idle" /\ job[c] \in Contexts
           /\ pc[c] = "bind" => backend.sig = job[c].sig
  BY DEF ClientInv, TypeOK, Pending, LoadPCs, Load, LoadBegin, LoadFrame,
         LoadBackendClosed, LoadBackendBound, LoadBackendUnwound

LEMMA ClientLoads ==
    ASSUME ClientInv, NEW c \in Clients, Load(c)
    PROVE  Pending' /\ Opened'
  <1>1. /\ state = "idle" /\ job[c] \in Contexts
        /\ pc[c] = "bind" => backend.sig = job[c].sig
    BY LoadWhileIdle
  <1>2. ASSUME Respond(c), UNCHANGED manager PROVE Pending' /\ Opened'
    BY <1>1, <1>2, StartValues, ClientWaits DEF Respond
  <1>3. CASE LoadBegin(c)
    <2>1. PICK p \in BOOLEAN, t \in Transports :
             \/ StartBackend(c, [run |-> 0, pos |-> p, sig |-> t])
             \/ Suspend(c, "frame", [run |-> 0, pos |-> p, sig |-> t]) /\ UNCHANGED manager
      BY <1>3 DEF LoadBegin
    <2>2. [run |-> 0, pos |-> p, sig |-> t] \in Contexts
      BY BoundsAssumption DEF Contexts
    <2> QED BY <1>1, <2>1, <2>2, ClientStartsBackend, ClientWaits DEF LoadPCs
  <1>4. CASE LoadFrame(c)
    BY <1>1, <1>2, <1>4, ClientStartsBackend DEF LoadFrame
  <1>5. CASE LoadBackendClosed(c)
    BY <1>1, <1>5, ClientStartsBackend DEF LoadBackendClosed
  <1>6. CASE LoadBackendBound(c)
    <2>1. CASE CommitLoad(c, job[c]) /\ UNCHANGED backend
      BY <1>1, <1>6, <2>1, ClientCommits DEF LoadBackendBound
    <2>2. CASE Suspend(c, "unwind", job[c]) /\ UNCHANGED manager
      BY <1>1, <2>2, ClientWaits DEF LoadPCs
    <2> QED BY <1>2, <1>6, <2>1, <2>2 DEF LoadBackendBound
  <1>7. CASE LoadBackendUnwound(c)
    BY <1>2, <1>7 DEF LoadBackendUnwound
  <1> QED BY <1>3, <1>4, <1>5, <1>6, <1>7 DEF Load

LEMMA ClientSetsUp ==
    ASSUME ClientInv, NEW c \in Clients, Setup(c)
    PROVE  Pending' /\ Opened'
  <1>1. /\ state = "loaded"
        /\ pc[c] \in SetupPCs => job[c] = context
        /\ UNCHANGED <<context, backend>>
    BY DEF ClientInv, Pending, SetupPCs, Setup, SetupBegin, SetupArmed, SetupAirborne,
           SetupArrived, SetupFails, manager
  <1>2. CASE \/ SetupBegin(c) \/ SetupArmed(c) \/ SetupAirborne(c) \/ SetupFails(c)
    <2>1. /\ state' = state
          /\ \E at \in SetupPCs \cup {"none"} : \E m :
                /\ pc' = [pc EXCEPT ![c] = at] /\ job' = [job EXCEPT ![c] = m]
                /\ at # "none" => m = context
      BY <1>1, <1>2 DEF SetupBegin, SetupArmed, SetupAirborne, SetupFails, SetupPCs,
                        manager, Respond, Suspend
    <2>2. Pending'
      BY <1>1, <2>1, OnlyClient DEF ClientInv, TypeOK, Pending, LoadPCs, SetupPCs
    <2> QED BY <1>1, <2>1, <2>2 DEF ClientInv, Opened
  <1>3. CASE SetupArrived(c)
    <2>1. state' = "ready" /\ pc' = [pc EXCEPT ![c] = "none"]
      BY <1>3 DEF SetupArrived, Respond, Suspend
    <2>2. Pending'
      BY <2>1, OnlyClient DEF ClientInv, TypeOK, Pending, LoadPCs, SetupPCs
    <2> QED BY <1>1, <2>1, <2>2 DEF ClientInv, Opened
  <1> QED BY <1>2, <1>3 DEF Setup

\* The requests that do not suspend, and so leave none suspended.
LEMMA ClientOperates ==
    ASSUME ClientInv, NEW c \in Clients,
           Start(c) \/ StopFlying(c) \/ StopLoaded(c) \/ Reset(c) \/ DeleteRun(c)
    PROVE  Pending' /\ Opened'
  <1>1. pc[c] = "none" /\ pc' = pc /\ job' = job /\ backend' = backend
    BY DEF Start, StopFlying, StopLoaded, Reset, DeleteRun, requests
  <1>2. Pending'
    BY <1>1, OnlyClient DEF Pending, LoadPCs, SetupPCs
  <1>3. state' = "idle" \/ (context' = context /\ state # "idle")
           \/ (context' = context /\ state' = state)
    BY DEF Start, StopFlying, StopLoaded, Reset, DeleteRun
  <1> QED BY <1>1, <1>2, <1>3 DEF ClientInv, Opened

LEMMA ClientAside ==
    ASSUME ClientInv, UNCHANGED <<state, context, requests>>, backend'.sig = backend.sig
    PROVE  Pending' /\ Opened'
  <1>1. state' = state /\ context' = context /\ pc' = pc /\ job' = job
    BY DEF requests
  <1>2. Pending'
    BY <1>1 DEF ClientInv, Pending
  <1> QED BY <1>1, <1>2 DEF ClientInv, Opened

LEMMA ClientWatches ==
    ASSUME ClientInv, Telemetry \/ Surroundings
    PROVE  Pending' /\ Opened'
  <1>1. CASE UNCHANGED <<state, context, requests>> /\ backend'.sig = backend.sig
    BY <1>1, ClientAside
  <1>2. CASE TelemetryDeliver /\ state = "returning" /\ state' = "idle"
    <2>1. UNCHANGED requests
      BY <1>2 DEF TelemetryDeliver
    <2> QED BY <1>2, <2>1 DEF ClientInv, Pending, Opened, LoadPCs, SetupPCs, requests
  <1>3. CASE Restart
    <2>1. state' = "idle" /\ pc' = [c \in Clients |-> "none"]
      BY <1>3 DEF Restart
    <2> QED BY <2>1 DEF Pending, Opened, LoadPCs, SetupPCs
  <1>4. CASE BackendDies
    BY <1>1, <1>4 DEF BackendDies, manager, ClientInv, TypeOK
  <1> QED BY <1>1, <1>2, <1>3, <1>4
          DEF Telemetry, TelemetryPoll, TelemetrySample, TelemetryFails, TelemetryDeliver,
              Surroundings, ProtocolMoves, ReturnDescends, ReturnLands, ReturnRefused, manager

LEMMA ClientInit == OneClient /\ Init => ClientInv
  BY TypeInit DEF Init, ClientInv, QuietWhenIdle, Pending, Opened, LoadPCs, SetupPCs

LEMMA ClientNext == ClientInv /\ MissionInv' /\ [Next]_vars => ClientInv'
  <1> SUFFICES ASSUME ClientInv, MissionInv', [Next]_vars PROVE ClientInv'
    OBVIOUS
  <1>1. ASSUME UNCHANGED vars PROVE Pending' /\ Opened'
    BY <1>1, ClientAside DEF vars, manager
  <1>2. ASSUME NEW c \in Clients, Request(c) PROVE Pending' /\ Opened'
    BY <1>2, ClientLoads, ClientSetsUp, ClientOperates DEF Request
  <1>3. Pending' /\ Opened'
    BY <1>1, <1>2, ClientWatches DEF Next
  <1>4. OneClient'
    BY DEF ClientInv, OneClient
  <1> QED BY <1>3, <1>4 DEF ClientInv, MissionInv

LEMMA ClientAlways == OneClient /\ Spec => []ClientInv
  BY ClientInit, ClientNext, MissionInit, MissionNext, PTL DEF Spec

\* For one client the open mission has the data plane it asked for, whatever its
\* protocols do.
THEOREM OneClientsDataPlane == OneClient /\ Spec => []DataPlaneOfMission
  <1>1. ClientInv => DataPlaneOfMission
    BY DEF ClientInv, QuietWhenIdle, Opened, DataPlaneOfMission
  <1> QED BY <1>1, ClientAlways, PTL

-----------------------------------------------------------------------------
(* The runs that the one client's service leaves without an outcome.        *)

Abandoned == {r \in 1 .. runs : /\ outcome[r] \notin FinalOutcomes \cup {"deleted"}
                                /\ r # context.run /\ r \notin unsaved}

\* Only a restart leaves a run behind that the disk did not, and none but the open one.
Leaves ==
    \/ Abandoned' \subseteq Abandoned /\ restarts' = restarts
    \/ Abandoned' \subseteq Abandoned \cup {context.run} /\ restarts' = restarts + 1

\* A write touches the open run's file and no other, and leaves its run unsaved or with
\* the outcome that it was given.
LEMMA WriteTouches ==
    ASSUME TypeOK, NEW o, Record(o)
    PROVE  \A r \in 1 .. runs :
              /\ r # context.run => /\ outcome'[r] = outcome[r]
                                    /\ r \in unsaved' <=> r \in unsaved
              /\ r = context.run => r \in unsaved' \/ outcome'[r] = o
  <1>1. \A r \in 1 .. runs : r \in RunIds /\ r # 0
    BY BoundsAssumption DEF TypeOK, RunIds
  <1>2. outcome \in [RunIds -> Outcomes] /\ (context = NoMission => context.run = 0)
    BY DEF TypeOK, NoMission
  <1>3. CASE WriteRunInfo(o)
    BY <1>1, <1>2, <1>3 DEF WriteRunInfo
  <1>4. CASE RunInfoRaises
    BY <1>1, <1>2, <1>4 DEF RunInfoRaises
  <1> QED BY <1>3, <1>4 DEF Record

\* Writing to the open run abandons none, if a run that is closed gets its outcome.
LEMMA WriteLeaves ==
    ASSUME TypeOK, NEW o, Record(o), runs' = runs, restarts' = restarts,
           context' = context \/ o \in FinalOutcomes
    PROVE  Leaves
  BY WriteTouches DEF Leaves, Abandoned

LEMMA CloseLeaves ==
    ASSUME TypeOK, NEW o \in FinalOutcomes, Close(o), restarts' = restarts
    PROVE  Leaves
  BY WriteLeaves DEF Close, Record, FinalizeRun

LEMMA AsideLeaves ==
    ASSUME UNCHANGED <<context, outcome, unsaved, runs, restarts>>
    PROVE  Leaves
  BY DEF Leaves, Abandoned

\* Nor does a load, that begins when no run is open but one the disk refused.
LEMMA CommitLeaves ==
    ASSUME TypeOK, QuietWhenIdle, state = "idle", NEW c \in Clients, NEW m \in Contexts,
           CommitLoad(c, m), restarts' = restarts
    PROVE  Leaves
  <1>1. runs \in Nat /\ \A r \in 1 .. runs : r = context.run => r \in unsaved
    BY BoundsAssumption DEF QuietWhenIdle, NoMission, TypeOK
  <1>2. CASE UNCHANGED <<outcome, unsaved, runs>>
    BY <1>1, <1>2 DEF Leaves, Abandoned
  <1>3. CASE /\ runs < MaxRuns /\ runs' = runs + 1
             /\ context' = [m EXCEPT !.run = runs + 1]
             /\ outcome' = [outcome EXCEPT ![runs + 1] = "loaded"] /\ UNCHANGED unsaved
    <2>1. context'.run = runs + 1
      BY <1>3 DEF Contexts
    <2>2. \A r \in 1 .. runs : r \in RunIds /\ r # runs + 1 /\ outcome'[r] = outcome[r]
      BY <1>1, <1>3, BoundsAssumption DEF RunIds, TypeOK
    <2>3. \A r \in 1 .. (runs + 1) : r # runs + 1 => r \in 1 .. runs
      BY <1>1
    <2> QED BY <1>1, <1>3, <2>1, <2>2, <2>3 DEF Leaves, Abandoned
  <1>4. CASE UNCHANGED manager
    BY <1>4, AsideLeaves DEF manager
  <1> QED BY <1>2, <1>3, <1>4 DEF CommitLoad

LEMMA LoadLeaves ==
    ASSUME ClientInv, NEW c \in Clients, Load(c)
    PROVE  Leaves
  <1>1. job[c] \in Contexts /\ TypeOK /\ QuietWhenIdle
    BY DEF ClientInv, TypeOK
  <1>2. state = "idle" /\ restarts' = restarts
    BY LoadWhileIdle DEF Load, LoadBegin, LoadFrame, LoadBackendClosed, LoadBackendBound,
                         LoadBackendUnwound
  <1>3. ASSUME NEW m \in Contexts, StartBackend(c, m)
        PROVE  Leaves
    BY <1>1, <1>2, <1>3, CommitLeaves, AsideLeaves DEF StartBackend, CreateBackend, manager
  <1>4. CASE LoadBegin(c)
    <2>1. PICK p \in BOOLEAN, t \in Transports, framed \in BOOLEAN :
            LET m == [run |-> 0, pos |-> p, sig |-> t]
            IN  IF framed THEN StartBackend(c, m)
                ELSE Suspend(c, "frame", m) /\ UNCHANGED <<manager, backend>>
      BY <1>4 DEF LoadBegin
    <2> DEFINE m == [run |-> 0, pos |-> p, sig |-> t]
    <2>2. m \in Contexts
      BY BoundsAssumption DEF Contexts
    <2>3. StartBackend(c, m) \/ UNCHANGED manager
      BY <2>1
    <2> HIDE DEF m
    <2> QED BY <1>2, <1>3, <2>2, <2>3, AsideLeaves DEF manager
  <1>5. CASE LoadFrame(c) \/ LoadBackendClosed(c) \/ LoadBackendUnwound(c)
    BY <1>1, <1>2, <1>3, <1>5, AsideLeaves
       DEF LoadFrame, LoadBackendClosed, LoadBackendUnwound, CreateBackend, manager
  <1>6. CASE LoadBackendBound(c)
    BY <1>1, <1>2, <1>6, CommitLeaves, AsideLeaves DEF LoadBackendBound, manager
  <1> QED BY <1>4, <1>5, <1>6 DEF Load

LEMMA RequestLeaves ==
    ASSUME ClientInv, NEW c \in Clients, Request(c)
    PROVE  Leaves
  <1>1. TypeOK
    BY DEF ClientInv
  <1>2. CASE Setup(c)
    BY <1>1, <1>2, WriteLeaves, AsideLeaves
       DEF Setup, SetupBegin, SetupArmed, SetupAirborne, SetupArrived, SetupFails, manager
  <1>3. CASE Start(c) \/ StopFlying(c)
    BY <1>1, <1>3, WriteLeaves, AsideLeaves DEF Start, StopFlying
  <1>4. CASE StopLoaded(c) \/ Reset(c)
    BY <1>1, <1>4, CloseLeaves DEF StopLoaded, Reset, FinalOutcomes
  <1>5. CASE DeleteRun(c)
    <2>1. PICK r \in RunIds : outcome' = [outcome EXCEPT ![r] = "deleted"]
      BY <1>5 DEF DeleteRun
    <2>2. UNCHANGED <<context, unsaved, runs, restarts>>
      BY <1>5 DEF DeleteRun
    <2>3. \A q \in 1 .. runs : q \in RunIds
      BY <1>1, BoundsAssumption DEF TypeOK, RunIds
    <2> QED BY <1>1, <2>1, <2>2, <2>3 DEF Leaves, Abandoned, TypeOK
  <1> QED BY <1>2, <1>3, <1>4, <1>5, LoadLeaves DEF Request

LEMMA SelfLeaves ==
    ASSUME ClientInv, Telemetry \/ Surroundings
    PROVE  Leaves
  <1>1. TypeOK
    BY DEF ClientInv
  <1>2. CASE Telemetry
    BY <1>1, <1>2, CloseLeaves, AsideLeaves
       DEF Telemetry, TelemetryPoll, TelemetrySample, TelemetryFails, TelemetryDeliver,
           FinalOutcomes, manager
  <1>3. CASE Restart
    <2>1. /\ restarts' = restarts + 1 /\ runs' = runs
          /\ Record("interrupted") \/ UNCHANGED <<outcome, unsaved>>
      BY <1>3 DEF Restart
    <2> QED BY <1>1, <2>1, WriteTouches DEF Leaves, Abandoned
  <1>4. CASE Surroundings /\ ~Restart
    BY <1>4, AsideLeaves
       DEF Surroundings, ProtocolMoves, ReturnDescends, ReturnLands, ReturnRefused,
           BackendDies, manager
  <1> QED BY <1>2, <1>3, <1>4

LEMMA LeavesCounts ==
    ASSUME TypeOK, TypeOK', NoAbandonedRun, Leaves
    PROVE  NoAbandonedRun'
  <1>1. /\ Abandoned \subseteq 1 .. runs /\ runs \in Nat
        /\ restarts \in Nat
    BY BoundsAssumption DEF Abandoned, TypeOK
  <1>2. IsFiniteSet(Abandoned) /\ Cardinality(Abandoned) \in Nat
    <2>1. IsFiniteSet(1 .. runs)
      BY <1>1, FS_Interval
    <2>2. IsFiniteSet(Abandoned)
      BY <1>1, <2>1, FS_Subset
    <2> QED BY <2>2, FS_CardinalityType
  <1>3. Cardinality(Abandoned) <= restarts
    BY DEF NoAbandonedRun, Abandoned
  <1>4. CASE Abandoned' \subseteq Abandoned /\ restarts' = restarts
    <2>1. Cardinality(Abandoned') <= Cardinality(Abandoned) /\ Cardinality(Abandoned') \in Nat
      BY <1>2, <1>4, FS_Subset, FS_CardinalityType
    <2> QED BY <1>1, <1>2, <1>3, <1>4, <2>1 DEF NoAbandonedRun, Abandoned
  <1>5. CASE Abandoned' \subseteq Abandoned \cup {context.run} /\ restarts' = restarts + 1
    <2> DEFINE S == Abandoned \cup {context.run}
    <2>1. /\ IsFiniteSet(S) /\ Cardinality(S) \in Nat
          /\ Cardinality(S) <= Cardinality(Abandoned) + 1
      <3>1. /\ IsFiniteSet(S)
            /\ Cardinality(S) = IF context.run \in Abandoned THEN Cardinality(Abandoned)
                                ELSE Cardinality(Abandoned) + 1
        BY <1>2, FS_AddElement, Zenon
      <3> HIDE DEF S
      <3> QED BY <1>2, <3>1
    <2> HIDE DEF S
    <2>2. Cardinality(Abandoned') <= Cardinality(S) /\ Cardinality(Abandoned') \in Nat
      BY <1>5, <2>1, FS_Subset, FS_CardinalityType DEF S
    <2> QED BY <1>1, <1>2, <1>3, <1>5, <2>1, <2>2 DEF NoAbandonedRun, Abandoned
  <1> QED BY <1>4, <1>5 DEF Leaves

\* For one client every run that was closed has a final outcome on disk, but for those
\* the disk refused it for and at most one for each time the process died.
THEOREM OneClientAbandonsNone == OneClient /\ Spec => []NoAbandonedRun
  <1>1. Init => NoAbandonedRun
    <2> SUFFICES ASSUME Init PROVE NoAbandonedRun
      OBVIOUS
    <2>1. {r \in 1 .. runs : /\ outcome[r] \notin FinalOutcomes \cup {"deleted"}
                             /\ r # context.run /\ r \notin unsaved} = {}
      BY DEF Init
    <2> QED BY <2>1, FS_EmptySet DEF Init, NoAbandonedRun
  <1>2. ClientInv /\ MissionInv /\ MissionInv' /\ NoAbandonedRun /\ [Next]_vars
          => NoAbandonedRun'
    <2> SUFFICES ASSUME ClientInv, MissionInv, MissionInv', NoAbandonedRun, [Next]_vars
                 PROVE  NoAbandonedRun'
      OBVIOUS
    <2>1. Leaves
      BY RequestLeaves, SelfLeaves, AsideLeaves DEF Next, vars, manager
    <2> QED BY <2>1, LeavesCounts DEF MissionInv
  <1> QED BY <1>1, <1>2, ClientAlways, MissionInit, MissionNext, PTL DEF Spec

-----------------------------------------------------------------------------
(* One client and the documented diagram.                                   *)

\* A protocol is bound in RUNNING alone, and is that of the open mission, but for one
\* whose start failed in READY; and any other that is alive is one of those.
Installed ==
    /\ \A e \in live : e # NoProtocol /\ (e = bound \/ e.raised)
    /\ IF state = "running" THEN bound.run = context.run /\ ~bound.raised
       ELSE bound = NoProtocol \/ (state = "ready" /\ bound.raised)

\* A vehicle that is READY is not returning, and at its initial position unless a
\* protocol moved it whose start failed.
Stationed == state = "ready" => (stationed = context.run \/ Stray) /\ ~rtl

OperatorInv == ClientInv /\ Installed /\ Stationed

\* What each step has to show: the links above, and a step of the diagram.
Keeps == /\ Installed' /\ Stationed'
         /\ [Diagram!Next]_(Diagram!vars)

\* A step that touches neither the mission, its protocol nor the flight is none of
\* the diagram.
LEMMA StutterDiagram ==
    ASSUME UNCHANGED <<state, bound, live, stationed>>, state = "idle" \/ context' = context
    PROVE  UNCHANGED Diagram!vars
  BY DEF Diagram!vars, Stray

LEMMA OperatorWaits ==
    ASSUME OperatorInv, UNCHANGED <<manager, protocols, flight>>
    PROVE  Keeps
  <1>1. UNCHANGED <<state, context, bound, live, stationed, rtl>>
    BY DEF manager, protocols, flight
  <1>2. Installed' /\ Stationed'
    BY <1>1 DEF OperatorInv, Installed, Stationed, Stray
  <1> QED BY <1>1, <1>2, StutterDiagram DEF Keeps

LEMMA OperatorCommits ==
    ASSUME OperatorInv, NEW c \in Clients, NEW m \in Contexts, CommitLoad(c, m),
           state = "idle", UNCHANGED <<protocols, flight>>
    PROVE  Keeps
  <1>1. /\ bound = NoProtocol /\ UNCHANGED <<bound, live, stationed>>
        /\ \A e \in live : e # NoProtocol /\ e.raised
    BY DEF OperatorInv, Installed, protocols, flight
  <1>2. state' # "ready" /\ state' # "running" => Installed' /\ Stationed'
    BY <1>1 DEF Installed, Stationed
  <1>3. CASE /\ runs < MaxRuns /\ context' = [m EXCEPT !.run = runs + 1]
             /\ state' = "loaded"
    <2>1. context'.run = runs + 1 /\ runs + 1 \in 1 .. MaxRuns
      BY <1>3, BoundsAssumption DEF Contexts, OperatorInv, ClientInv, TypeOK
    <2>2. Stray' = Stray
      BY <1>1 DEF Stray
    <2>3. Diagram!Load
      BY <1>1, <1>3, <2>1, <2>2 DEF Diagram!Load
    <2> QED BY <1>2, <1>3, <2>3 DEF Keeps, Diagram!Next
  <1>4. CASE UNCHANGED state
    <2>1. UNCHANGED Diagram!vars
      BY <1>1, <1>4, StutterDiagram
    <2> QED BY <1>2, <1>4, <2>1 DEF Keeps
  <1> QED BY <1>3, <1>4 DEF CommitLoad, manager

LEMMA OperatorLoads ==
    ASSUME OperatorInv, NEW c \in Clients, Load(c)
    PROVE  Keeps
  <1>1. state = "idle" /\ job[c] \in Contexts
    BY LoadWhileIdle DEF OperatorInv
  <1>2. UNCHANGED <<protocols, flight>>
    BY DEF Load, LoadBegin, LoadFrame, LoadBackendClosed, LoadBackendBound,
           LoadBackendUnwound
  <1>3. UNCHANGED manager \/ \E m \in Contexts : CommitLoad(c, m)
    <2>1. CASE LoadBegin(c)
      <3>1. PICK p \in BOOLEAN, t \in Transports :
               \/ StartBackend(c, [run |-> 0, pos |-> p, sig |-> t])
               \/ UNCHANGED manager
        BY <2>1 DEF LoadBegin
      <3>2. [run |-> 0, pos |-> p, sig |-> t] \in Contexts
        BY BoundsAssumption DEF Contexts
      <3> QED BY <3>1, <3>2 DEF StartBackend, CreateBackend
    <2>2. CASE ~LoadBegin(c)
      BY <1>1, <2>2 DEF Load, LoadFrame, LoadBackendClosed, LoadBackendBound,
                        LoadBackendUnwound, StartBackend, CreateBackend
    <2> QED BY <2>1, <2>2
  <1> QED BY <1>1, <1>2, <1>3, OperatorCommits, OperatorWaits

LEMMA OperatorSetsUp ==
    ASSUME OperatorInv, NEW c \in Clients, Setup(c)
    PROVE  Keeps
  <1>1. /\ state = "loaded"
        /\ pc[c] \in SetupPCs => job[c] = context
        /\ UNCHANGED <<context, backend, bound, live>>
    BY DEF OperatorInv, ClientInv, Pending, SetupPCs, Setup, SetupBegin, SetupArmed, SetupAirborne,
           SetupArrived, SetupFails, manager, protocols
  <1>2. Stray' = Stray
    BY <1>1 DEF Stray
  <1>3. state' # "running" => Installed'
    BY <1>1 DEF OperatorInv, Installed
  <1>4. CASE \/ SetupBegin(c) \/ SetupArmed(c) \/ SetupAirborne(c) \/ SetupFails(c)
    <2>1. state' = state /\ stationed' \in {stationed, 0}
      BY <1>4 DEF SetupBegin, SetupArmed, SetupAirborne, SetupFails, manager, flight
    <2>2. Stationed'
      BY <1>1, <2>1 DEF Stationed
    <2>3. Diagram!Drift \/ UNCHANGED Diagram!vars
      BY <1>1, <1>2, <2>1 DEF Diagram!Drift, Diagram!vars
    <2> QED BY <1>1, <1>3, <2>1, <2>2, <2>3 DEF Keeps, Diagram!Next
  <1>5. CASE SetupArrived(c)
    <2>1. state' = "ready" /\ rtl' = FALSE /\ stationed' = context.run
      BY <1>1, <1>5 DEF SetupArrived, SetupPCs
    <2>2. Stationed'
      BY <1>1, <2>1 DEF Stationed
    <2>3. Diagram!Setup
      BY <1>1, <1>2, <2>1 DEF Diagram!Setup
    <2> QED BY <1>3, <2>1, <2>2, <2>3 DEF Keeps, Diagram!Next
  <1> QED BY <1>4, <1>5 DEF Setup

\* What a teardown leaves alive are protocols whose start failed.
LEMMA TeardownLeavesStrays ==
    ASSUME OperatorInv, TeardownProtocol, state' \notin {"running", "ready"}
    PROVE  /\ Installed' /\ Stationed' /\ Stray' \in {Stray, FALSE}
           /\ bound' = NoProtocol /\ bound'.run = 0 /\ ~bound'.raised
  <1>1. bound' = NoProtocol /\ bound'.run = 0 /\ ~bound'.raised
    BY DEF TeardownProtocol, NoProtocol
  <1>2. \A e \in live' : e # NoProtocol /\ e.raised
    BY DEF TeardownProtocol, OperatorInv, Installed
  <1>3. Stray' => Stray
    BY DEF TeardownProtocol, Stray
  <1>4. Stray \in BOOLEAN /\ Stray' \in BOOLEAN
    BY DEF Stray
  <1> QED BY <1>1, <1>2, <1>3, <1>4 DEF Installed, Stationed

LEMMA OperatorStarts ==
    ASSUME OperatorInv, NEW c \in Clients, Start(c)
    PROVE  Keeps
  <1>1. /\ state = "ready" /\ live' = live \cup {bound'}
        /\ bound'.id = starts + 1 /\ bound'.run = context.run /\ bound'.raised \in BOOLEAN
        /\ UNCHANGED <<context, stationed, rtl>>
        /\ state' = IF bound'.raised THEN "ready" ELSE "running"
    BY DEF Start, flight
  <1>2. bound' # NoProtocol
    BY <1>1, BoundsAssumption DEF NoProtocol, OperatorInv, ClientInv, TypeOK
  <1>3. \A e \in live : e # NoProtocol /\ e.raised
    BY <1>1 DEF OperatorInv, Installed
  <1>4. Installed'
    BY <1>1, <1>2, <1>3 DEF Installed
  <1>5. Stationed'
    BY <1>1 DEF OperatorInv, Stationed, Stray
  <1>6. IF bound.raised THEN TRUE ELSE bound.run = 0
    BY <1>1 DEF OperatorInv, Installed, NoProtocol
  <1>7. CASE bound'.raised
    <2>1. Stray' = TRUE
      BY <1>1, <1>7 DEF Stray
    <2>2. Diagram!StartFails
      BY <1>1, <1>6, <1>7, <2>1 DEF Diagram!StartFails
    <2> QED BY <1>4, <1>5, <2>2 DEF Keeps, Diagram!Next
  <1>8. CASE ~bound'.raised
    <2>1. Stray' = Stray
      BY <1>1, <1>8 DEF Stray
    <2>2. stationed = context.run \/ Stray
      BY <1>1 DEF OperatorInv, Stationed
    <2>3. Diagram!Start
      BY <1>1, <1>8, <2>1, <2>2 DEF Diagram!Start
    <2> QED BY <1>4, <1>5, <2>3 DEF Keeps, Diagram!Next
  <1> QED BY <1>7, <1>8

LEMMA OperatorOperates ==
    ASSUME OperatorInv, NEW c \in Clients,
           Start(c) \/ StopFlying(c) \/ StopLoaded(c) \/ Reset(c) \/ DeleteRun(c)
    PROVE  Keeps
  <1>1. CASE StopFlying(c)
    <2>1. /\ TeardownProtocol /\ state \in {"running", "ready"} /\ state' = "returning"
          /\ UNCHANGED <<context, stationed>>
      BY <1>1 DEF StopFlying
    <2>2. Diagram!Stop
      BY <2>1, TeardownLeavesStrays DEF Diagram!Stop
    <2> QED BY <2>1, <2>2, TeardownLeavesStrays DEF Keeps, Diagram!Next
  <1>2. CASE StopLoaded(c) \/ Reset(c)
    <2>1. /\ TeardownProtocol /\ state # "idle" /\ state' = "idle"
          /\ UNCHANGED stationed
      BY <1>2 DEF StopLoaded, Reset, flight
    <2>2. Diagram!End
      BY <2>1, TeardownLeavesStrays DEF Diagram!End
    <2> QED BY <2>1, <2>2, TeardownLeavesStrays DEF Keeps, Diagram!Next
  <1>3. CASE DeleteRun(c)
    <2>1. UNCHANGED <<state, context, bound, live, stationed, rtl>>
      BY <1>3 DEF DeleteRun, protocols, flight
    <2>2. Installed' /\ Stationed'
      BY <2>1 DEF OperatorInv, Installed, Stationed, Stray
    <2> QED BY <2>1, <2>2, StutterDiagram DEF Keeps
  <1> QED BY <1>1, <1>2, <1>3, OperatorStarts

LEMMA OperatorWatches ==
    ASSUME OperatorInv, Telemetry \/ Surroundings
    PROVE  Keeps
  <1>1. CASE /\ UNCHANGED <<state, context, bound, live>>
             /\ \/ UNCHANGED flight
                \/ (state # "ready" \/ (Stray /\ rtl' = FALSE)) /\ stationed' \in {0, stationed}
    <2>1. Stray' = Stray
      BY <1>1 DEF Stray
    <2>2. Installed' /\ Stationed'
      BY <1>1, <2>1 DEF OperatorInv, Installed, Stationed, flight
    <2>3. Diagram!Drift \/ UNCHANGED Diagram!vars
      BY <1>1, <2>1 DEF Diagram!Drift, Diagram!vars, flight
    <2> QED BY <2>2, <2>3 DEF Keeps, Diagram!Next
  <1>2. CASE TelemetryDeliver /\ state = "returning" /\ state' = "idle"
    <2>1. /\ bound = NoProtocol /\ UNCHANGED <<bound, live, stationed>>
          /\ \A e \in live : e # NoProtocol /\ e.raised
      BY <1>2 DEF TelemetryDeliver, OperatorInv, Installed, protocols, flight
    <2>2. Stray' = Stray /\ Stray \in BOOLEAN /\ bound.run = 0 /\ ~bound.raised
      BY <2>1 DEF Stray, NoProtocol
    <2>3. Installed' /\ Stationed'
      BY <1>2, <2>1 DEF Installed, Stationed
    <2>4. Diagram!End
      BY <1>2, <2>1, <2>2 DEF Diagram!End
    <2> QED BY <2>3, <2>4 DEF Keeps, Diagram!Next
  <1>3. CASE Restart
    <2>1. /\ bound' = NoProtocol /\ bound'.run = 0 /\ ~bound'.raised /\ live' = {}
          /\ state' = "idle" /\ stationed' = stationed
      BY <1>3 DEF Restart, NoProtocol, flight
    <2>2. Installed' /\ Stationed' /\ Stray' = FALSE
      BY <2>1 DEF Installed, Stationed, Stray
    <2>3. CASE state # "idle"
      BY <2>1, <2>2, <2>3 DEF Keeps, Diagram!End, Diagram!Next
    <2>4. CASE state = "idle"
      <3>1. IF bound.raised THEN TRUE ELSE bound.run = 0
        BY <2>4 DEF OperatorInv, Installed, NoProtocol
      <3> QED BY <2>1, <2>2, <2>4, <3>1 DEF Keeps, Diagram!Reboot, Diagram!Next
    <2> QED BY <2>3, <2>4
  <1>4. CASE TelemetryPoll \/ TelemetrySample \/ TelemetryFails
             \/ (TelemetryDeliver /\ UNCHANGED manager)
    BY <1>1, <1>4 DEF TelemetryPoll, TelemetrySample, TelemetryFails, TelemetryDeliver,
                      manager, protocols
  <1>5. CASE ReturnDescends \/ ReturnLands \/ ReturnRefused
    <2>1. state # "ready"
      BY <1>5 DEF ReturnDescends, ReturnLands, ReturnRefused, OperatorInv, Stationed
    <2> QED BY <1>1, <1>5, <2>1
            DEF ReturnDescends, ReturnLands, ReturnRefused, manager, protocols
  <1>6. CASE ProtocolMoves
    <2>1. state # "ready" \/ Stray
      BY <1>6 DEF ProtocolMoves, OperatorInv, Installed, Stray
    <2> QED BY <1>1, <1>6, <2>1 DEF ProtocolMoves, manager, protocols
  <1>7. CASE BackendDies
    BY <1>1, <1>7 DEF BackendDies, manager, protocols
  <1> QED BY <1>2, <1>3, <1>4, <1>5, <1>6, <1>7 DEF Telemetry, TelemetryDeliver, Surroundings

LEMMA OperatorInit == OneClient /\ Init => OperatorInv /\ Diagram!Init
  <1> SUFFICES ASSUME OneClient, Init PROVE OperatorInv /\ Diagram!Init
    OBVIOUS
  <1>1. Installed /\ Stationed
    BY DEF Init, Installed, Stationed
  <1>2. Diagram!Init
    BY DEF Init, Diagram!Init, NoMission, NoProtocol, Stray
  <1> QED BY <1>1, <1>2, ClientInit DEF OperatorInv

LEMMA OperatorNext ==
    OperatorInv /\ MissionInv' /\ [Next]_vars
        => OperatorInv' /\ [Diagram!Next]_(Diagram!vars)
  <1> SUFFICES ASSUME OperatorInv, MissionInv', [Next]_vars
               PROVE  OperatorInv' /\ [Diagram!Next]_(Diagram!vars)
    OBVIOUS
  <1>1. Keeps
    <2>1. CASE UNCHANGED vars
      BY <2>1, OperatorWaits DEF vars
    <2>2. ASSUME NEW c \in Clients, Request(c) PROVE Keeps
      BY <2>2, OperatorLoads, OperatorSetsUp, OperatorOperates DEF Request
    <2> QED BY <2>1, <2>2, OperatorWatches DEF Next
  <1>2. ClientInv'
    BY ClientNext DEF OperatorInv
  <1> QED BY <1>1, <1>2 DEF Keeps, OperatorInv

\* For one client the service implements the documented diagram, starts that fail
\* included, whatever the vehicle, the backend, the disk and the end of the process do.
THEOREM OperatorFollowsDiagram == OneClient /\ Spec => FollowsDiagram
  BY OperatorInit, OperatorNext, MissionInit, MissionNext, PTL
     DEF Spec, FollowsDiagram, Diagram!Spec

\* For one client every protocol begins at the initial position of its mission, unless
\* a protocol whose start failed is still alive.
THEOREM OperatorStartsAtPosition == OneClient /\ Spec => StartsAtInitialPosition
  <1>1. [Diagram!Next]_(Diagram!vars)
           => [state # "running" /\ state' = "running" => stationed = context.run \/ Stray]_vars
    BY DEF Diagram!Next, Diagram!vars, Diagram!Load, Diagram!Setup, Diagram!Start,
           Diagram!StartFails, Diagram!Stop, Diagram!End, Diagram!Reboot, Diagram!Drift
  <1> QED BY <1>1, OperatorFollowsDiagram, PTL
          DEF FollowsDiagram, Diagram!Spec, StartsAtInitialPosition

\* For one client no protocol that was started outlives its mission's stop.
THEOREM OperatorSilences == OneClient /\ Spec => []StoppedProtocolIsSilent
  <1>1. OperatorInv => StoppedProtocolIsSilent
    BY DEF OperatorInv, Installed, StoppedProtocolIsSilent
  <1> QED BY <1>1, OperatorInit, OperatorNext, MissionInit, MissionNext, PTL DEF Spec

=============================================================================

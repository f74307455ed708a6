----------------------- MODULE EmbeddedProvider_proofs -----------------------
(***************************************************************************)
(* A finished protocol is silent, and timers are what IProvider promises   *)
(* to a protocol that schedules none over another, for any number of       *)
(* encapsulators and timers.                                               *)
(***************************************************************************)
EXTENDS EmbeddedProvider, TLAPS

-----------------------------------------------------------------------------
(* The types.                                                              *)

LEMMA TypeInit == Init => TypeOK
  BY ProviderAssumption DEF Init, TypeOK

LEMMA TypeProtocol ==
    ASSUME TypeOK, NEW e \in Encs, ProtocolStep(e) PROVE TypeOK'
  <1>1. CASE SendMobility(e)
    BY <1>1, ProviderAssumption DEF SendMobility, TypeOK
  <1>2. CASE SendMessage(e)
    BY <1>2, ProviderAssumption DEF SendMessage, TypeOK
  <1>3. ASSUME NEW n \in Names, ScheduleTimer(e, n) PROVE TypeOK'
    <2>1. timers' \in [Encs -> SUBSET Names] /\ hushed' \in [Encs -> SUBSET Names]
      BY <1>3 DEF ScheduleTimer, TypeOK
    <2>2. n \in timers[e] => stray[e][n] + 1 \in 0 .. MaxStray
      BY <1>3, ProviderAssumption DEF ScheduleTimer, TypeOK
    <2>3. stray' \in [Encs -> [Names -> 0 .. MaxStray]]
      BY <1>3, <2>2 DEF ScheduleTimer, TypeOK
    <2> QED BY <1>3, <2>1, <2>3 DEF ScheduleTimer, TypeOK
  <1>4. ASSUME NEW n \in Names, CancelTimer(e, n) PROVE TypeOK'
    BY <1>4 DEF CancelTimer, TypeOK
  <1> QED BY <1>1, <1>2, <1>3, <1>4 DEF ProtocolStep

LEMMA TypeLoop ==
    ASSUME TypeOK, NEW e \in Encs, LoopStep(e) PROVE TypeOK'
  <1>1. CASE Bootstrap(e)
    BY <1>1 DEF Bootstrap, work, TypeOK
  <1>2. CASE HandlePacket(e)
    BY <1>2, ProviderAssumption DEF HandlePacket, work, TypeOK
  <1>3. CASE CommandEnds(e)
    BY <1>3, ProviderAssumption DEF CommandEnds, TypeOK
  <1>4. CASE FinishReturns(e)
    BY <1>4, ProviderAssumption DEF FinishReturns, Shutdown, TypeOK
  <1>5. ASSUME NEW n \in Names, TimerFires(e, n) PROVE TypeOK'
    <2>1. timers' \in [Encs -> SUBSET Names]
      BY <1>5 DEF TimerFires, PopTimer, TypeOK
    <2>2. stray' \in [Encs -> [Names -> 0 .. MaxStray]]
      <3>1. CASE n \in timers[e]
        BY <1>5, <3>1 DEF TimerFires, PopTimer, TypeOK
      <3>2. CASE n \notin timers[e]
        <4>1. stray' = [stray EXCEPT ![e][n] = @ - 1] /\ stray[e][n] > 0
          BY <1>5, <3>2 DEF TimerFires, PopTimer
        <4>2. stray[e][n] - 1 \in 0 .. MaxStray
          BY <4>1, ProviderAssumption DEF TypeOK
        <4> QED BY <4>1, <4>2 DEF TypeOK
      <3> QED BY <3>1, <3>2
    <2> QED BY <1>5, <2>1, <2>2 DEF TimerFires, TypeOK
  <1> QED BY <1>1, <1>2, <1>3, <1>4, <1>5 DEF LoopStep

LEMMA TypeNext == TypeOK /\ [Next]_vars => TypeOK'
  <1> SUFFICES ASSUME TypeOK, [Next]_vars PROVE TypeOK'
    OBVIOUS
  <1>1. CASE UNCHANGED vars
    BY <1>1 DEF vars, TypeOK
  <1>2. CASE Return
    BY <1>2 DEF Return, work, TypeOK
  <1>3. CASE Deliver
    BY <1>3 DEF Deliver, work, TypeOK
  <1>4. CASE Finish
    BY <1>4 DEF Finish, work, TypeOK
  <1>5. CASE SampleSeen
    BY <1>5 DEF SampleSeen, work, TypeOK
  <1>6. CASE SampleDispatched
    BY <1>6, ProviderAssumption DEF SampleDispatched, work, TypeOK
  <1> QED BY <1>1, <1>2, <1>3, <1>4, <1>5, <1>6, TypeProtocol, TypeLoop DEF Next

\* The state of the encapsulators keeps its types, whatever the bounds.
THEOREM ProviderTypes == Spec => []TypeOK
  BY TypeInit, TypeNext, PTL DEF Spec

-----------------------------------------------------------------------------
(* Finished protocols.                                                     *)

\* The loop is never in the code of a protocol that was shut down.
NobodyOver == busy # Nobody => stage[busy] # "over"

FinishedInv == TypeOK /\ OverHoldsNothing /\ NobodyOver

\* What a step does to a protocol that was shut down.
Ignored(e) ==
    stage[e] = "over" => /\ stage'[e] = "over" /\ busy' # e
                         /\ e \in sent' => e \in sent
                         /\ timers'[e] = {} /\ tasks'[e] = 0

\* Who has just been shut down.
JustOver(e) ==
    stage[e] # "over" /\ stage'[e] = "over"
        => timers'[e] = {} /\ tasks'[e] = 0 /\ busy' # e

LEMMA ProtocolIgnored ==
    ASSUME FinishedInv, NEW d \in Encs, ProtocolStep(d), NEW e \in Encs
    PROVE  Ignored(e) /\ JustOver(e)
  <1> USE DEF FinishedInv, TypeOK, OverHoldsNothing, NobodyOver, Ignored, JustOver
  <1>1. CASE SendMobility(d)
    BY <1>1, ProviderAssumption DEF SendMobility, Active
  <1>2. CASE SendMessage(d)
    BY <1>2, ProviderAssumption DEF SendMessage, Active
  <1>3. ASSUME NEW n \in Names, ScheduleTimer(d, n) PROVE Ignored(e) /\ JustOver(e)
    BY <1>3, ProviderAssumption DEF ScheduleTimer, Active
  <1>4. ASSUME NEW n \in Names, CancelTimer(d, n) PROVE Ignored(e) /\ JustOver(e)
    BY <1>4, ProviderAssumption DEF CancelTimer
  <1> QED BY <1>1, <1>2, <1>3, <1>4 DEF ProtocolStep

LEMMA LoopIgnores ==
    ASSUME FinishedInv, NEW d \in Encs, LoopStep(d), NEW e \in Encs
    PROVE  Ignored(e) /\ JustOver(e)
  <1> USE DEF FinishedInv, TypeOK, OverHoldsNothing, NobodyOver, Ignored, JustOver
  <1>1. CASE Bootstrap(d)
    BY <1>1, ProviderAssumption DEF Bootstrap, work
  <1>2. CASE HandlePacket(d)
    BY <1>2, ProviderAssumption DEF HandlePacket, Finished, work
  <1>3. CASE CommandEnds(d)
    BY <1>3, ProviderAssumption DEF CommandEnds
  <1>4. CASE FinishReturns(d)
    BY <1>4, ProviderAssumption DEF FinishReturns, Shutdown
  <1>5. ASSUME NEW n \in Names, TimerFires(d, n) PROVE Ignored(e) /\ JustOver(e)
    BY <1>5, ProviderAssumption DEF TimerFires, PopTimer, Active
  <1> QED BY <1>1, <1>2, <1>3, <1>4, <1>5 DEF LoopStep

LEMMA NextIgnores ==
    ASSUME FinishedInv, [Next]_vars, NEW e \in Encs PROVE Ignored(e) /\ JustOver(e)
  <1> USE DEF FinishedInv, TypeOK, OverHoldsNothing, NobodyOver, Ignored, JustOver
  <1>1. CASE UNCHANGED vars
    BY <1>1, ProviderAssumption DEF vars
  <1>2. CASE Return
    BY <1>2, ProviderAssumption DEF Return, work
  <1>3. CASE Deliver
    BY <1>3, ProviderAssumption DEF Deliver, Finished, work
  <1>4. CASE Finish
    BY <1>4, ProviderAssumption DEF Finish, work
  <1>5. CASE SampleSeen \/ SampleDispatched
    BY <1>5, ProviderAssumption DEF SampleSeen, SampleDispatched, work
  <1>6. ASSUME NEW d \in Encs, ProtocolStep(d) PROVE Ignored(e) /\ JustOver(e)
    BY <1>6, ProtocolIgnored
  <1>7. ASSUME NEW d \in Encs, LoopStep(d) PROVE Ignored(e) /\ JustOver(e)
    BY <1>7, LoopIgnores
  <1> QED BY <1>1, <1>2, <1>3, <1>4, <1>5, <1>6, <1>7 DEF Next

LEMMA FinishedInit == Init => FinishedInv
  BY TypeInit DEF Init, FinishedInv, OverHoldsNothing, NobodyOver

LEMMA FinishedNext == FinishedInv /\ [Next]_vars => FinishedInv'
  <1> SUFFICES ASSUME FinishedInv, [Next]_vars PROVE FinishedInv'
    OBVIOUS
  <1>1. TypeOK'
    BY TypeNext DEF FinishedInv
  <1>2. ASSUME NEW e \in Encs, stage'[e] = "over"
        PROVE  timers'[e] = {} /\ tasks'[e] = 0 /\ busy' # e
    BY <1>2, NextIgnores DEF Ignored, JustOver
  <1>3. OverHoldsNothing'
    BY <1>2 DEF OverHoldsNothing
  <1>4. NobodyOver'
    BY <1>1, <1>2 DEF NobodyOver, TypeOK
  <1> QED BY <1>1, <1>3, <1>4 DEF FinishedInv

\* A provider that was shut down holds no timer and no task, ever.
THEOREM FinishedHoldsNothing == Spec => []OverHoldsNothing
  <1>1. FinishedInv => OverHoldsNothing
    BY DEF FinishedInv
  <1> QED BY <1>1, FinishedInit, FinishedNext, PTL DEF Spec

\* After finish() nothing reaches the protocol and nothing of it leaves.
THEOREM FinishedIsSilent == Spec => SilentAfterFinish
  <1>1. FinishedInv /\ [Next]_vars
            => [\A e \in Encs : stage[e] = "over" =>
                    /\ stage'[e] = "over" /\ busy' # e
                    /\ (e \in sent' => e \in sent) /\ tasks'[e] = 0]_vars
    BY NextIgnores DEF Ignored
  <1> QED BY <1>1, FinishedInit, FinishedNext, PTL DEF Spec, SilentAfterFinish

-----------------------------------------------------------------------------
(* Timers.                                                                 *)

\* A protocol that schedules no timer over another has no stray ones.
NoneStray == \A e \in Encs \ Careless : \A n \in Names : stray[e][n] = 0

TimerInv == TypeOK /\ OverHoldsNothing /\ NoneStray

Steady == stage' = stage /\ timers' = timers /\ stray' = stray /\ hushed' = hushed

Kept == NoneStray' /\ [Careful!Next]_(Careful!vars)

\* What becomes of the timers of one protocol becomes of those promised, or, if it is
\* careless, of none promised.
LEMMA OneProtocol ==
    ASSUME TimerInv, NEW d \in Encs, Over' = Over,
           \A e \in Encs \ {d} : /\ \A n \in Names : Pending(e, n)' = Pending(e, n)
                                 /\ hushed'[e] = hushed[e],
           NEW f, f = [n \in Names |-> Pending(d, n)'],
           NEW h, h = hushed'[d], hushed' \in [Encs -> SUBSET Names]
    PROVE  \/ d \in Careless /\ UNCHANGED Careful!vars
           \/ /\ d \in Encs \ Careless
              /\ Promised(Encs \ Careless)'
                    = [Promised(Encs \ Careless) EXCEPT ![d] = f]
              /\ [e \in Encs \ Careless |-> hushed'[e]]
                    = [[e \in Encs \ Careless |-> hushed[e]] EXCEPT ![d] = h]
              /\ (Over \ Careless)' = Over \ Careless
  <1>1. CASE d \in Careless
    BY <1>1 DEF Promised, Careful!vars
  <1>2. CASE d \notin Careless
    BY <1>2 DEF Promised
  <1> QED BY <1>1, <1>2

\* Whoever touches neither stages nor timers does nothing to what is promised.
LEMMA SteadyKeeps == ASSUME TimerInv, Steady PROVE Kept
  BY DEF TimerInv, NoneStray, Steady, Kept, Careful!vars, Promised, Pending, Over

\* Starting or beginning to finish changes no timer either.
LEMMA StageKeeps ==
    ASSUME TimerInv, NEW d \in Encs, NEW s \in {"live", "finishing"}, stage[d] # "over",
           stage' = [stage EXCEPT ![d] = s],
           timers' = timers, stray' = stray, hushed' = hushed
    PROVE  Kept
  <1>1. Over' = Over
    BY DEF TimerInv, TypeOK, Over
  <1>2. \A e \in Encs : stage'[e] = "over" <=> stage[e] = "over"
    BY DEF TimerInv, TypeOK
  <1>3. Promised(Encs \ Careless)' = Promised(Encs \ Careless)
    BY <1>2 DEF Promised, Pending
  <1> QED BY <1>1, <1>3 DEF TimerInv, NoneStray, Kept, Careful!vars

LEMMA ScheduleKeeps ==
    ASSUME TimerInv, NEW d \in Encs, NEW n \in Names, ScheduleTimer(d, n)
    PROVE  Kept
  <1> USE DEF TimerInv, TypeOK
  <1>1. NoneStray'
    BY DEF ScheduleTimer, NoneStray
  <1>2. Over' = Over
    BY DEF ScheduleTimer, Over
  <1>3. \A e \in Encs \ {d} : /\ \A m \in Names : Pending(e, m)' = Pending(e, m)
                              /\ hushed'[e] = hushed[e]
    BY DEF ScheduleTimer, Pending
  <1>4. hushed' \in [Encs -> SUBSET Names] /\ hushed'[d] = hushed[d] \ {n}
    BY DEF ScheduleTimer
  <1>5. CASE d \in Careless
    BY <1>1, <1>2, <1>3, <1>4, <1>5, OneProtocol DEF Kept
  <1>6. CASE d \notin Careless
    <2>1. \A m \in Names :
             Pending(d, m)' = IF m = n THEN Pending(d, m) + 1 ELSE Pending(d, m)
      BY <1>6 DEF ScheduleTimer, Pending, NoneStray, Active
    <2>2. [m \in Names |-> Pending(d, m)']
             = [Promised(Encs \ Careless)[d] EXCEPT ![n] = @ + 1]
      BY <1>6, <2>1 DEF Promised
    <2>3. d \notin Over
      BY DEF ScheduleTimer, Active, Over
    <2>4. Careful!Schedule(d, n)
      BY <1>2, <1>3, <1>4, <1>6, <2>2, <2>3, OneProtocol DEF Careful!Schedule
    <2> QED BY <1>1, <1>6, <2>4 DEF Kept, Careful!Next
  <1> QED BY <1>5, <1>6

LEMMA CancelKeeps ==
    ASSUME TimerInv, NEW d \in Encs, NEW n \in Names, CancelTimer(d, n)
    PROVE  Kept
  <1> USE DEF TimerInv, TypeOK
  <1>1. NoneStray'
    BY DEF CancelTimer, NoneStray
  <1>2. Over' = Over
    BY DEF CancelTimer, Over
  <1>3. \A e \in Encs \ {d} : /\ \A m \in Names : Pending(e, m)' = Pending(e, m)
                              /\ hushed'[e] = hushed[e]
    BY DEF CancelTimer, Pending
  <1>4. hushed' \in [Encs -> SUBSET Names] /\ hushed'[d] = hushed[d] \cup {n}
    BY DEF CancelTimer
  <1>5. CASE d \in Careless
    BY <1>1, <1>2, <1>3, <1>4, <1>5, OneProtocol DEF Kept
  <1>6. CASE d \notin Careless
    <2>1. \A m \in Names : Pending(d, m)' = IF m = n THEN 0 ELSE Pending(d, m)
      BY <1>6 DEF CancelTimer, Pending, NoneStray
    <2>2. [m \in Names |-> Pending(d, m)']
             = [Promised(Encs \ Careless)[d] EXCEPT ![n] = 0]
      BY <1>6, <2>1 DEF Promised
    <2>3. Careful!Cancel(d, n)
      BY <1>2, <1>3, <1>4, <1>6, <2>2, OneProtocol DEF Careful!Cancel
    <2> QED BY <1>1, <1>6, <2>3 DEF Kept, Careful!Next
  <1> QED BY <1>5, <1>6

LEMMA FiringKeeps ==
    ASSUME TimerInv, NEW d \in Encs, NEW n \in Names, TimerFires(d, n)
    PROVE  Kept
  <1> USE DEF TimerInv, TypeOK
  <1>1. d \notin Careless => n \in timers[d] /\ UNCHANGED stray
    BY DEF TimerFires, PopTimer, NoneStray
  <1>2. \A e \in Encs \ {d} : timers'[e] = timers[e] /\ stray'[e] = stray[e]
    BY DEF TimerFires, PopTimer
  <1>3. NoneStray'
    BY <1>1, <1>2 DEF NoneStray
  <1>4. Over' = Over /\ stage' = stage /\ hushed' = hushed
    BY DEF TimerFires, Over
  <1>5. \A e \in Encs \ {d} : /\ \A m \in Names : Pending(e, m)' = Pending(e, m)
                              /\ hushed'[e] = hushed[e]
    BY <1>2, <1>4 DEF Pending
  <1>6. CASE d \in Careless
    BY <1>3, <1>4, <1>5, <1>6, OneProtocol DEF Kept
  <1>7. CASE d \notin Careless
    <2>1. timers'[d] = timers[d] \ {n} /\ stray'[d] = stray[d]
      BY <1>1, <1>7 DEF TimerFires, PopTimer
    <2>2. d \notin Over
      BY <1>1, <1>7 DEF OverHoldsNothing, Over
    <2>3. \A m \in Names :
             Pending(d, m)' = IF m = n THEN Pending(d, m) - 1 ELSE Pending(d, m)
      BY <1>1, <1>4, <1>7, <2>1, <2>2 DEF Pending, NoneStray, Over
    <2>4. Pending(d, n) = 1
      BY <1>1, <1>7, <2>2 DEF Pending, NoneStray, Over
    <2>5. [m \in Names |-> Pending(d, m)']
             = [Promised(Encs \ Careless)[d] EXCEPT ![n] = @ - 1]
      BY <1>7, <2>3 DEF Promised
    <2>6. Promised(Encs \ Careless)[d][n] > 0
      BY <1>7, <2>4 DEF Promised
    <2>7. Careful!Fire(d, n)
      BY <1>4, <1>5, <1>7, <2>2, <2>5, <2>6, OneProtocol DEF Careful!Fire
    <2> QED BY <1>3, <1>7, <2>7 DEF Kept, Careful!Next
  <1> QED BY <1>6, <1>7

LEMMA FinishKeeps ==
    ASSUME TimerInv, NEW d \in Encs, FinishReturns(d) PROVE Kept
  <1> USE DEF TimerInv, TypeOK
  <1>1. NoneStray' /\ Over' = Over \cup {d}
    BY DEF FinishReturns, NoneStray, Over
  <1>2. \A e \in Encs : e # d => /\ timers'[e] = timers[e] /\ stage'[e] = stage[e]
                                 /\ stray'[e] = stray[e] /\ hushed'[e] = hushed[e]
    BY DEF FinishReturns, Shutdown
  <1>3. \A e \in Encs : e # d => \A n \in Names : Pending(e, n)' = Pending(e, n)
    BY <1>2 DEF Pending
  <1>4. \A n \in Names : Pending(d, n)' = 0
    BY DEF FinishReturns, Pending
  <1>5. hushed'[d] = {}
    BY DEF FinishReturns
  <1>6. CASE d \in Careless
    <2>1. (Over \ Careless)' = Over \ Careless
      BY <1>1, <1>6
    <2>2. Promised(Encs \ Careless)' = Promised(Encs \ Careless)
      BY <1>3, <1>6 DEF Promised
    <2>3. [e \in Encs \ Careless |-> hushed'[e]] = [e \in Encs \ Careless |-> hushed[e]]
      BY <1>2, <1>6
    <2> QED BY <1>1, <2>1, <2>2, <2>3 DEF Kept, Careful!vars
  <1>7. CASE d \notin Careless
    <2>1. (Over \ Careless)' = (Over \ Careless) \cup {d}
      BY <1>1, <1>7
    <2>2. Promised(Encs \ Careless)'
             = [Promised(Encs \ Careless) EXCEPT ![d] = [n \in Names |-> 0]]
      BY <1>3, <1>4, <1>7 DEF Promised
    <2>3. [e \in Encs \ Careless |-> hushed'[e]]
             = [[e \in Encs \ Careless |-> hushed[e]] EXCEPT ![d] = {}]
      BY <1>2, <1>5, <1>7
    <2>4. Careful!Close(d)
      BY <2>1, <2>2, <2>3 DEF Careful!Close
    <2> QED BY <1>1, <1>7, <2>4 DEF Kept, Careful!Next
  <1> QED BY <1>6, <1>7

LEMMA TimersNext == TimerInv /\ [Next]_vars => Kept
  <1> SUFFICES ASSUME TimerInv, [Next]_vars PROVE Kept
    OBVIOUS
  <1>1. CASE UNCHANGED vars
    BY <1>1, SteadyKeeps DEF vars, Steady
  <1>2. CASE Return \/ Deliver \/ SampleSeen \/ SampleDispatched
    BY <1>2, SteadyKeeps DEF Return, Deliver, SampleSeen, SampleDispatched, work, Steady
  <1>3. CASE Finish
    <2>1. bound \in Encs
      BY <1>3 DEF Finish, TimerInv, TypeOK
    <2> QED BY <1>3, <2>1, StageKeeps DEF Finish, work
  <1>4. ASSUME NEW d \in Encs, SendMobility(d) \/ SendMessage(d) PROVE Kept
    BY <1>4, SteadyKeeps DEF SendMobility, SendMessage, Steady
  <1>5. ASSUME NEW d \in Encs, NEW n \in Names, ScheduleTimer(d, n) \/ CancelTimer(d, n)
        PROVE  Kept
    BY <1>5, ScheduleKeeps, CancelKeeps
  <1>6. ASSUME NEW d \in Encs, Bootstrap(d) PROVE Kept
    BY <1>6, StageKeeps DEF Bootstrap, work
  <1>7. ASSUME NEW d \in Encs, HandlePacket(d) \/ CommandEnds(d) PROVE Kept
    BY <1>7, SteadyKeeps DEF HandlePacket, CommandEnds, work, Steady
  <1>8. ASSUME NEW d \in Encs, FinishReturns(d) PROVE Kept
    BY <1>8, FinishKeeps
  <1>9. ASSUME NEW d \in Encs, NEW n \in Names, TimerFires(d, n) PROVE Kept
    BY <1>9, FiringKeeps
  <1> QED BY <1>1, <1>2, <1>3, <1>4, <1>5, <1>6, <1>7, <1>8, <1>9
          DEF Next, ProtocolStep, LoopStep

\* The provider implements IProvider's timers for protocols that schedule none while it
\* is pending.
THEOREM ProviderKeepsPromises == Spec => TimersAsDocumented
  <1>1. Init => NoneStray /\ Careful!Init
    BY DEF Init, NoneStray, Careful!Init, Promised, Pending, Over
  <1>2. FinishedInv => OverHoldsNothing
    BY DEF FinishedInv
  <1>3. FinishedInv /\ NoneStray => TimerInv
    BY DEF FinishedInv, TimerInv
  <1> QED BY <1>1, <1>2, <1>3, FinishedInit, FinishedNext, TimersNext, PTL
          DEF Kept, Spec, TimersAsDocumented, Careful!Spec

=============================================================================

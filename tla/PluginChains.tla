----------------------------- MODULE PluginChains -----------------------------
(***************************************************************************)
(* The call chains of a protocol that uses plugins                         *)
(* (protocol/plugin/dispatcher.py), with two plugins that change them      *)
(* while they are in use: statistics (statistics.py) and random trips      *)
(* (random_mobility.py).                                                   *)
(*                                                                         *)
(* A call walks a list that is changed under it.  The protocol's own       *)
(* method, at the end of each chain, is where the plugins are called from. *)
(* Statistics are created and finished once, as they are in a mission.     *)
(***************************************************************************)
EXTENDS Integers, Sequences, SequencesExt

CONSTANTS
    Trips,        \* handlers that initiate_random_trip makes
    None,
    Intervals,    \* what flush_every may be; 0 asks for no periodic writes
    MaxRows       \* bound: rows are counted up to here

ASSUME ChainsAssumption ==
    /\ Trips \cap {"srt", "tv", "own", "never"} = {}
    /\ None \notin Trips \cup {"srt", "tv", "own", "never", "time", "tracked"}
    /\ MaxRows \in Nat /\ Intervals \subseteq 0 .. MaxRows

VARIABLES
    chain,        \* the handlers of each method, in the order they are called
    walk,         \* the call: its method, position in the chain, handler and argument
    due,          \* history: the handlers there were when the call began
    ran,          \* history: those that have run in it
    again,        \* history: those that have run in it more than once
    grown,        \* history: a handler was registered in its chain meanwhile
    statistics,   \* "never" created, "on", or "finished"
    pending,      \* a timer called "statistics" is pending
    every,        \* _flush_every
    since,        \* _samples_since_flush
    behind,       \* rows collected that their file does not have
    writing,      \* the file that is being rewritten, which was cut to nothing first
    cut,          \* history: files that an error left cut short
    failed,       \* history: the last rewriting of the files failed
    trip          \* _patched_handle_telemetry; "never" before the first trip

vars == <<chain, walk, due, ran, again, grown, statistics, pending, every, since, behind,
          writing, cut, failed, trip>>
call == <<walk, due, ran, again, grown>>
collected == <<statistics, pending, every, since, behind, writing, cut, failed>>

Methods == {"initialize", "timer", "telemetry", "packet"}
Handlers == {"srt", "tv", "own"} \cup Trips
Files == {"time", "tracked"}

\* The rows of the two files; those that packets add to the second are counted apart.
Rows == Files \cup {"received"}

Calls == [of : Methods, at : Nat, handler : Handlers, arg : {"statistics", "other"}]
Idle == [of |-> None, at |-> 0, handler |-> None, arg |-> None]

TypeOK ==
    /\ chain \in [Methods -> Seq(Handlers)]
    /\ \A c \in Methods : chain[c] # <<>> /\ Last(chain[c]) = "own"
    /\ walk \in Calls \cup {Idle}
    /\ due \subseteq Handlers /\ ran \subseteq Handlers /\ again \subseteq ran
    /\ grown \in BOOLEAN
    /\ statistics \in {"never", "on", "finished"}
    /\ pending \in BOOLEAN /\ failed \in BOOLEAN
    /\ every \in {0} \cup Intervals /\ since \in 0 .. MaxRows
    /\ behind \in [Rows -> 0 .. MaxRows]
    /\ writing \in Files \cup {None} /\ cut \subseteq Files
    /\ trip \in Trips \cup {"never", None}

\* The protocol is being initialized.
Init ==
    /\ chain = [c \in Methods |-> <<"own">>]
    /\ walk = [of |-> "initialize", at |-> 1, handler |-> "own", arg |-> "other"]
    /\ due = {"own"} /\ ran = {"own"} /\ again = {} /\ grown = FALSE
    /\ statistics = "never" /\ pending = FALSE /\ every = 0
    /\ since = 0 /\ behind = [r \in Rows |-> 0]
    /\ writing = None /\ cut = {} /\ failed = FALSE
    /\ trip = "never"

-----------------------------------------------------------------------------
(* The dispatcher.                                                         *)

\* A call of a wrapped method: its first handler runs.
Begin(c, arg) ==
    /\ walk = Idle
    /\ walk' = [of |-> c, at |-> 1, handler |-> chain[c][1], arg |-> arg]
    /\ due' = Range(chain[c])
    /\ ran' = {chain[c][1]} /\ again' = {} /\ grown' = FALSE

Running == walk # Idle /\ writing = None

\* The chain is at its end, or a handler returns INTERRUPT or raises.
EndCall == walk' = Idle /\ due' = {} /\ ran' = {} /\ again' = {} /\ grown' = FALSE

\* The handler returns CONTINUE, or nothing: the next one runs, of the list as it is by
\* now.
Continue(handlers) ==
    \/ LET h == handlers[walk.at + 1]
       IN /\ walk.at < Len(handlers)
          /\ walk' = [walk EXCEPT !.at = @ + 1, !.handler = h]
          /\ ran' = ran \cup {h} /\ again' = again \cup (ran \cap {h})
          /\ UNCHANGED <<due, grown>>
    \/ walk.at >= Len(handlers) /\ EndCall

\* Faulty variant: new handlers go to the end.
InsertLast(handlers, h) == handlers \o <<h>>

\* register_... puts a handler at the head of the list, which moves the others on.
Insert(handlers, h) == <<h>> \o handlers

\* Handlers were registered in the chains of these methods.
Grow(methods) ==
    /\ grown' = (grown \/ walk.of \in methods)
    /\ UNCHANGED <<walk, due, ran, again>>

Unregister(c, h) == chain' = [chain EXCEPT ![c] = RemoveFirst(@, h)]

-----------------------------------------------------------------------------
(* Random trips.                                                           *)

Own == Running /\ walk.handler = "own"

\* initiate_random_trip.  A trip that was on is not finished, and nothing will.
InitiateTrip(t) ==
    /\ Own /\ t \notin Range(chain["telemetry"])
    /\ chain' = [chain EXCEPT !["telemetry"] = Insert(@, t)] /\ Grow({"telemetry"})
    /\ trip' = t
    /\ UNCHANGED collected

\* finish_random_trip.  Before the first trip there is no _trip_ongoing, and it raises.
FinishTrip ==
    /\ Own
    /\ \/ trip = "never" /\ EndCall /\ UNCHANGED <<chain, trip>>
       \/ /\ trip \in Trips /\ trip' = None
          /\ Unregister("telemetry", trip) /\ UNCHANGED call
    /\ UNCHANGED collected

\* Faulty variant: a trip that arrived unregisters itself.
TripHandlerOnce ==
    /\ Running /\ walk.handler \in Trips
    /\ Unregister("telemetry", walk.handler)
    /\ trip' = None
    /\ Continue(chain'["telemetry"])
    /\ UNCHANGED collected

\* patched_handle_telemetry, which may send the vehicle elsewhere.
TripHandler ==
    /\ Running /\ walk.handler \in Trips
    /\ Continue(chain[walk.of])
    /\ UNCHANGED <<chain, collected, trip>>

-----------------------------------------------------------------------------
(* Statistics.                                                             *)

\* create_statistics, with any flush_every.
CreateStatistics ==
    /\ Own /\ statistics = "never"
    /\ statistics' = "on" /\ pending' = TRUE /\ every' \in Intervals
    /\ chain' = [chain EXCEPT !["timer"] = Insert(@, "srt"), !["packet"] = Insert(@, "tv")]
    /\ Grow({"timer", "packet"})
    /\ UNCHANGED <<since, behind, writing, cut, failed, trip>>

\* One more, up to MaxRows.
More(n) == IF n < MaxRows THEN n + 1 ELSE n

Collect(rows) == behind' = [r \in Rows |-> IF r \in rows THEN More(behind[r]) ELSE behind[r]]

FlushDue(n) == every > 0 /\ n >= every

\* handle_timer_srt, of the timer of that name: a row for each file, and the next timer.
\* Every flush_every samples the files are rewritten before the rest.
Sample ==
    /\ Running /\ walk.handler = "srt" /\ walk.arg = "statistics"
    /\ since' = More(since)
    /\ IF FlushDue(since + 1)
       THEN Collect({"time"}) /\ writing' = "time" /\ UNCHANGED <<call, pending>>
       ELSE Collect(Files) /\ pending' = TRUE /\ EndCall /\ UNCHANGED writing
    /\ UNCHANGED <<chain, statistics, every, cut, failed, trip>>

\* handle_packet_tv: a row that no sample counts.
TrackPacket ==
    /\ Running /\ walk.handler = "tv"
    /\ Collect({"received"})
    /\ Continue(chain[walk.of])
    /\ UNCHANGED <<chain, statistics, pending, every, since, writing, cut, failed, trip>>

\* handle_timer_srt, of another timer.
SamplePasses ==
    /\ Running /\ walk.handler = "srt" /\ walk.arg # "statistics"
    /\ Continue(chain[walk.of])
    /\ UNCHANGED <<chain, collected, trip>>

\* StatisticsProtocolWrapper.unregister
UnregisterStatistics ==
    chain' = [chain EXCEPT !["timer"] = RemoveFirst(@, "srt"),
                           !["packet"] = RemoveFirst(@, "tv")]

\* finish_statistics, up to the writing of the files.  The timer stays pending, and will
\* reach the protocol's own method.
FinishStatistics ==
    /\ Own /\ statistics = "on"
    /\ statistics' = "finished" /\ writing' = "time"
    /\ UnregisterStatistics
    /\ UNCHANGED <<call, pending, every, since, behind, cut, failed, trip>>

\* Faulty variant: the rows collected since the last flush are forgotten.
TimeWrittenPartly ==
    /\ writing = "time" /\ writing' = "tracked"
    /\ cut' = cut \ {"time"} /\ UNCHANGED behind
    /\ UNCHANGED <<chain, call, statistics, pending, every, since, failed, trip>>

\* The first half of create_statistic_files.
TimeWritten ==
    /\ writing = "time" /\ writing' = "tracked"
    /\ cut' = cut \ {"time"} /\ behind' = [behind EXCEPT !["time"] = 0]
    /\ UNCHANGED <<chain, call, statistics, pending, every, since, failed, trip>>

\* Faulty variant: the timer is not scheduled again after the files were written.
TrackedWrittenOnce ==
    /\ writing = "tracked" /\ writing' = None
    /\ since' = 0 /\ cut' = cut \ {"tracked"} /\ failed' = FALSE
    /\ IF statistics = "on"
       THEN behind' = [behind EXCEPT !["tracked"] = 1, !["received"] = 0] /\ EndCall
       ELSE behind' = [behind EXCEPT !["tracked"] = 0, !["received"] = 0] /\ UNCHANGED call
    /\ UNCHANGED <<chain, statistics, pending, every, trip>>

\* The second half; and what is left of handle_timer_srt, if it was a sample's.
TrackedWritten ==
    /\ writing = "tracked" /\ writing' = None
    /\ since' = 0 /\ cut' = cut \ {"tracked"} /\ failed' = FALSE
    /\ IF statistics = "on"
       THEN /\ behind' = [behind EXCEPT !["tracked"] = 1, !["received"] = 0]
            /\ pending' = TRUE /\ EndCall
       ELSE /\ behind' = [behind EXCEPT !["tracked"] = 0, !["received"] = 0]
            /\ UNCHANGED <<call, pending>>
    /\ UNCHANGED <<chain, statistics, every, trip>>

\* A file cannot be opened, or not be written to the end: whoever asked for it raises, a
\* sample before it scheduled the next.
WriteFails ==
    /\ writing # None /\ writing' = None
    /\ cut' \in {cut, cut \cup {writing}} /\ failed' = TRUE
    /\ EndCall
    /\ UNCHANGED <<chain, statistics, pending, every, since, behind, trip>>

-----------------------------------------------------------------------------
(* The loop, and the protocol's own methods.                               *)

StatisticsTimer ==
    /\ pending /\ pending' = FALSE
    /\ Begin("timer", "statistics")
    /\ UNCHANGED <<chain, statistics, every, since, behind, writing, cut, failed, trip>>

OtherCall(c) ==
    /\ Begin(c, "other")
    /\ UNCHANGED <<chain, collected, trip>>

OwnReturns ==
    /\ Own /\ Continue(chain[walk.of])
    /\ UNCHANGED <<chain, collected, trip>>

-----------------------------------------------------------------------------

Next ==
    \/ StatisticsTimer \/ OtherCall("timer") \/ OtherCall("telemetry") \/ OtherCall("packet")
    \/ TripHandler \/ Sample \/ SamplePasses \/ TrackPacket
    \/ \E t \in Trips : InitiateTrip(t)
    \/ FinishTrip \/ CreateStatistics \/ FinishStatistics \/ OwnReturns
    \/ TimeWritten \/ TrackedWritten \/ WriteFails

Spec == Init /\ [][Next]_vars

\* Callbacks return, and the loop runs a timer that is due.
Fairness ==
    /\ WF_vars(OwnReturns) /\ WF_vars(TripHandler) /\ WF_vars(TrackPacket)
    /\ WF_vars(Sample \/ SamplePasses)
    /\ WF_vars(TimeWritten) /\ WF_vars(TrackedWritten)
    /\ SF_vars(StatisticsTimer)

FairSpec == Spec /\ Fairness

-----------------------------------------------------------------------------
(* What has to hold.                                                       *)

\* A call that came to the end of its chain has run every handler that was registered all
\* along, and none twice, unless others were registered in the chain meanwhile: then
\* those at its end, the protocol's own among them, may have run again.
WalksInFull ==
    [][(walk # Idle /\ walk' = Idle /\ Continue(chain'[walk.of])) =>
         \A h \in due \cap Range(chain'[walk.of]) :
             h \in ran /\ (h \in again => grown)]_vars

\* What an unclean death of the process would cost: as long as no rewriting has failed,
\* a file lacks the rows of the last flush_every samples at most, and those of packets
\* since then -- but for the one that is being rewritten in place, which may be left with
\* none of its rows.  A finish_statistics that succeeds leaves nothing out, for any
\* flush_every and after any failure.
LossIsCapped ==
    ~failed =>
        /\ cut = {}
        /\ statistics = "on" /\ every > 0 =>
              /\ writing # "time" => behind["time"] < every
              /\ writing # "tracked" => behind["tracked"] <= every
        /\ statistics = "finished" /\ writing = None => \A r \in Rows : behind[r] = 0

\* Samples are taken as long as statistics are on, and files rewritten unless flush_every
\* is 0, whatever the other handlers do, unless a file could not be written.
SamplingGoesOn ==
    <>[](statistics = "on" /\ ~failed) =>
        /\ []<>(walk.handler = "srt" /\ walk.arg = "statistics")
        /\ []<>(writing = "tracked" \/ every = 0)

=============================================================================

------------------------- MODULE PluginChains_proofs -------------------------
(***************************************************************************)
(* Proofs about handler chains and the two plugins that change them in use, *)
(* for any number of trips and any flush_every, 0 included.                 *)
(***************************************************************************)
EXTENDS PluginChains, SequenceTheorems, TLAPS

-----------------------------------------------------------------------------
(* A chain without one of its handlers, and with one more.                 *)

Distinct(s) == \A i, j \in 1 .. Len(s) : s[i] = s[j] => i = j

\* list.remove takes the handler out, and the ones behind it move up.
LEMMA RemoveFirstProperties ==
    ASSUME NEW S, NEW s \in Seq(S), Distinct(s), NEW k \in 1 .. Len(s)
    PROVE  /\ RemoveFirst(s, s[k]) \in Seq(S)
           /\ Len(RemoveFirst(s, s[k])) = Len(s) - 1
           /\ \A i \in 1 .. Len(s) - 1 :
                 RemoveFirst(s, s[k])[i] = s[IF i < k THEN i ELSE i + 1]
<1> DEFINE I == {i \in 1 .. Len(s) : s[i] = s[k]}
<1>1. I = {k}
  BY DEF Distinct
<1>2. SelectInSeq(s, LAMBDA v : v = s[k]) = k
  <2>1. Min({k}) = k
    BY DEF Min
  <2> QED BY <1>1, <2>1 DEF SelectInSeq
<1>3. RemoveFirst(s, s[k]) = SubSeq(s, 1, k - 1) \o SubSeq(s, k + 1, Len(s))
  BY <1>2 DEF RemoveFirst, RemoveAt
<1> DEFINE a == SubSeq(s, 1, k - 1)
           b == SubSeq(s, k + 1, Len(s))
<1>4. Len(s) \in Nat /\ \A i \in 1 .. Len(s) : s[i] \in S
  BY LenProperties, ElementOfSeq
<1>5. /\ a \in Seq(S) /\ Len(a) = k - 1
      /\ \A i \in 1 .. k - 1 : a[i] = s[i]
  BY <1>4, SubSeqProperties
<1>6. /\ b \in Seq(S) /\ Len(b) = Len(s) - k
      /\ \A i \in 1 .. Len(s) - k : b[i] = s[k + i]
  <2>1. \A i \in k + 1 .. Len(s) : s[i] \in S
    BY <1>4
  <2> HIDE DEF b
  <2>2. /\ b \in Seq(S)
        /\ Len(b) = IF k + 1 <= Len(s) THEN Len(s) - (k + 1) + 1 ELSE 0
        /\ \A i \in 1 .. Len(s) - (k + 1) + 1 : b[i] = s[(k + 1) + i - 1]
    BY <1>4, <2>1, SubSeqProperties DEF b
  <2> QED BY <1>4, <2>2
<1> HIDE DEF a, b
<1>7. /\ a \o b \in Seq(S) /\ Len(a \o b) = Len(s) - 1
      /\ \A i \in 1 .. Len(s) - 1 : (a \o b)[i] = IF i <= k - 1 THEN a[i] ELSE b[i - (k - 1)]
  BY <1>4, <1>5, <1>6, ConcatProperties
<1>8. \A i \in 1 .. Len(s) - 1 : (a \o b)[i] = s[IF i < k THEN i ELSE i + 1]
  BY <1>4, <1>5, <1>6, <1>7
<1> QED BY <1>3, <1>7, <1>8 DEF a, b

\* insert(0, h) puts a new handler ahead of the others.
LEMMA PrependProperties ==
    ASSUME NEW S, NEW s \in Seq(S), Distinct(s), NEW h \in S, h \notin Range(s)
    PROVE  /\ <<h>> \o s \in Seq(S)
           /\ Distinct(<<h>> \o s)
           /\ Len(<<h>> \o s) = Len(s) + 1
           /\ (<<h>> \o s)[1] = h
           /\ \A i \in 1 .. Len(s) : (<<h>> \o s)[i + 1] = s[i]
<1>1. Len(s) \in Nat /\ <<h>> \in Seq(S) /\ Len(<<h>>) = 1
  BY LenProperties
<1>2. /\ <<h>> \o s \in Seq(S) /\ Len(<<h>> \o s) = 1 + Len(s)
      /\ \A i \in 1 .. 1 + Len(s) :
            (<<h>> \o s)[i] = IF i <= 1 THEN <<h>>[i] ELSE s[i - 1]
  BY <1>1, ConcatProperties
<1>3. (<<h>> \o s)[1] = h /\ \A i \in 2 .. Len(s) + 1 : (<<h>> \o s)[i] = s[i - 1]
  BY <1>1, <1>2
<1>4. \A i \in 1 .. Len(s) : s[i] # h
  BY <1>1 DEF Range
<1>5. Distinct(<<h>> \o s)
  BY <1>1, <1>2, <1>3, <1>4 DEF Distinct
<1> QED BY <1>1, <1>2, <1>3, <1>5

\* What is taken out leaves distinct handlers, and the last one last.
LEMMA RemoveKeeps ==
    ASSUME NEW S, NEW s \in Seq(S), Distinct(s), NEW k \in 1 .. Len(s) - 1
    PROVE  LET r == RemoveFirst(s, s[k])
           IN  /\ r \in Seq(S) /\ Distinct(r) /\ Len(r) = Len(s) - 1
               /\ r[Len(r)] = s[Len(s)]
               /\ \A i \in 1 .. Len(s) : i # k => s[i] \in Range(r)
<1> DEFINE r == RemoveFirst(s, s[k])
<1>1. Len(s) \in Nat /\ k \in 1 .. Len(s)
  BY LenProperties
<1> HIDE DEF r
<1>2. /\ r \in Seq(S) /\ Len(r) = Len(s) - 1
      /\ \A i \in 1 .. Len(s) - 1 : r[i] = s[IF i < k THEN i ELSE i + 1]
  BY <1>1, RemoveFirstProperties DEF r
<1>3. Distinct(r)
  BY <1>1, <1>2 DEF Distinct
<1>4. r[Len(r)] = s[Len(s)]
  <2>1. Len(s) - 1 \in 1 .. Len(s) - 1 /\ ~(Len(s) - 1 < k)
    BY <1>1
  <2> QED BY <1>1, <1>2, <2>1
<1>5. ASSUME NEW i \in 1 .. Len(s), i # k PROVE s[i] \in Range(r)
  <2>1. PICK j \in 1 .. Len(s) - 1 : (IF j < k THEN j ELSE j + 1) = i
    BY <1>1, <1>5
  <2>3. j \in 1 .. Len(r) /\ r[j] = s[i]
    BY <1>1, <1>2, <2>1
  <2>2. DOMAIN r = 1 .. Len(r)
    BY <1>2, LenProperties
  <2> QED BY <2>3, <2>2 DEF Range
<1> QED BY <1>2, <1>3, <1>4, <1>5 DEF r

-----------------------------------------------------------------------------
(* The inductive invariant: what the chains consist of, how far a call has  *)
(* got in one, and what the rows count.                                    *)

\* Only trips come between the protocol's own telemetry handler and the head of its
\* chain, and a trip that is on is there.
ChainPart ==
    /\ chain \in [Methods -> Seq(Handlers)]
    /\ chain["initialize"] = <<"own">>
    /\ chain["timer"] = IF statistics = "on" THEN <<"srt", "own">> ELSE <<"own">>
    /\ chain["packet"] = IF statistics = "on" THEN <<"tv", "own">> ELSE <<"own">>
    /\ chain["telemetry"] \in Seq(Trips \cup {"own"})
    /\ Distinct(chain["telemetry"])
    /\ Len(chain["telemetry"]) > 0
    /\ chain["telemetry"][Len(chain["telemetry"])] = "own"
    /\ trip \in Trips \cup {"never", None}
    /\ trip \in Trips => trip \in Range(chain["telemetry"])

\* Until the protocol's own handler runs nothing changes the chain, so that the call
\* has run what is ahead of its place; from then on everybody has had its turn, and
\* the call is at the end unless the chain grew.
Walked ==
    IF "own" \in ran
    THEN /\ due \subseteq ran
         /\ ~grown => again = {} /\ walk.at >= Len(chain[walk.of])
    ELSE /\ due = Range(chain[walk.of])
         /\ ~grown /\ again = {}
         /\ walk.at \in 1 .. Len(chain[walk.of])
         /\ ran = {chain[walk.of][i] : i \in 1 .. walk.at}

CallPart ==
    /\ walk \in Calls \cup {Idle}
    /\ due \subseteq Handlers /\ ran \subseteq Handlers /\ again \subseteq ran
    /\ grown \in BOOLEAN
    /\ walk # Idle => /\ walk.handler \in ran
                      /\ walk.handler = "srt" => walk.of = "timer" /\ statistics = "on"
                      /\ walk.handler = "tv" => walk.of = "packet" /\ statistics = "on"
                      /\ Walked

Sampling == walk.handler = "srt" /\ walk.arg = "statistics"

\* The next sample is pending or is being taken, never both; and there is none after a
\* file could not be written.
RowPart ==
    /\ statistics \in {"never", "on", "finished"}
    /\ pending \in BOOLEAN /\ failed \in BOOLEAN
    /\ since \in 0 .. MaxRows /\ every \in {0} \cup Intervals
    /\ behind \in [Rows -> 0 .. MaxRows]
    /\ writing \in Files \cup {None} /\ cut \subseteq Files
    /\ statistics = "never" => /\ ~pending /\ ~failed /\ writing = None
                              /\ since = 0 /\ \A r \in Rows : behind[r] = 0
    /\ statistics = "on" /\ pending => ~failed
    /\ Sampling => ~pending /\ ~failed
    /\ walk # Idle /\ walk.arg = "statistics" /\ walk.handler # "srt" =>
          statistics = "finished"
    /\ writing # None => IF statistics = "on" THEN Sampling ELSE walk.handler = "own"
    /\ writing = "tracked" => behind["time"] = 0 /\ "time" \notin cut
    /\ ~failed => cut = {}
    /\ writing # None /\ statistics = "on" => every > 0 /\ behind["tracked"] <= every
    /\ writing = None /\ ~failed /\ statistics = "on" /\ every > 0 =>
          since < every /\ behind["time"] = since /\ behind["tracked"] <= since + 1
    /\ writing = None /\ ~failed /\ statistics = "finished" =>
          \A r \in Rows : behind[r] = 0

PluginInv == ChainPart /\ CallPart /\ RowPart

\* Chains of one and of two handlers.
LEMMA OneHandler ==
    ASSUME NEW s, s = <<"own">>
    PROVE  s \in Seq(Handlers) /\ Len(s) = 1 /\ s[1] = "own"
  BY DEF Handlers

LEMMA TwoHandlers ==
    ASSUME NEW s, NEW h \in Handlers, s = <<h, "own">>
    PROVE  s \in Seq(Handlers) /\ Len(s) = 2 /\ s[1] = h /\ s[2] = "own"
  BY DEF Handlers

\* What the parts say of the chain of any method.
LEMMA ChainFacts ==
    ASSUME ChainPart, NEW c \in Methods
    PROVE  /\ chain[c] \in Seq(Handlers) /\ Distinct(chain[c])
           /\ Len(chain[c]) \in Nat \ {0}
           /\ \A i \in 1 .. Len(chain[c]) :
                 /\ chain[c][i] \in Handlers
                 /\ chain[c][i] = "own" <=> i = Len(chain[c])
                 /\ chain[c][i] = "srt" => c = "timer" /\ statistics = "on"
                 /\ chain[c][i] = "tv" => c = "packet" /\ statistics = "on"
<1> USE DEF ChainPart
<1>1. chain[c] \in Seq(Handlers) /\ Len(chain[c]) \in Nat
      /\ \A i \in 1 .. Len(chain[c]) : chain[c][i] \in Handlers
  BY LenProperties, ElementOfSeq
<1>2. CASE c = "telemetry"
  <2>1. \A i \in 1 .. Len(chain[c]) : chain[c][i] # "srt" /\ chain[c][i] # "tv"
    BY <1>2, ElementOfSeq, ChainsAssumption
  <2>2. \A i \in 1 .. Len(chain[c]) : chain[c][i] = "own" <=> i = Len(chain[c])
    BY <1>1, <1>2 DEF Distinct
  <2> QED BY <1>1, <1>2, <2>1, <2>2
<1>3. CASE chain[c] = <<"own">>
  BY <1>1, <1>3 DEF Distinct
<1>4. CASE c = "timer" /\ statistics = "on"
  <2>1. chain[c] = <<"srt", "own">>
    BY <1>4
  <2>2. Len(chain[c]) = 2 /\ chain[c][1] = "srt" /\ chain[c][2] = "own"
    BY <2>1, TwoHandlers DEF Handlers
  <2> QED BY <1>1, <1>4, <2>2 DEF Distinct
<1>5. CASE c = "packet" /\ statistics = "on"
  <2>1. chain[c] = <<"tv", "own">>
    BY <1>5
  <2>2. Len(chain[c]) = 2 /\ chain[c][1] = "tv" /\ chain[c][2] = "own"
    BY <2>1, TwoHandlers DEF Handlers
  <2> QED BY <1>1, <1>5, <2>2 DEF Distinct
<1>6. c = "telemetry" \/ chain[c] = <<"own">> \/ (c \in {"timer", "packet"} /\ statistics = "on")
  BY DEF Methods
<1> QED BY <1>2, <1>3, <1>4, <1>5, <1>6

LEMMA InvTypes == PluginInv => TypeOK
<1> SUFFICES ASSUME PluginInv PROVE TypeOK
  OBVIOUS
<1>1. \A c \in Methods : chain[c] # <<>> /\ Last(chain[c]) = "own"
  BY ChainFacts DEF PluginInv, Last
<1> QED BY <1>1 DEF PluginInv, ChainPart, CallPart, RowPart, TypeOK

LEMMA InvLoss == PluginInv => LossIsCapped
<1> SUFFICES ASSUME PluginInv PROVE LossIsCapped
  OBVIOUS
<1>1. /\ every \in Nat /\ behind["time"] \in Nat /\ behind["tracked"] \in Nat
      /\ since \in Nat
  BY ChainsAssumption DEF PluginInv, RowPart, Rows, Files
<1>2. writing \in {None, "time", "tracked"} /\ None \notin {"time", "tracked"}
  BY ChainsAssumption DEF PluginInv, RowPart, Files
<1>3. CASE writing = None
  BY <1>1, <1>2, <1>3 DEF PluginInv, RowPart, LossIsCapped
<1>4. CASE writing = "time"
  BY <1>1, <1>2, <1>4 DEF PluginInv, RowPart, LossIsCapped
<1>5. CASE writing = "tracked"
  BY <1>1, <1>2, <1>5 DEF PluginInv, RowPart, LossIsCapped
<1> QED BY <1>2, <1>3, <1>4, <1>5

-----------------------------------------------------------------------------
(* What a call does.                                                       *)

LEMMA IdleCall ==
    ASSUME walk' = Idle, due' = {}, ran' = {}, again' = {}, grown' = FALSE
    PROVE  CallPart'
  BY DEF CallPart

LEMMA BeginKeeps ==
    ASSUME PluginInv, NEW c \in Methods, NEW arg \in {"statistics", "other"},
           Begin(c, arg), UNCHANGED <<chain, statistics>>
    PROVE  CallPart' /\ walk' \in Calls /\ walk'.handler = chain[c][1] /\ walk'.arg = arg
<1>1. /\ chain[c] \in Seq(Handlers) /\ Len(chain[c]) \in Nat \ {0}
      /\ \A i \in 1 .. Len(chain[c]) :
            /\ chain[c][i] \in Handlers
            /\ chain[c][i] = "own" <=> i = Len(chain[c])
            /\ chain[c][i] = "srt" => c = "timer" /\ statistics = "on"
            /\ chain[c][i] = "tv" => c = "packet" /\ statistics = "on"
  BY ChainFacts DEF PluginInv
<1>2. 1 \in 1 .. Len(chain[c])
  BY <1>1
<1>3. /\ walk' = [of |-> c, at |-> 1, handler |-> chain[c][1], arg |-> arg]
      /\ due' = Range(chain[c]) /\ ran' = {chain[c][1]}
      /\ again' = {} /\ grown' = FALSE
  BY DEF Begin
<1>4. walk' \in Calls /\ walk'.handler \in ran'
  BY <1>1, <1>2, <1>3 DEF Calls
<1>5. due' = {chain[c][i] : i \in 1 .. Len(chain[c])} /\ due' \subseteq Handlers
  BY <1>1, <1>3, LenProperties DEF Range
<1>6. Walked'
  <2>1. {chain[c][i] : i \in 1 .. 1} = {chain[c][1]}
    OBVIOUS
  <2>2. CASE Len(chain[c]) = 1
    <3>1. due' \subseteq ran'
      BY <1>3, <1>5, <2>1, <2>2
    <3>2. "own" \in ran' /\ again' = {}
      BY <1>1, <1>2, <1>3, <2>2
    <3>3. walk'.at = 1 /\ chain'[walk'.of] = chain[c]
      BY <1>3
    <3>4. Len(chain'[walk'.of]) = 1
      BY <2>2, <3>3, Zenon
    <3> QED BY <3>1, <3>2, <3>3, <3>4 DEF Walked
  <2>3. CASE Len(chain[c]) # 1
    <3>1. "own" \notin ran'
      BY <1>1, <1>2, <1>3, <2>3
    <3> QED BY <1>2, <1>3, <2>1, <3>1 DEF Walked
  <2> QED BY <2>2, <2>3
<1> QED BY <1>1, <1>2, <1>3, <1>4, <1>5, <1>6 DEF CallPart

\* The next handler of an unchanged chain runs, or the call ends.
LEMMA ContinueKeeps ==
    ASSUME PluginInv, walk # Idle, Continue(chain[walk.of]), UNCHANGED <<chain, statistics>>
    PROVE  /\ CallPart'
           /\ walk' = Idle \/ (walk' \in Calls /\ walk'.arg = walk.arg)
<1> DEFINE s == chain[walk.of]
           h == s[walk.at + 1]
<1>1. /\ walk \in Calls /\ walk.handler \in ran /\ Walked
      /\ due \subseteq Handlers /\ ran \subseteq Handlers /\ again \subseteq ran
      /\ grown \in BOOLEAN
  BY DEF PluginInv, CallPart
<1>2. /\ Len(s) \in Nat \ {0} /\ Distinct(s) /\ s \in Seq(Handlers)
      /\ \A i \in 1 .. Len(s) :
            /\ s[i] \in Handlers
            /\ s[i] = "own" <=> i = Len(s)
            /\ s[i] = "srt" => walk.of = "timer" /\ statistics = "on"
            /\ s[i] = "tv" => walk.of = "packet" /\ statistics = "on"
  BY <1>1, ChainFacts DEF PluginInv, Calls
<1>3. CASE EndCall
  BY <1>3, IdleCall DEF EndCall
<1>4. CASE /\ walk.at < Len(s)
           /\ walk' = [walk EXCEPT !.at = @ + 1, !.handler = h]
           /\ ran' = ran \cup {h} /\ again' = again \cup (ran \cap {h})
           /\ UNCHANGED <<due, grown>>
  <2>1. walk.at + 1 \in 1 .. Len(s) /\ walk.at \in Nat /\ h \in Handlers
    BY <1>1, <1>2, <1>4 DEF Calls
  <2> HIDE DEF s, h
  <2>2. /\ walk' \in Calls /\ walk'.of = walk.of /\ walk'.arg = walk.arg
        /\ walk'.at = walk.at + 1 /\ walk'.handler = h
    <3>1. walk' = [walk EXCEPT !.at = @ + 1, !.handler = h]
      BY <1>4
    <3>2. walk \in Calls /\ walk.at + 1 \in Nat
      BY <1>1, <2>1
    <3> QED BY <2>1, <3>1, <3>2 DEF Calls
  <2>3. Walked'
    <3>1. CASE "own" \in ran
      <4>1. grown /\ due \subseteq ran
        BY <1>1, <1>2, <1>4, <2>1, <3>1 DEF Walked, s
      <4> QED BY <1>4, <3>1, <4>1 DEF Walked
    <3>2. CASE "own" \notin ran
      <4>1. /\ due = Range(s) /\ ~grown /\ again = {}
            /\ ran = {s[i] : i \in 1 .. walk.at} /\ walk.at \in 1 .. Len(s)
        BY <1>1, <3>2 DEF Walked, s
      <4>2. h \notin ran
        BY <1>2, <2>1, <4>1 DEF Distinct, h
      <4>3. again' = {} /\ ~grown' /\ due' = Range(s)
        BY <1>4, <4>1, <4>2
      <4>4. ran' = {s[i] : i \in 1 .. walk.at + 1}
        BY <1>4, <2>1, <4>1 DEF h
      <4>5. "own" \in ran' <=> walk.at + 1 = Len(s)
        BY <1>2, <1>4, <2>1, <3>2 DEF h
      <4>6. CASE walk.at + 1 = Len(s)
        <5>1. Range(s) = {s[i] : i \in 1 .. Len(s)}
          BY <1>2, LenProperties DEF Range
        <5> QED BY <1>2, <2>2, <4>3, <4>4, <4>5, <4>6, <5>1 DEF Walked, s
      <4>7. CASE walk.at + 1 # Len(s)
        BY <2>1, <2>2, <4>3, <4>4, <4>5, <4>7 DEF Walked, s
      <4> QED BY <4>6, <4>7
    <3> QED BY <3>1, <3>2
  <2>4. /\ walk'.handler = "srt" => walk'.of = "timer" /\ statistics' = "on"
        /\ walk'.handler = "tv" => walk'.of = "packet" /\ statistics' = "on"
    BY <1>2, <2>1, <2>2 DEF h
  <2>5. /\ due' \subseteq Handlers /\ ran' \subseteq Handlers /\ again' \subseteq ran'
        /\ grown' \in BOOLEAN /\ walk'.handler \in ran'
    BY <1>1, <1>4, <2>1, <2>2
  <2> QED BY <2>2, <2>3, <2>4, <2>5 DEF CallPart
<1> QED BY <1>3, <1>4 DEF Continue

\* The protocol's own method changes the chains and its call goes on: everybody has had
\* a turn by then, and the call stays at the end of a chain that did not grow.
LEMMA OwnKeeps ==
    ASSUME PluginInv, Own, UNCHANGED <<walk, due, ran, again>>,
           grown' \in BOOLEAN, grown => grown',
           ~grown' => Len(chain'[walk.of]) <= Len(chain[walk.of]),
           Len(chain'[walk.of]) \in Nat
    PROVE  CallPart'
<1>1. /\ walk \in Calls /\ walk.handler = "own" /\ walk # Idle
      /\ "own" \in ran /\ Walked
      /\ due \subseteq Handlers /\ ran \subseteq Handlers /\ again \subseteq ran
  BY DEF PluginInv, CallPart, Own, Running
<1>2. Len(chain[walk.of]) \in Nat
  BY <1>1, ChainFacts DEF PluginInv, Calls
<1>3. Walked'
  BY <1>1, <1>2 DEF Walked, Calls
<1> QED BY <1>1, <1>3 DEF CallPart

-----------------------------------------------------------------------------
(* Every step preserves the invariant.                                     *)

\* A call that begins or goes on leaves the chains and the rows alone; it may get to
\* the sampling handler only for the timer of that name.
LEMMA CallsKeep ==
    ASSUME PluginInv, CallPart', UNCHANGED <<chain, collected, trip>>, writing = None,
           walk' # Idle /\ walk'.arg = "statistics" =>
               walk'.handler # "srt" /\ statistics = "finished"
    PROVE  PluginInv'
<1>1. ChainPart'
  BY DEF PluginInv, ChainPart, collected
<1>2. ~Sampling'
  BY ChainsAssumption DEF Sampling, Idle
<1>3. RowPart'
  BY <1>2 DEF PluginInv, RowPart, collected
<1> QED BY <1>1, <1>3 DEF PluginInv

LEMMA ContinueInv ==
    ASSUME PluginInv, Running, Continue(chain[walk.of]),
           ~(walk.arg = "statistics" /\ walk.handler = "srt"),
           UNCHANGED <<chain, collected, trip>>
    PROVE  PluginInv'
<1>1. CallPart' /\ (walk' = Idle \/ (walk' \in Calls /\ walk'.arg = walk.arg))
  BY ContinueKeeps DEF Running, collected
<1>2. writing = None
  BY DEF Running
<1>3. walk' # Idle /\ walk'.arg = "statistics" =>
         walk'.handler # "srt" /\ statistics = "finished"
  <2> SUFFICES ASSUME walk' # Idle, walk'.arg = "statistics"
               PROVE  walk'.handler # "srt" /\ statistics = "finished"
    OBVIOUS
  <2>1. walk # Idle /\ walk.arg = "statistics" /\ walk.handler # "srt"
    BY <1>1 DEF Running
  <2>2. statistics = "finished" /\ statistics' = statistics
    BY <2>1 DEF PluginInv, RowPart, collected
  <2> QED BY <1>1, <2>2 DEF CallPart
<1> QED BY <1>1, <1>2, <1>3, CallsKeep

LEMMA StatisticsTimerInv == PluginInv /\ StatisticsTimer => PluginInv'
<1> SUFFICES ASSUME PluginInv, StatisticsTimer PROVE PluginInv'
  OBVIOUS
<1>1. CallPart' /\ walk' \in Calls /\ walk'.handler = chain["timer"][1]
  BY BeginKeeps DEF StatisticsTimer, Methods
<1>2. ChainPart'
  BY DEF PluginInv, ChainPart, StatisticsTimer
<1>3. /\ pending /\ pending' = FALSE /\ walk = Idle
      /\ chain' = chain /\ statistics' = statistics /\ every' = every /\ since' = since
      /\ behind' = behind /\ writing' = writing /\ cut' = cut /\ failed' = failed
  BY DEF StatisticsTimer, Begin
<1>4. writing = None
  BY <1>3, ChainsAssumption DEF PluginInv, RowPart, Sampling, Idle
<1>5. statistics = "on" => walk'.handler = "srt" /\ ~failed
  BY <1>1, <1>3 DEF PluginInv, ChainPart, RowPart
<1>6. walk'.handler = "srt" => statistics = "on"
  BY <1>1, <1>3 DEF PluginInv, ChainPart
<1>7. statistics # "never" /\ (Sampling' => statistics = "on")
  BY <1>3, <1>6 DEF PluginInv, RowPart, Sampling
<1>8. /\ walk'.handler # "srt" => statistics' = "finished"
      /\ Sampling' => ~pending' /\ ~failed'
  BY <1>3, <1>5, <1>7 DEF PluginInv, RowPart, Sampling
<1>9. RowPart'
  BY <1>3, <1>4, <1>8 DEF PluginInv, RowPart
<1> QED BY <1>1, <1>2, <1>9 DEF PluginInv

LEMMA OtherCallInv ==
    ASSUME PluginInv, NEW c \in Methods, OtherCall(c) PROVE PluginInv'
<1>1. CallPart' /\ walk'.arg = "other"
  BY BeginKeeps DEF OtherCall, collected
<1>2. walk = Idle /\ UNCHANGED <<chain, collected, trip>>
  BY DEF OtherCall, Begin
<1>3. writing = None
  BY <1>2, ChainsAssumption DEF PluginInv, RowPart, Sampling, Idle
<1> QED BY <1>1, <1>2, <1>3, CallsKeep

LEMMA HandlersContinueInv ==
    PluginInv /\ (TripHandler \/ SamplePasses \/ OwnReturns) => PluginInv'
  BY ContinueInv, ChainsAssumption DEF TripHandler, SamplePasses, OwnReturns, Own

\* Rows that are counted stay within the bound.
LEMMA CollectTypes ==
    ASSUME PluginInv, NEW rows, Collect(rows)
    PROVE  /\ behind' \in [Rows -> 0 .. MaxRows]
           /\ \A r \in Rows : behind'[r] = IF r \in rows THEN More(behind[r]) ELSE behind[r]
<1>1. ASSUME NEW n \in 0 .. MaxRows PROVE More(n) \in 0 .. MaxRows
  BY ChainsAssumption DEF More
<1> QED BY <1>1 DEF Collect, PluginInv, RowPart

LEMMA TrackPacketInv == PluginInv /\ TrackPacket => PluginInv'
<1> SUFFICES ASSUME PluginInv, TrackPacket PROVE PluginInv'
  OBVIOUS
<1>1. /\ walk # Idle /\ walk.handler = "tv" /\ writing = None
      /\ chain' = chain /\ statistics' = statistics /\ pending' = pending /\ trip' = trip
      /\ every' = every /\ since' = since /\ writing' = writing /\ cut' = cut
      /\ failed' = failed
      /\ Collect({"received"}) /\ Continue(chain[walk.of])
  BY DEF TrackPacket, Running
<1>2. statistics = "on" /\ walk.arg # "statistics"
  BY <1>1 DEF PluginInv, CallPart, RowPart
<1>3. ChainPart'
  BY <1>1 DEF PluginInv, ChainPart
<1>4. CallPart' /\ (walk' = Idle \/ walk'.arg = walk.arg)
  BY <1>1, ContinueKeeps
<1>5. ~Sampling' /\ (walk' # Idle => walk'.arg # "statistics")
  BY <1>2, <1>4, ChainsAssumption DEF Sampling, Idle
<1>6. /\ behind' \in [Rows -> 0 .. MaxRows]
      /\ behind'["time"] = behind["time"] /\ behind'["tracked"] = behind["tracked"]
  BY <1>1, CollectTypes DEF Rows, Files
<1>7. writing # "tracked"
  BY <1>1, ChainsAssumption
<1>8. RowPart'
  BY <1>1, <1>2, <1>5, <1>6, <1>7 DEF PluginInv, RowPart
<1> QED BY <1>3, <1>4, <1>8 DEF PluginInv

\* The rows do not look at the chains, nor at the history of the call.
LEMMA RowsAside ==
    PluginInv /\ UNCHANGED <<collected, walk>> => RowPart'
  BY DEF PluginInv, RowPart, Sampling, collected

LEMMA RowsAfterCall ==
    ASSUME PluginInv, UNCHANGED collected, walk' = Idle, writing = None
    PROVE  RowPart'
<1>1. ~Sampling'
  BY ChainsAssumption DEF Sampling, Idle
<1> QED BY <1>1 DEF PluginInv, RowPart, collected

LEMMA InitiateTripInv ==
    ASSUME PluginInv, NEW t \in Trips, InitiateTrip(t) PROVE PluginInv'
<1> DEFINE s == chain["telemetry"]
<1>1. /\ Own /\ t \notin Range(s) /\ trip' = t
      /\ chain' = [chain EXCEPT !["telemetry"] = <<t>> \o s]
      /\ grown' = (grown \/ walk.of = "telemetry")
      /\ UNCHANGED <<walk, due, ran, again>> /\ UNCHANGED collected
  BY DEF InitiateTrip, Insert, Grow
<1>2. /\ s \in Seq(Trips \cup {"own"}) /\ Distinct(s) /\ Len(s) > 0 /\ s[Len(s)] = "own"
      /\ chain \in [Methods -> Seq(Handlers)] /\ Len(s) \in Nat
  BY LenProperties DEF PluginInv, ChainPart
<1> DEFINE n == <<t>> \o s
<1>3. /\ n \in Seq(Trips \cup {"own"}) /\ Distinct(n) /\ Len(n) = Len(s) + 1
      /\ n[1] = t /\ \A i \in 1 .. Len(s) : n[i + 1] = s[i]
  BY <1>1, <1>2, PrependProperties
<1> HIDE DEF n
<1>4. n[Len(n)] = "own" /\ t \in Range(n) /\ Len(n) > 0
  <2>1. DOMAIN n = 1 .. Len(n) /\ 1 \in 1 .. Len(n)
    BY <1>2, <1>3, LenProperties
  <2>2. Len(s) \in 1 .. Len(s) /\ Len(n) = Len(s) + 1
    BY <1>2, <1>3
  <2>3. n[Len(n)] = s[Len(s)]
    BY <1>3, <2>2
  <2>4. t \in Range(n)
    BY <1>3, <2>1 DEF Range
  <2> QED BY <1>2, <2>2, <2>3, <2>4
<1>5. n \in Seq(Handlers)
  BY <1>3, SeqMonotonic DEF Handlers
<1>6. /\ chain' \in [Methods -> Seq(Handlers)] /\ chain'["telemetry"] = n
      /\ chain'["timer"] = chain["timer"] /\ chain'["initialize"] = chain["initialize"]
      /\ chain'["packet"] = chain["packet"]
  BY <1>1, <1>2, <1>5 DEF Methods, n
<1>7. ChainPart'
  BY <1>1, <1>3, <1>4, <1>6 DEF PluginInv, ChainPart, collected
<1>8. CallPart'
  <2>1. walk.of \in Methods /\ grown \in BOOLEAN
    BY <1>1 DEF PluginInv, CallPart, Calls, Own, Running
  <2>2. Len(chain[walk.of]) \in Nat
    BY <2>1, ChainFacts DEF PluginInv
  <2>3. Len(chain'[walk.of]) \in Nat /\ (walk.of = "telemetry" \/ chain'[walk.of] = chain[walk.of])
    <3>1. CASE walk.of = "telemetry"
      BY <1>2, <1>3, <1>6, <3>1
    <3>2. CASE walk.of # "telemetry"
      <4>1. chain'[walk.of] = chain[walk.of]
        BY <1>1, <1>2, <2>1, <3>2
      <4> QED BY <2>2, <4>1
    <3> QED BY <3>1, <3>2
  <2>4. ASSUME ~grown' PROVE Len(chain'[walk.of]) <= Len(chain[walk.of])
    <3>1. walk.of # "telemetry"
      BY <1>1, <2>1, <2>4
    <3> QED BY <2>2, <2>3, <3>1
  <2>5. grown' \in BOOLEAN /\ (grown => grown')
    BY <1>1, <2>1
  <2> QED BY <1>1, <2>3, <2>4, <2>5, OwnKeeps
<1>9. RowPart'
  BY <1>1, RowsAside
<1> QED BY <1>7, <1>8, <1>9 DEF PluginInv

LEMMA FinishTripInv == PluginInv /\ FinishTrip => PluginInv'
<1> SUFFICES ASSUME PluginInv, FinishTrip PROVE PluginInv'
  OBVIOUS
<1> DEFINE s == chain["telemetry"]
<1>1. CASE trip = "never" /\ EndCall /\ UNCHANGED <<chain, trip>>
  <2>1. writing = None /\ UNCHANGED collected /\ walk' = Idle
    BY <1>1 DEF FinishTrip, Own, Running, EndCall
  <2>2. ChainPart'
    BY <1>1, <2>1 DEF PluginInv, ChainPart, collected
  <2> QED BY <1>1, <2>1, <2>2, IdleCall, RowsAfterCall DEF PluginInv, EndCall
<1>2. CASE /\ trip \in Trips /\ trip' = None
           /\ Unregister("telemetry", trip) /\ UNCHANGED call
  <2>1. /\ s \in Seq(Trips \cup {"own"}) /\ Distinct(s) /\ Len(s) > 0 /\ s[Len(s)] = "own"
        /\ chain \in [Methods -> Seq(Handlers)] /\ Len(s) \in Nat
        /\ DOMAIN s = 1 .. Len(s) /\ trip \in Range(s)
    BY <1>2, LenProperties DEF PluginInv, ChainPart
  <2>2. PICK k \in 1 .. Len(s) : s[k] = trip
    BY <2>1 DEF Range
  <2>3. k \in 1 .. Len(s) - 1
    BY <1>2, <2>1, <2>2, ChainsAssumption
  <2> DEFINE r == RemoveFirst(s, trip)
  <2>4. /\ r \in Seq(Trips \cup {"own"}) /\ Distinct(r) /\ Len(r) = Len(s) - 1
        /\ r[Len(r)] = s[Len(s)]
    BY <2>1, <2>2, <2>3, RemoveKeeps
  <2>5. chain' = [chain EXCEPT !["telemetry"] = r]
    BY <1>2 DEF Unregister
  <2> HIDE DEF r
  <2>6. r \in Seq(Handlers)
    BY <2>4, SeqMonotonic DEF Handlers
  <2>7. /\ chain' \in [Methods -> Seq(Handlers)] /\ chain'["telemetry"] = r
        /\ chain'["timer"] = chain["timer"] /\ chain'["initialize"] = chain["initialize"]
      /\ chain'["packet"] = chain["packet"]
    BY <2>1, <2>5, <2>6 DEF Methods
  <2>8. /\ Own /\ UNCHANGED collected /\ UNCHANGED <<walk, due, ran, again, grown>>
    BY <1>2 DEF FinishTrip, call
  <2>9. ChainPart'
    BY <1>2, <2>1, <2>3, <2>4, <2>7, <2>8, ChainsAssumption DEF PluginInv, ChainPart, collected
  <2>10. CallPart'
    <3>1. walk.of \in Methods /\ grown \in BOOLEAN
      BY <2>8 DEF PluginInv, CallPart, Calls, Own, Running
    <3>2. /\ Len(chain'[walk.of]) \in Nat
          /\ Len(chain'[walk.of]) <= Len(chain[walk.of])
      BY <2>1, <2>3, <2>4, <2>7, <3>1, ChainFacts DEF PluginInv, Methods
    <3> QED BY <2>8, <3>1, <3>2, OwnKeeps
  <2>11. RowPart'
    BY <2>8, RowsAside
  <2> QED BY <2>9, <2>10, <2>11 DEF PluginInv
<1> QED BY <1>1, <1>2 DEF FinishTrip

\* A handler put ahead of the protocol's own, and taken out again.
LEMMA AheadOfOwn ==
    ASSUME NEW h \in Handlers PROVE <<h>> \o <<"own">> = <<h, "own">>
<1> DEFINE s == <<h>> \o <<"own">>
           p == <<h, "own">>
<1>1. <<h>> \in Seq(Handlers) /\ <<"own">> \in Seq(Handlers)
      /\ Len(<<h>>) = 1 /\ Len(<<"own">>) = 1
  BY DEF Handlers
<1>2. p \in Seq(Handlers) /\ Len(p) = 2 /\ p[1] = h /\ p[2] = "own"
  BY DEF Handlers
<1>3. /\ s \in Seq(Handlers) /\ Len(s) = 1 + 1
      /\ \A i \in 1 .. 1 + 1 : s[i] = IF i <= 1 THEN <<h>>[i] ELSE <<"own">>[i - 1]
  BY <1>1, ConcatProperties
<1>4. s[1] = h /\ s[2] = "own"
  BY <1>3
<1> HIDE DEF s, p
<1>5. \A i \in 1 .. Len(s) : s[i] = p[i]
  BY <1>2, <1>3, <1>4
<1>6. s = p
  BY <1>2, <1>3, <1>5, SeqEqual
<1> QED BY <1>6 DEF s, p

LEMMA OwnIsLeft ==
    ASSUME NEW h \in Handlers, h # "own" PROVE RemoveFirst(<<h, "own">>, h) = <<"own">>
<1> DEFINE s == <<h, "own">>
           r == RemoveFirst(s, s[1])
<1>1. s \in Seq(Handlers) /\ Len(s) = 2 /\ s[1] = h /\ s[2] = "own"
  BY DEF Handlers
<1> HIDE DEF s
<1>2. Distinct(s) /\ 1 \in 1 .. Len(s)
  BY <1>1 DEF Distinct
<1>3. /\ r \in Seq(Handlers) /\ Len(r) = Len(s) - 1
      /\ \A i \in 1 .. Len(s) - 1 : r[i] = s[IF i < 1 THEN i ELSE i + 1]
  BY <1>1, <1>2, RemoveFirstProperties
<1> HIDE DEF r
<1>4. r \in Seq(Handlers) /\ Len(r) = 1 /\ r[1] = "own"
  BY <1>1, <1>3
<1>5. r = <<"own">>
  BY <1>4
<1> QED BY <1>1, <1>5 DEF r, s

\* The chains of timers and of packets change together, when statistics are switched.
LEMMA SwitchKeeps ==
    ASSUME PluginInv, trip' = trip,
           chain' = IF statistics' = "on"
                    THEN [chain EXCEPT !["timer"] = <<"srt", "own">>,
                                       !["packet"] = <<"tv", "own">>]
                    ELSE [chain EXCEPT !["timer"] = <<"own">>, !["packet"] = <<"own">>]
    PROVE  /\ ChainPart'
           /\ \A c \in Methods : /\ c \notin {"timer", "packet"} => chain'[c] = chain[c]
                                 /\ Len(chain'[c]) \in Nat
                                 /\ statistics' # "on" => Len(chain'[c]) <= Len(chain[c])
<1> DEFINE t == IF statistics' = "on" THEN <<"srt", "own">> ELSE <<"own">>
           k == IF statistics' = "on" THEN <<"tv", "own">> ELSE <<"own">>
<1>1. t \in Seq(Handlers) /\ k \in Seq(Handlers)
      /\ Len(t) = (IF statistics' = "on" THEN 2 ELSE 1)
      /\ Len(k) = (IF statistics' = "on" THEN 2 ELSE 1)
  <2>1. CASE statistics' = "on"
    <3>1. t = <<"srt", "own">> /\ k = <<"tv", "own">> /\ "srt" \in Handlers /\ "tv" \in Handlers
      BY <2>1 DEF Handlers
    <3> HIDE DEF t, k
    <3> QED BY <2>1, <3>1, TwoHandlers
  <2>2. CASE statistics' # "on"
    <3>1. t = <<"own">> /\ k = <<"own">>
      BY <2>2
    <3> HIDE DEF t, k
    <3> QED BY <2>2, <3>1, OneHandler
  <2> QED BY <2>1, <2>2
<1>2. chain \in [Methods -> Seq(Handlers)]
  BY DEF PluginInv, ChainPart
<1>3. /\ chain' \in [Methods -> Seq(Handlers)] /\ chain'["timer"] = t
      /\ chain'["packet"] = k
      /\ chain'["telemetry"] = chain["telemetry"] /\ chain'["initialize"] = chain["initialize"]
  <2>1. chain' = [chain EXCEPT !["timer"] = t, !["packet"] = k]
    OBVIOUS
  <2> HIDE DEF t, k
  <2> QED BY <1>1, <1>2, <2>1 DEF Methods
<1>4. ChainPart'
  BY <1>3 DEF PluginInv, ChainPart
<1> HIDE DEF t, k
<1>5. ASSUME NEW c \in Methods
      PROVE  /\ c \notin {"timer", "packet"} => chain'[c] = chain[c]
             /\ Len(chain'[c]) \in Nat
             /\ statistics' # "on" => Len(chain'[c]) <= Len(chain[c])
  <2>1. Len(chain[c]) \in Nat \ {0}
    BY ChainFacts DEF PluginInv
  <2>2. CASE c \in {"timer", "packet"}
    <3>1. chain'[c] = t \/ chain'[c] = k
      BY <1>3, <2>2
    <3>2. Len(chain'[c]) = IF statistics' = "on" THEN 2 ELSE 1
      BY <1>1, <3>1, Zenon
    <3> QED BY <2>1, <2>2, <3>2
  <2>3. CASE c \notin {"timer", "packet"}
    <3>1. chain'[c] = chain[c]
      BY <1>3, <2>3 DEF Methods
    <3> QED BY <2>1, <2>3, <3>1
  <2> QED BY <2>2, <2>3
<1> QED BY <1>4, <1>5

LEMMA CreateStatisticsInv == PluginInv /\ CreateStatistics => PluginInv'
<1> SUFFICES ASSUME PluginInv, CreateStatistics PROVE PluginInv'
  OBVIOUS
<1>1. /\ Own /\ statistics = "never" /\ statistics' = "on" /\ pending' = TRUE
      /\ every' \in Intervals
      /\ chain' = [chain EXCEPT !["timer"] = <<"srt">> \o @, !["packet"] = <<"tv">> \o @]
      /\ grown' = (grown \/ walk.of \in {"timer", "packet"})
      /\ UNCHANGED <<walk, due, ran, again>>
      /\ UNCHANGED <<since, behind, writing, cut, failed, trip>>
  BY DEF CreateStatistics, Insert, Grow
<1>2. chain["timer"] = <<"own">> /\ chain["packet"] = <<"own">>
      /\ chain \in [Methods -> Seq(Handlers)]
  BY <1>1 DEF PluginInv, ChainPart
<1>3. chain' = [chain EXCEPT !["timer"] = <<"srt", "own">>, !["packet"] = <<"tv", "own">>]
  <2>1. <<"srt">> \o chain["timer"] = <<"srt", "own">>
    BY <1>2, AheadOfOwn DEF Handlers
  <2>2. <<"tv">> \o chain["packet"] = <<"tv", "own">>
    BY <1>2, AheadOfOwn DEF Handlers
  <2>3. chain' = [chain EXCEPT !["timer"] = <<"srt">> \o chain["timer"],
                               !["packet"] = <<"tv">> \o chain["packet"]]
    BY <1>1, <1>2 DEF Methods
  <2> QED BY <2>1, <2>2, <2>3, Zenon
<1>4. ChainPart' /\ \A c \in Methods : /\ c \notin {"timer", "packet"} => chain'[c] = chain[c]
                                       /\ Len(chain'[c]) \in Nat
  <2>1. chain' = IF statistics' = "on"
                 THEN [chain EXCEPT !["timer"] = <<"srt", "own">>,
                                    !["packet"] = <<"tv", "own">>]
                 ELSE [chain EXCEPT !["timer"] = <<"own">>, !["packet"] = <<"own">>]
    BY <1>1, <1>3, Zenon
  <2>2. trip' = trip
    BY <1>1
  <2> QED BY <2>1, <2>2, SwitchKeeps, Zenon
<1>5. CallPart'
  <2>1. walk.of \in Methods /\ grown \in BOOLEAN
    BY <1>1 DEF PluginInv, CallPart, Calls, Own, Running
  <2>2. Len(chain[walk.of]) \in Nat
    BY <2>1, ChainFacts DEF PluginInv
  <2>3. ASSUME ~grown' PROVE Len(chain'[walk.of]) <= Len(chain[walk.of])
    <3>1. chain'[walk.of] = chain[walk.of]
      BY <1>1, <1>4, <2>1, <2>3
    <3> QED BY <2>2, <3>1
  <2>4. grown' \in BOOLEAN /\ (grown => grown')
    BY <1>1, <2>1
  <2> QED BY <1>1, <1>4, <2>1, <2>3, <2>4, OwnKeeps
<1>6. RowPart'
  <2>1. /\ since = 0 /\ \A r \in Rows : behind[r] = 0
        /\ walk.handler = "own" /\ walk # Idle /\ walk.arg # "statistics"
        /\ writing = None /\ ~failed
    BY <1>1 DEF PluginInv, RowPart, Own, Running
  <2>2. behind["time"] = 0 /\ behind["tracked"] = 0 /\ writing # "tracked"
    BY <2>1, ChainsAssumption DEF Rows, Files
  <2>3. ~Sampling'
    BY <1>1, <2>1 DEF Sampling
  <2>4. every' \in {0} \cup Intervals /\ every' \in Nat
    BY <1>1, ChainsAssumption
  <2> QED BY <1>1, <2>1, <2>2, <2>3, <2>4 DEF PluginInv, RowPart
<1> QED BY <1>4, <1>5, <1>6 DEF PluginInv

LEMMA FinishStatisticsInv == PluginInv /\ FinishStatistics => PluginInv'
<1> SUFFICES ASSUME PluginInv, FinishStatistics PROVE PluginInv'
  OBVIOUS
<1>1. /\ Own /\ statistics = "on" /\ statistics' = "finished" /\ writing' = "time"
      /\ chain' = [chain EXCEPT !["timer"] = RemoveFirst(@, "srt"),
                                !["packet"] = RemoveFirst(@, "tv")]
      /\ UNCHANGED call /\ UNCHANGED <<pending, every, since, behind, cut, failed, trip>>
  BY DEF FinishStatistics, UnregisterStatistics
<1>2. chain["timer"] = <<"srt", "own">> /\ chain["packet"] = <<"tv", "own">>
      /\ chain \in [Methods -> Seq(Handlers)]
  BY <1>1 DEF PluginInv, ChainPart
<1>3. chain' = [chain EXCEPT !["timer"] = <<"own">>, !["packet"] = <<"own">>]
  <2>1. RemoveFirst(chain["timer"], "srt") = <<"own">>
    BY <1>2, OwnIsLeft DEF Handlers
  <2>2. RemoveFirst(chain["packet"], "tv") = <<"own">>
    BY <1>2, OwnIsLeft DEF Handlers
  <2>3. chain' = [chain EXCEPT !["timer"] = RemoveFirst(chain["timer"], "srt"),
                               !["packet"] = RemoveFirst(chain["packet"], "tv")]
    BY <1>1, <1>2 DEF Methods
  <2> QED BY <2>1, <2>2, <2>3, Zenon
<1>4. ChainPart' /\ \A c \in Methods : /\ Len(chain'[c]) \in Nat
                                       /\ Len(chain'[c]) <= Len(chain[c])
  <2>1. chain' = IF statistics' = "on"
                 THEN [chain EXCEPT !["timer"] = <<"srt", "own">>,
                                    !["packet"] = <<"tv", "own">>]
                 ELSE [chain EXCEPT !["timer"] = <<"own">>, !["packet"] = <<"own">>]
    <3>1. statistics' # "on"
      BY <1>1
    <3> QED BY <1>3, <3>1, Zenon
  <2>2. trip' = trip /\ statistics' # "on"
    BY <1>1
  <2> QED BY <2>1, <2>2, SwitchKeeps, Zenon
<1>5. CallPart'
  <2>1. walk.of \in Methods /\ grown \in BOOLEAN
    BY <1>1 DEF PluginInv, CallPart, Calls, Own, Running
  <2>2. UNCHANGED <<walk, due, ran, again>> /\ grown' = grown
    BY <1>1 DEF call
  <2> QED BY <1>1, <1>4, <2>1, <2>2, OwnKeeps
<1>6. RowPart'
  <2>1. walk' = walk /\ walk.handler = "own" /\ writing = None
    BY <1>1 DEF Own, Running, call
  <2>2. writing' # None /\ writing' # "tracked" /\ writing' \in Files
    BY <1>1, ChainsAssumption DEF Files
  <2> QED BY <1>1, <2>1, <2>2 DEF PluginInv, RowPart, Sampling
<1> QED BY <1>4, <1>5, <1>6 DEF PluginInv

\* flush_every is a number of rows, and within the bound.
LEMMA EveryIsCounted == PluginInv => every \in 0 .. MaxRows
  BY ChainsAssumption DEF PluginInv, RowPart

LEMMA MoreCounts ==
    ASSUME NEW n \in 0 .. MaxRows
    PROVE  /\ More(n) \in 0 .. MaxRows /\ More(n) <= n + 1
           /\ n < MaxRows => More(n) = n + 1
  BY ChainsAssumption DEF More

LEMMA SampleInv == PluginInv /\ Sample => PluginInv'
<1> SUFFICES ASSUME PluginInv, Sample PROVE PluginInv'
  OBVIOUS
<1>1. /\ Sampling /\ walk # Idle /\ writing = None /\ since' = More(since)
      /\ chain' = chain /\ statistics' = statistics /\ failed' = failed /\ trip' = trip
      /\ every' = every /\ cut' = cut
  BY DEF Sample, Running, Sampling
<1>2. /\ statistics = "on" /\ failed = FALSE /\ pending = FALSE
      /\ since \in 0 .. MaxRows /\ behind \in [Rows -> 0 .. MaxRows]
      /\ every > 0 => /\ since < every /\ behind["time"] = since
                      /\ behind["tracked"] <= since + 1
  BY <1>1 DEF PluginInv, CallPart, RowPart, Sampling
<1>3. ChainPart'
  BY <1>1 DEF PluginInv, ChainPart
<1>4. every \in 0 .. MaxRows /\ since' \in 0 .. MaxRows
  BY <1>1, <1>2, EveryIsCounted, MoreCounts
<1>5. behind["time"] \in 0 .. MaxRows /\ behind["tracked"] \in 0 .. MaxRows
      /\ MaxRows \in Nat
  BY <1>2, ChainsAssumption DEF Rows, Files
<1>6. CASE /\ FlushDue(since + 1) /\ Collect({"time"}) /\ writing' = "time"
           /\ UNCHANGED <<call, pending>>
  <2>1. /\ walk' = walk /\ due' = due /\ ran' = ran /\ again' = again /\ grown' = grown
        /\ pending' = pending
    BY <1>6 DEF call
  <2>2. CallPart'
    BY <1>1, <2>1 DEF PluginInv, CallPart, Walked
  <2>3. behind' \in [Rows -> 0 .. MaxRows] /\ behind'["tracked"] = behind["tracked"]
    BY <1>6, CollectTypes DEF Rows, Files
  <2>4. every > 0 /\ behind'["tracked"] <= every
    BY <1>2, <1>4, <1>5, <1>6, <2>3 DEF FlushDue
  <2>5. writing' # None /\ writing' # "tracked" /\ writing' \in Files
    BY <1>6, ChainsAssumption DEF Files
  <2>6. RowPart'
    BY <1>1, <1>2, <1>4, <1>6, <2>1, <2>3, <2>4, <2>5 DEF PluginInv, RowPart, Sampling
  <2> QED BY <1>3, <2>2, <2>6 DEF PluginInv
<1>7. CASE /\ ~FlushDue(since + 1) /\ Collect(Files)
           /\ pending' = TRUE /\ EndCall /\ writing' = writing
  <2>1. CallPart' /\ walk' = Idle
    BY <1>7, IdleCall DEF EndCall
  <2>2. /\ behind' \in [Rows -> 0 .. MaxRows]
        /\ behind'["time"] = More(behind["time"])
        /\ behind'["tracked"] = More(behind["tracked"])
    BY <1>7, CollectTypes DEF Rows, Files
  <2>3. every > 0 => /\ since' < every /\ behind'["time"] = since'
                     /\ behind'["tracked"] <= since' + 1
    <3> SUFFICES ASSUME every > 0
                 PROVE  /\ since' < every /\ behind'["time"] = since'
                        /\ behind'["tracked"] <= since' + 1
      OBVIOUS
    <3>1. since + 1 < every /\ since < MaxRows
      BY <1>2, <1>4, <1>5, <1>7 DEF FlushDue
    <3>2. since' = since + 1 /\ behind'["time"] = since + 1
      BY <1>1, <1>2, <2>2, <3>1, MoreCounts
    <3>3. behind'["tracked"] <= behind["tracked"] + 1 /\ behind'["tracked"] \in 0 .. MaxRows
      BY <1>5, <2>2, MoreCounts
    <3> QED BY <1>2, <1>5, <3>1, <3>2, <3>3
  <2>4. ~Sampling'
    BY <2>1, ChainsAssumption DEF Sampling, Idle
  <2>5. writing' = None /\ writing' # "tracked"
    BY <1>1, <1>7, ChainsAssumption
  <2>6. RowPart'
    BY <1>1, <1>2, <1>4, <1>7, <2>1, <2>2, <2>3, <2>4, <2>5 DEF PluginInv, RowPart
  <2> QED BY <1>3, <2>1, <2>6 DEF PluginInv
<1> QED BY <1>6, <1>7 DEF Sample

LEMMA TimeWrittenInv == PluginInv /\ TimeWritten => PluginInv'
<1> SUFFICES ASSUME PluginInv, TimeWritten PROVE PluginInv'
  OBVIOUS
<1>1. /\ writing = "time" /\ writing' = "tracked"
      /\ behind' = [behind EXCEPT !["time"] = 0] /\ cut' = cut \ {"time"}
      /\ chain' = chain /\ statistics' = statistics /\ pending' = pending
      /\ every' = every /\ since' = since /\ failed' = failed /\ trip' = trip
      /\ walk' = walk /\ due' = due /\ ran' = ran /\ again' = again /\ grown' = grown
  BY DEF TimeWritten, call
<1>2. ChainPart'
  BY <1>1 DEF PluginInv, ChainPart
<1>3. CallPart'
  BY <1>1 DEF PluginInv, CallPart, Walked
<1>4. /\ behind' \in [Rows -> 0 .. MaxRows] /\ behind'["time"] = 0
      /\ behind'["tracked"] = behind["tracked"]
  BY <1>1, ChainsAssumption DEF PluginInv, RowPart, Rows, Files
<1>5. writing # None /\ writing' # None /\ writing' \in Files
  BY <1>1, ChainsAssumption DEF Files
<1>6. cut' \subseteq Files /\ "time" \notin cut' /\ (~failed => cut' = {})
  BY <1>1 DEF PluginInv, RowPart
<1>7. RowPart'
  BY <1>1, <1>4, <1>5, <1>6 DEF PluginInv, RowPart, Sampling
<1> QED BY <1>2, <1>3, <1>7 DEF PluginInv

LEMMA TrackedWrittenInv == PluginInv /\ TrackedWritten => PluginInv'
<1> SUFFICES ASSUME PluginInv, TrackedWritten PROVE PluginInv'
  OBVIOUS
<1>1. /\ writing = "tracked" /\ writing' = None /\ since' = 0 /\ failed' = FALSE
      /\ cut' = cut \ {"tracked"}
      /\ chain' = chain /\ statistics' = statistics /\ every' = every /\ trip' = trip
  BY DEF TrackedWritten
<1>2. /\ writing # None /\ behind["time"] = 0 /\ behind \in [Rows -> 0 .. MaxRows]
      /\ writing' # "tracked"
  BY <1>1, ChainsAssumption DEF PluginInv, RowPart
<1>3. ChainPart'
  BY <1>1 DEF PluginInv, ChainPart
<1>4. cut' = {}
  BY <1>1 DEF PluginInv, RowPart, Files
<1>5. CASE /\ statistics = "on"
           /\ behind' = [behind EXCEPT !["tracked"] = 1, !["received"] = 0]
           /\ pending' = TRUE /\ EndCall
  <2>1. CallPart' /\ walk' = Idle
    BY <1>5, IdleCall DEF EndCall
  <2>2. every > 0 /\ every \in 0 .. MaxRows /\ 1 \in 0 .. MaxRows
    <3>1. every > 0
      BY <1>2, <1>5 DEF PluginInv, RowPart
    <3>2. every \in 0 .. MaxRows /\ MaxRows \in Nat
      BY EveryIsCounted, ChainsAssumption
    <3> QED BY <3>1, <3>2
  <2>3. /\ behind'["time"] = 0 /\ behind'["tracked"] = 1
        /\ behind' \in [Rows -> 0 .. MaxRows]
    BY <1>2, <1>5, <2>2 DEF Rows, Files
  <2>4. ~Sampling'
    BY <2>1, ChainsAssumption DEF Sampling, Idle
  <2>5. /\ statistics' = "on" /\ pending' = TRUE /\ failed' = FALSE
        /\ since' \in 0 .. MaxRows /\ every' \in {0} \cup Intervals
        /\ writing' = None /\ None \notin Files /\ cut' = {}
    BY <1>1, <1>4, <1>5, <2>2, ChainsAssumption DEF PluginInv, RowPart, Files
  <2>6. since' < every' /\ behind'["time"] = since' /\ behind'["tracked"] <= since' + 1
    BY <1>1, <2>2, <2>3
  <2>7. writing' # "tracked"
    BY <1>2
  <2>8. RowPart'
    BY <2>1, <2>3, <2>4, <2>5, <2>6, <2>7 DEF RowPart
  <2> QED BY <1>3, <2>1, <2>8 DEF PluginInv
<1>6. CASE /\ statistics # "on"
           /\ behind' = [behind EXCEPT !["tracked"] = 0, !["received"] = 0]
           /\ UNCHANGED <<call, pending>>
  <2>1. /\ walk' = walk /\ due' = due /\ ran' = ran /\ again' = again /\ grown' = grown
        /\ pending' = pending
    BY <1>6 DEF call
  <2>2. CallPart'
    BY <1>1, <2>1 DEF PluginInv, CallPart, Walked
  <2>3. statistics = "finished" /\ ~Sampling
    BY <1>2, <1>6, <1>1 DEF PluginInv, RowPart, Sampling
  <2>4. /\ behind' \in [Rows -> 0 .. MaxRows]
        /\ \A r \in Rows : behind'[r] = 0
    BY <1>2, <1>6, ChainsAssumption DEF Rows, Files
  <2>5. /\ statistics' = "finished" /\ pending' \in BOOLEAN /\ failed' = FALSE
        /\ since' \in 0 .. MaxRows /\ every' \in {0} \cup Intervals
        /\ writing' = None /\ writing' # "tracked" /\ cut' = {}
    BY <1>1, <1>2, <1>4, <2>1, <2>3, ChainsAssumption DEF PluginInv, RowPart
  <2>6. ~Sampling'
    BY <2>1, <2>3 DEF Sampling
  <2>7. RowPart'
    BY <2>3, <2>4, <2>5, <2>6 DEF RowPart
  <2> QED BY <1>3, <2>2, <2>7 DEF PluginInv
<1> QED BY <1>5, <1>6 DEF TrackedWritten

LEMMA WriteFailsInv == PluginInv /\ WriteFails => PluginInv'
<1> SUFFICES ASSUME PluginInv, WriteFails PROVE PluginInv'
  OBVIOUS
<1>1. /\ writing # None /\ writing' = None /\ failed' = TRUE
      /\ chain' = chain /\ statistics' = statistics /\ pending' = pending
      /\ every' = every /\ since' = since /\ behind' = behind /\ trip' = trip
      /\ cut' \in {cut, cut \cup {writing}}
  BY DEF WriteFails
<1>2. ChainPart'
  BY <1>1 DEF PluginInv, ChainPart
<1>3. CallPart' /\ walk' = Idle
  BY IdleCall DEF WriteFails, EndCall
<1>4. ~Sampling'
  BY <1>3, ChainsAssumption DEF Sampling, Idle
<1>5. statistics # "never" /\ (statistics = "on" => pending = FALSE)
  BY <1>1 DEF PluginInv, RowPart
<1>6. cut' \subseteq Files /\ writing' # "tracked"
  BY <1>1, ChainsAssumption DEF PluginInv, RowPart
<1>7. RowPart'
  BY <1>1, <1>3, <1>4, <1>5, <1>6 DEF PluginInv, RowPart
<1> QED BY <1>2, <1>3, <1>7 DEF PluginInv

LEMMA InitInv == Init => PluginInv
<1> SUFFICES ASSUME Init PROVE PluginInv
  OBVIOUS
<1>1. /\ chain = [c \in Methods |-> <<"own">>]
      /\ walk = [of |-> "initialize", at |-> 1, handler |-> "own", arg |-> "other"]
      /\ due = {"own"} /\ ran = {"own"} /\ again = {} /\ grown = FALSE
      /\ statistics = "never" /\ pending = FALSE /\ every = 0
      /\ since = 0 /\ behind = [r \in Rows |-> 0] /\ writing = None /\ failed = FALSE
      /\ cut = {} /\ trip = "never"
  BY DEF Init
<1> DEFINE s == <<"own">>
<1>2. /\ s \in Seq(Handlers) /\ s \in Seq(Trips \cup {"own"})
      /\ Len(s) = 1 /\ s[1] = "own"
  BY DEF Handlers
<1> HIDE DEF s
<1>3. Distinct(s)
  BY <1>2 DEF Distinct
<1>4. chain = [c \in Methods |-> s]
  BY <1>1 DEF s
<1>5. /\ chain["initialize"] = s /\ chain["timer"] = s /\ chain["telemetry"] = s
      /\ chain["packet"] = s
      /\ chain \in [Methods -> Seq(Handlers)]
  BY <1>2, <1>4 DEF Methods
<1>6. ChainPart
  <2>1. s = <<"own">>
    BY DEF s
  <2>2. Distinct(chain["telemetry"])
    BY <1>3, <1>5
  <2>3. /\ chain["telemetry"] \in Seq(Trips \cup {"own"})
        /\ Len(chain["telemetry"]) > 0 /\ chain["telemetry"][Len(chain["telemetry"])] = "own"
    <3>1. Len(s) > 0 /\ s[Len(s)] = "own"
      BY <1>2
    <3> QED BY <1>2, <1>5, <3>1, Zenon
  <2>4. trip \notin Trips /\ statistics # "on"
    BY <1>1, ChainsAssumption
  <2> QED BY <1>1, <1>5, <2>1, <2>2, <2>3, <2>4 DEF ChainPart
<1>7. CallPart
  <2>1. walk \in Calls /\ walk.handler = "own" /\ walk.at = 1 /\ walk.of = "initialize"
    BY <1>1 DEF Calls, Methods, Handlers
  <2>2. Len(chain[walk.of]) = 1
    BY <1>2, <1>5, <2>1
  <2>3. Walked
    <3>1. walk.at >= Len(chain[walk.of])
      BY <2>1, <2>2
    <3>2. due \subseteq ran /\ "own" \in ran /\ again = {}
      BY <1>1
    <3> QED BY <3>1, <3>2 DEF Walked
  <2> QED BY <1>1, <2>1, <2>3 DEF CallPart, Handlers
<1>8. RowPart
  <2>1. walk.handler = "own" /\ walk.arg = "other"
    BY <1>1
  <2>2. /\ behind \in [Rows -> 0 .. MaxRows] /\ since \in 0 .. MaxRows
        /\ \A r \in Rows : behind[r] = 0
    BY <1>1, ChainsAssumption
  <2>3. ~Sampling /\ writing = None /\ writing # "tracked"
    BY <1>1, <2>1, ChainsAssumption DEF Sampling
  <2> QED BY <1>1, <2>1, <2>2, <2>3 DEF RowPart
<1> QED BY <1>6, <1>7, <1>8 DEF PluginInv

LEMMA StutterInv == PluginInv /\ UNCHANGED vars => PluginInv'
<1> SUFFICES ASSUME PluginInv, UNCHANGED vars PROVE PluginInv'
  OBVIOUS
<1>1. /\ chain' = chain /\ statistics' = statistics /\ pending' = pending
      /\ every' = every /\ since' = since /\ behind' = behind /\ writing' = writing
      /\ cut' = cut /\ failed' = failed /\ trip' = trip
      /\ walk' = walk /\ due' = due /\ ran' = ran /\ again' = again /\ grown' = grown
  BY DEF vars
<1>2. ChainPart'
  BY <1>1 DEF PluginInv, ChainPart
<1>3. CallPart'
  BY <1>1 DEF PluginInv, CallPart, Walked
<1>4. RowPart'
  BY <1>1 DEF PluginInv, RowPart, Sampling
<1> QED BY <1>2, <1>3, <1>4 DEF PluginInv

LEMMA StepInv == PluginInv /\ [Next]_vars => PluginInv'
<1> SUFFICES ASSUME PluginInv, [Next]_vars PROVE PluginInv'
  OBVIOUS
<1>1. CASE StatisticsTimer
  BY <1>1, StatisticsTimerInv
<1>2. CASE OtherCall("timer") \/ OtherCall("telemetry") \/ OtherCall("packet")
  <2>1. {"timer", "telemetry", "packet"} \subseteq Methods
    BY DEF Methods
  <2> QED BY <1>2, <2>1, OtherCallInv
<1>3. CASE TripHandler \/ SamplePasses \/ OwnReturns
  BY <1>3, HandlersContinueInv
<1>4. CASE \E t \in Trips : InitiateTrip(t)
  BY <1>4, InitiateTripInv
<1>5. CASE FinishTrip
  BY <1>5, FinishTripInv
<1>6. CASE CreateStatistics \/ FinishStatistics
  BY <1>6, CreateStatisticsInv, FinishStatisticsInv
<1>7. CASE Sample \/ TrackPacket \/ TimeWritten \/ TrackedWritten
  BY <1>7, SampleInv, TrackPacketInv, TimeWrittenInv, TrackedWrittenInv
<1>8. CASE WriteFails
  BY <1>8, WriteFailsInv
<1>9. CASE UNCHANGED vars
  BY <1>9, StutterInv
<1> QED BY <1>1, <1>2, <1>3, <1>4, <1>5, <1>6, <1>7, <1>8, <1>9 DEF Next

LEMMA InvAlways == Spec => []PluginInv
  BY InitInv, StepInv, PTL DEF Spec

-----------------------------------------------------------------------------
(* What follows.                                                           *)

\* Every chain stays one of known handlers that ends with the protocol's own, a call is
\* always in one, and the rows stay within what flush_every allows.
THEOREM ChainTypes == Spec => []TypeOK
  BY InvAlways, InvTypes, PTL

\* Unless a file could not be written, and but for the one that is being rewritten, files
\* lack no more than the rows of the last flush_every samples and of packets since, and
\* finish_statistics leaves no row out, for any flush_every.
THEOREM LossStaysCapped == Spec => []LossIsCapped
  BY InvAlways, InvLoss, PTL

\* Only the protocol's own method changes a chain while a call is in it.
LEMMA OwnChanges ==
    ASSUME [Next]_vars, walk # Idle
    PROVE  chain' = chain \/ walk.handler = "own"
BY DEF Next, vars, call, collected, StatisticsTimer, OtherCall, Begin, TripHandler, Sample,
       SamplePasses, TrackPacket, InitiateTrip, FinishTrip, CreateStatistics, FinishStatistics,
       OwnReturns, TimeWritten, TrackedWritten, WriteFails, Own

\* A call does not come to the end of its chain before the protocol's own handler ran.
LEMMA EndOfChain ==
    ASSUME PluginInv, [Next]_vars, walk # Idle, walk' = Idle, Continue(chain'[walk.of])
    PROVE  "own" \in ran
<1> SUFFICES ASSUME "own" \notin ran PROVE FALSE
  OBVIOUS
<1>1. walk \in Calls /\ walk.handler \in ran /\ Walked
  BY DEF PluginInv, CallPart
<1>2. chain' = chain
  BY <1>1, OwnChanges
<1> DEFINE s == chain[walk.of]
<1>3. /\ walk.at \in 1 .. Len(s) /\ ran = {s[i] : i \in 1 .. walk.at}
  BY <1>1 DEF Walked
<1>4. Len(s) \in Nat \ {0} /\ s[Len(s)] = "own"
  BY <1>1, ChainFacts DEF PluginInv, Calls
<1> HIDE DEF s
<1>5. walk.at < Len(s)
  BY <1>3, <1>4
<1>6. walk' = [walk EXCEPT !.at = @ + 1, !.handler = s[walk.at + 1]]
  BY <1>2, <1>3, <1>4, <1>5 DEF Continue, s
<1>7. walk'.at = walk.at + 1 /\ walk.at \in Nat
  BY <1>1, <1>6 DEF Calls
<1> QED BY <1>7 DEF Idle

\* A call that comes to the end of its chain has run every handler that was there all
\* along, and none twice unless the chain grew meanwhile.
THEOREM EverybodyHasATurn == Spec => WalksInFull
<1> DEFINE A == (walk # Idle /\ walk' = Idle /\ Continue(chain'[walk.of])) =>
                  \A h \in due \cap Range(chain'[walk.of]) :
                      h \in ran /\ (h \in again => grown)
<1>1. PluginInv /\ [Next]_vars => A
  <2> SUFFICES ASSUME PluginInv, [Next]_vars, walk # Idle, walk' = Idle,
                      Continue(chain'[walk.of])
               PROVE  \A h \in due : h \in ran /\ (h \in again => grown)
    OBVIOUS
  <2>1. "own" \in ran
    BY EndOfChain
  <2> QED BY <2>1 DEF PluginInv, CallPart, Walked
<1>2. PluginInv /\ [Next]_vars => [A]_vars
  BY <1>1
<1> HIDE DEF A
<1>3. Spec => [][A]_vars
  BY <1>2, InvAlways, PTL DEF Spec
<1> QED BY <1>3 DEF A, WalksInFull

===============================================================================

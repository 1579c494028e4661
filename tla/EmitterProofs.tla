---------------------------- MODULE EmitterProofs --------------------------
(***************************************************************************)
(* Shutting down, for every number of inputs and outputs and any plugins:  *)
(* a stop is no error, inputs close before outputs, and Close panics only  *)
(* when it is made to run twice or the exit timer interferes.              *)
(***************************************************************************)
EXTENDS Emitter, TLAPS

\* The numbers of plugins, and where they begin and end.
LEMMA Numbers ==
  /\ NIn \in Nat /\ NIn > 0 /\ NOut \in Nat /\ NOut > 0 /\ MaxReads \in Nat
  /\ Input \subseteq Plugin /\ Output \subseteq Plugin /\ Input \cap Output = {}
  /\ MW \notin Plugin
  BY CountAssumption DEF CountAssumption, Input, Output, Plugin, MW

\* main is not a copy goroutine.
LEMMA MainIsNoCopier == Main \in Goroutine /\ Main \notin Copier
  <1>1. \A mw \in Middleware : Main \notin Copiers(mw)
    BY Numbers, PluginAssumption
    DEF PluginAssumption, Main, Copiers, Input, Output, MW
  <1> QED
    BY <1>1 DEF Copier, Goroutine

\* Initially nothing is closed and nobody is in Close.
LEMMA InitInv == Init => EmitterInv /\ OneCloserNoPanic
  <1> SUFFICES ASSUME Init PROVE EmitterInv /\ OneCloserNoPanic
    OBVIOUS
  <1>1. TypeOK
    <2>1. 1 \in 1 .. NIn + NOut + 1 /\ 0 \in 0 .. MaxReads
      BY Numbers
    <2> QED
      BY <2>1, FlagAssumption DEF FlagAssumption, Init, TypeOK
  <1>2. \A g \in Goroutine : pc[g] \in {"none", "select"} /\ result[g] = "data"
    BY DEF Init
  <1>3. StopIsNoError /\ InputsCloseFirst
    BY <1>2 DEF Init, StopIsNoError, InputsCloseFirst, Goroutine
  <1>4. QuitComesFirst
    BY <1>2 DEF Init, QuitComesFirst, PastQuit
  <1>5. NoneBeforeStart
    BY MainIsNoCopier DEF Init, NoneBeforeStart, Goroutine
  <1>6. ClosersInOrder
    BY <1>2 DEF Init, ClosersInOrder, ClosedBy
  <1> QED
    BY <1>1, <1>3, <1>4, <1>5, <1>6 DEF EmitterInv, OneCloserNoPanic, Init

-----------------------------------------------------------------------------
(* Steps that close nothing                                                  *)

\* A step of one goroutine that neither closes a plugin nor the channel.
LEMMA QuietStep ==
  ASSUME EmitterInv, NEW g \in Goroutine,
         UNCHANGED <<quit, timer, plugins, closedP>>,
         \A h \in Goroutine \ {g} :
            pc'[h] = pc[h] /\ pos'[h] = pos[h] /\ result'[h] = result[h],
         pc[g] # "none",
         PastQuit(g)' => quit, PastQuit(g) => PastQuit(g)', result'[g] = "stopped" => quit,
         pc'[g] = "close" => pos'[g] \in Plugin, pc'[g] = "write" => pos'[g] \in Output,
         ClosedBy(g)' = ClosedBy(g)
  PROVE  InputsCloseFirst' /\ QuitComesFirst' /\ NoneBeforeStart' /\ ClosersInOrder'
  <1>1. InputsCloseFirst'
    BY DEF EmitterInv, InputsCloseFirst
  <1>2. \A h \in Goroutine \ {g} : PastQuit(h)' = PastQuit(h) /\ ClosedBy(h)' = ClosedBy(h)
    BY DEF PastQuit, ClosedBy
  <1>3. QuitComesFirst'
    BY <1>2 DEF EmitterInv, QuitComesFirst
  <1>4. NoneBeforeStart'
    BY DEF EmitterInv, NoneBeforeStart, Goroutine
  <1>5. ClosersInOrder'
    BY <1>2 DEF EmitterInv, ClosersInOrder
  <1> QED
    BY <1>1, <1>3, <1>4, <1>5

\* Start creates copy goroutines, which read first.
LEMMA StartInv ==
  ASSUME EmitterInv, NEW mw \in Middleware, Start(mw)
  PROVE  EmitterInv'
  <1> USE DEF EmitterInv
  <1>1. TypeOK'
    BY DEF Start, TypeOK
  <1>2. \A g \in Goroutine : pc'[g] = pc[g] \/ (pc'[g] = "read" /\ pc[g] = "none")
    <2>1. Copiers(mw) \subseteq Copier
      BY DEF Copier
    <2> QED
      BY <2>1 DEF Start, NoneBeforeStart
  <1>3. StopIsNoError' /\ InputsCloseFirst'
    BY <1>2 DEF Start, StopIsNoError, InputsCloseFirst, Goroutine
  <1>4. \A g \in Goroutine : PastQuit(g)' = PastQuit(g) /\ ClosedBy(g)' = ClosedBy(g)
    BY <1>2 DEF Start, PastQuit, ClosedBy
  <1>5. QuitComesFirst'
    BY <1>2, <1>4 DEF Start, QuitComesFirst
  <1>6. NoneBeforeStart'
    BY DEF Start, NoneBeforeStart
  <1>7. ClosersInOrder'
    BY <1>2, <1>4 DEF Start, ClosersInOrder
  <1> QED
    BY <1>1, <1>3, <1>5, <1>6, <1>7

\* A signal changes nothing that the invariant speaks of.
LEMMA SignalInv ==
  ASSUME EmitterInv, Signal
  PROVE  EmitterInv'
  BY DEF EmitterInv, Signal, TypeOK, StopIsNoError, InputsCloseFirst, QuitComesFirst, PastQuit,
         NoneBeforeStart, ClosersInOrder, ClosedBy

\* The exit timer closes the stop channel, and is spent then.
LEMMA ExitTimerInv ==
  ASSUME EmitterInv, ExitTimer
  PROVE  EmitterInv'
  <1> USE DEF EmitterInv, ExitTimer
  <1>1. TypeOK' /\ StopIsNoError' /\ InputsCloseFirst' /\ NoneBeforeStart'
    BY DEF TypeOK, StopIsNoError, InputsCloseFirst, NoneBeforeStart
  <1>2. QuitComesFirst'
    BY DEF QuitComesFirst, PastQuit
  <1>3. ClosersInOrder'
    BY DEF ClosersInOrder, ClosedBy
  <1> QED
    BY <1>1, <1>2, <1>3

\* main enters Close, having closed nothing yet.
LEMMA MainWakesInv ==
  ASSUME EmitterInv, MainWakes
  PROVE  EmitterInv'
  <1> USE DEF EmitterInv
  <1>1. TypeOK'
    BY MainIsNoCopier DEF TypeOK, MainWakes, Goto
  <1>2. pc'[Main] = "check" /\ \A h \in Goroutine \ {Main} : pc'[h] = pc[h]
    BY MainIsNoCopier DEF TypeOK, MainWakes, Goto
  <1>3. StopIsNoError'
    BY <1>2, MainIsNoCopier DEF StopIsNoError, MainWakes, Goroutine
  <1>4. ClosedBy(Main)' = ClosedBy(Main)
    BY <1>2 DEF MainWakes, ClosedBy
  <1>5. InputsCloseFirst' /\ QuitComesFirst' /\ NoneBeforeStart' /\ ClosersInOrder'
    BY <1>2, <1>4, QuietStep, MainIsNoCopier DEF MainWakes, PastQuit, QuitComesFirst
  <1> QED
    BY <1>1, <1>3, <1>5

\* The middleware, no plugin of the slices, closes after the stop channel.
LEMMA MiddlewareCloseInv ==
  ASSUME EmitterInv, MiddlewareClose
  PROVE  EmitterInv'
  <1> USE DEF EmitterInv, MiddlewareClose
  <1>1. TypeOK' /\ StopIsNoError' /\ NoneBeforeStart'
    BY DEF TypeOK, StopIsNoError, NoneBeforeStart
  <1>2. closedP' \cap Plugin = closedP \cap Plugin
    BY Numbers
  <1>3. InputsCloseFirst'
    BY <1>2, Numbers DEF InputsCloseFirst
  <1>4. QuitComesFirst'
    BY DEF QuitComesFirst, PastQuit
  <1>5. ClosersInOrder'
    BY <1>2 DEF ClosersInOrder, ClosedBy
  <1> QED
    BY <1>1, <1>3, <1>4, <1>5

-----------------------------------------------------------------------------
(* CopyMulty                                                                 *)

\* A Read that reports a stop comes after the stop channel was closed.
LEMMA CopyReadInv ==
  ASSUME EmitterInv, NEW g \in Copier, CopyRead(g)
  PROVE  EmitterInv'
  <1> USE DEF EmitterInv
  <1>0. g \in Goroutine
    BY DEF Goroutine
  <1>1. TypeOK'
    <2>1. reads[g] \in 0 .. MaxReads
      BY <1>0 DEF TypeOK
    <2>2. reads[g] < MaxReads => reads[g] + 1 \in 0 .. MaxReads
      BY <2>1, Numbers
    <2>3. reads' \in [Goroutine -> 0 .. MaxReads]
      BY <1>0, <2>2 DEF CopyRead, TypeOK
    <2> QED
      BY <1>0, <2>3 DEF CopyRead, Goto, TypeOK
  <1>2. /\ pc'[g] = "stop" /\ pc[g] = "read"
        /\ result'[g] = "stopped" => g \in closedP
        /\ \A h \in Goroutine \ {g} : pc'[h] = pc[h] /\ result'[h] = result[h]
    BY <1>0 DEF CopyRead, Goto, TypeOK
  <1>3. StopIsNoError'
    BY <1>2 DEF StopIsNoError, Goroutine
  <1>4. ClosedBy(g)' = ClosedBy(g)
    BY <1>2 DEF ClosedBy
  <1>5. InputsCloseFirst' /\ QuitComesFirst' /\ NoneBeforeStart' /\ ClosersInOrder'
    BY <1>0, <1>2, <1>4, QuietStep DEF CopyRead, PastQuit, QuitComesFirst
  <1> QED
    BY <1>1, <1>3, <1>5

\* Such a Read ends the goroutine: the stop channel is looked at first.
LEMMA CopyStopInv ==
  ASSUME EmitterInv, NEW g \in Copier, CopyStop(g)
  PROVE  EmitterInv'
  <1> USE DEF EmitterInv
  <1>0. g \in Goroutine
    BY DEF Goroutine
  <1>1. NIn + 1 \in 1 .. NIn + NOut + 1 /\ NIn + 1 \in Output
    BY Numbers DEF Output
  <1>2. TypeOK'
    BY <1>0, <1>1 DEF CopyStop, Goto, TypeOK
  <1>3. /\ pc[g] = "stop"
        /\ \/ pc'[g] \in {"end", "read"}
           \/ ~quit /\ pc'[g] = "check"
           \/ result[g] = "data" /\ pc'[g] = "write" /\ pos'[g] = NIn + 1
        /\ \A h \in Goroutine \ {g} : pc'[h] = pc[h] /\ pos'[h] = pos[h]
    BY <1>0 DEF CopyStop, Goto, TypeOK
  <1>4. StopIsNoError'
    BY <1>0, <1>3 DEF CopyStop, StopIsNoError, QuitComesFirst, Goroutine
  <1>5. ClosedBy(g)' = ClosedBy(g)
    BY <1>3 DEF ClosedBy
  <1>6. InputsCloseFirst' /\ QuitComesFirst' /\ NoneBeforeStart' /\ ClosersInOrder'
    BY <1>0, <1>1, <1>3, <1>5, QuietStep DEF CopyStop, PastQuit, QuitComesFirst
  <1> QED
    BY <1>2, <1>4, <1>6

\* Writing goes through the outputs in order.
LEMMA CopyWriteInv ==
  ASSUME EmitterInv, NEW g \in Copier, CopyWrite(g)
  PROVE  EmitterInv'
  <1> USE DEF EmitterInv
  <1>0. g \in Goroutine
    BY DEF Goroutine
  <1>1. /\ pos[g] \in Output /\ 1 \in 1 .. NIn + NOut + 1
        /\ pos[g] # NIn + NOut => pos[g] + 1 \in Output
        /\ Output \subseteq 1 .. NIn + NOut + 1
    BY <1>0, Numbers DEF CopyWrite, ClosersInOrder, Output
  <1>2. TypeOK'
    BY <1>0, <1>1 DEF CopyWrite, Goto, TypeOK
  <1>3. /\ pc[g] = "write"
        /\ pc'[g] \in {"read", "check"} \/ (pc'[g] = "write" /\ pos'[g] \in Output)
        /\ \A h \in Goroutine \ {g} : pc'[h] = pc[h] /\ pos'[h] = pos[h]
    BY <1>0, <1>1 DEF CopyWrite, Goto, TypeOK
  <1>4. StopIsNoError'
    BY <1>0, <1>3 DEF CopyWrite, StopIsNoError, Goroutine
  <1>5. ClosedBy(g)' = ClosedBy(g)
    BY <1>3 DEF ClosedBy
  <1>6. InputsCloseFirst' /\ QuitComesFirst' /\ NoneBeforeStart' /\ ClosersInOrder'
    BY <1>0, <1>3, <1>5, QuietStep DEF CopyWrite, PastQuit, QuitComesFirst
  <1> QED
    BY <1>2, <1>4, <1>6

-----------------------------------------------------------------------------
(* emitter.Close                                                             *)

\* A closer goes on to the plugins only if the channel is closed, ...
LEMMA CloseCheckInv ==
  ASSUME EmitterInv, NEW g \in Goroutine, CloseCheck(g)
  PROVE  EmitterInv'
  <1> USE DEF EmitterInv
  <1>1. TypeOK'
    BY DEF CloseCheck, Goto, TypeOK
  <1>2. /\ pc[g] = "check" /\ pc'[g] = IF quit THEN "inputs" ELSE "closeq"
        /\ \A h \in Goroutine \ {g} : pc'[h] = pc[h]
    BY DEF CloseCheck, Goto, TypeOK
  <1>3. StopIsNoError'
    BY <1>2 DEF CloseCheck, StopIsNoError, Goroutine
  <1>4. ClosedBy(g)' = ClosedBy(g)
    BY <1>2 DEF ClosedBy
  <1>5. InputsCloseFirst' /\ QuitComesFirst' /\ NoneBeforeStart' /\ ClosersInOrder'
    BY <1>2, <1>4, QuietStep DEF CloseCheck, PastQuit, QuitComesFirst
  <1> QED
    BY <1>1, <1>3, <1>5

\* ... or closes it before it does.
LEMMA CloseQuitInv ==
  ASSUME EmitterInv, NEW g \in Goroutine, CloseQuit(g)
  PROVE  EmitterInv'
  <1> USE DEF EmitterInv
  <1>1. TypeOK'
    BY DEF CloseQuit, Goto, TypeOK
  <1>2. /\ pc[g] = "closeq" /\ pc'[g] = "inputs" /\ quit'
        /\ \A h \in Goroutine \ {g} : pc'[h] = pc[h]
        /\ UNCHANGED <<timer, plugins, closedP, pos, result>>
    BY DEF CloseQuit, Goto, TypeOK
  <1>3. StopIsNoError' /\ InputsCloseFirst' /\ NoneBeforeStart'
    BY <1>2 DEF StopIsNoError, InputsCloseFirst, NoneBeforeStart, Goroutine
  <1>4. QuitComesFirst'
    BY <1>2 DEF QuitComesFirst, PastQuit
  <1>5. \A h \in Goroutine : ClosedBy(h)' = ClosedBy(h)
    BY <1>2 DEF ClosedBy
  <1>6. ClosersInOrder'
    BY <1>2, <1>5 DEF ClosersInOrder
  <1> QED
    BY <1>1, <1>3, <1>4, <1>6

\* Each loop starts where the one before it has left off.
LEMMA CloseRangeInv ==
  ASSUME EmitterInv, NEW g \in Goroutine, CloseRange(g)
  PROVE  EmitterInv'
  <1> USE DEF EmitterInv
  <1>1. CASE plugins # "set"
    BY <1>1 DEF CloseRange, Panic, TypeOK, StopIsNoError, InputsCloseFirst, QuitComesFirst,
                PastQuit, NoneBeforeStart, ClosersInOrder, ClosedBy
  <1>2. CASE plugins = "set"
    <2>1. 1 \in Plugin /\ NIn + 1 \in Plugin /\ Plugin \subseteq 1 .. NIn + NOut + 1
      BY Numbers DEF Plugin
    <2>2. TypeOK'
      BY <1>2, <2>1 DEF CloseRange, Goto, TypeOK
    <2>3. /\ pc'[g] = "close" /\ UNCHANGED <<quit, timer, plugins, closedP, result>>
          /\ \/ pc[g] = "inputs" /\ pos'[g] = 1
             \/ pc[g] = "outputs" /\ pos'[g] = NIn + 1
          /\ \A h \in Goroutine \ {g} : pc'[h] = pc[h] /\ pos'[h] = pos[h]
      BY <1>2 DEF CloseRange, Goto, TypeOK
    <2>4. StopIsNoError'
      BY <2>3 DEF StopIsNoError, Goroutine
    <2>5. ClosedBy(g)' = ClosedBy(g)
      <3>1. CASE pc[g] = "inputs"
        <4>1. pos'[g] = 1 /\ 1 .. (pos'[g] - 1) = {}
          BY <2>3, <3>1
        <4> QED
          BY <2>3, <3>1, <4>1 DEF ClosedBy
      <3>2. CASE pc[g] = "outputs"
        <4>1. 1 .. (pos'[g] - 1) = Input
          BY <2>3, <3>2, Numbers DEF Input
        <4> QED
          BY <2>3, <3>2, <4>1 DEF ClosedBy
      <3> QED
        BY <2>3, <3>1, <3>2
    <2>6. InputsCloseFirst' /\ QuitComesFirst' /\ NoneBeforeStart' /\ ClosersInOrder'
      BY <2>1, <2>3, <2>5, QuietStep DEF PastQuit, QuitComesFirst
    <2> QED
      BY <2>2, <2>4, <2>6
  <1> QED
    BY <1>1, <1>2

\* One more plugin is closed, after all its predecessors.
LEMMA ClosePluginInv ==
  ASSUME EmitterInv, NEW g \in Goroutine, ClosePlugin(g)
  PROVE  EmitterInv'
  <1> USE DEF EmitterInv
  <1>1. CASE pos[g] \in closedP \ Recloseable
    BY <1>1 DEF ClosePlugin, Panic, TypeOK, StopIsNoError, InputsCloseFirst, QuitComesFirst,
                PastQuit, NoneBeforeStart, ClosersInOrder, ClosedBy
  <1>2. CASE pos[g] \notin closedP \ Recloseable
    <2>1. /\ pc[g] = "close" /\ pos[g] \in Plugin /\ 1 .. (pos[g] - 1) \subseteq closedP
          /\ pos[g] + 1 \in 1 .. NIn + NOut + 1
      <3>1. pc[g] = "close" /\ pos[g] \in Plugin /\ ClosedBy(g) \subseteq closedP
        BY DEF ClosePlugin, ClosersInOrder
      <3>2. ClosedBy(g) = 1 .. (pos[g] - 1)
        BY <3>1 DEF ClosedBy
      <3> QED
        BY <3>1, <3>2, Numbers DEF Plugin
    <2>2. /\ closedP' = closedP \cup {pos[g]} /\ pos'[g] = pos[g] + 1
          /\ \/ pos[g] = NIn /\ pc'[g] = "outputs"
             \/ pos[g] = NIn + NOut /\ pc'[g] = "unset"
             \/ pos[g] # NIn /\ pos[g] # NIn + NOut /\ pc'[g] = "close"
          /\ \A h \in Goroutine \ {g} : pc'[h] = pc[h] /\ pos'[h] = pos[h]
          /\ UNCHANGED <<quit, timer, plugins, result>>
      BY <1>2, <2>1 DEF ClosePlugin, Goto, TypeOK
    <2>3. TypeOK'
      <3>1. pos' \in [Goroutine -> 1 .. NIn + NOut + 1]
        BY <1>2, <2>1 DEF ClosePlugin, TypeOK
      <3>2. closedP' \subseteq Plugin \cup {MW}
        BY <2>1, <2>2 DEF TypeOK
      <3>3. /\ pc' \in [Goroutine -> {"none", "select", "read", "stop", "write", "check",
                             "closeq", "inputs", "outputs", "close", "unset", "end"}]
            /\ UNCHANGED <<quit, signal, timer, plugins, result, reads, crashed>>
        BY <1>2 DEF ClosePlugin, Goto, TypeOK
      <3> QED
        BY <3>1, <3>2, <3>3 DEF TypeOK
    <2>4. StopIsNoError'
      BY <2>1, <2>2 DEF StopIsNoError, Goroutine
    <2>5. InputsCloseFirst'
      <3>1. pos[g] \in Output => Input \subseteq 1 .. (pos[g] - 1)
        BY Numbers DEF Input, Output
      <3> QED
        BY <2>1, <2>2, <3>1 DEF InputsCloseFirst
    <2>6. PastQuit(g) /\ PastQuit(g)' /\ \A h \in Goroutine \ {g} : PastQuit(h)' = PastQuit(h)
      BY <2>1, <2>2 DEF PastQuit
    <2>7. QuitComesFirst'
      BY <2>2, <2>6 DEF QuitComesFirst
    <2>8. NoneBeforeStart'
      BY <2>1, <2>2 DEF NoneBeforeStart, Goroutine
    <2>9. ClosedBy(g)' = ClosedBy(g) \cup {pos[g]}
      <3>1. ClosedBy(g) = 1 .. (pos[g] - 1)
        BY <2>1 DEF ClosedBy
      <3>2. 1 .. pos[g] = 1 .. (pos[g] - 1) \cup {pos[g]} /\ pos[g] + 1 - 1 = pos[g]
        BY <2>1, Numbers DEF Plugin
      <3>3. CASE pos[g] = NIn
        BY <2>2, <3>1, <3>2, <3>3, Numbers DEF ClosedBy, Input
      <3>4. CASE pos[g] = NIn + NOut
        BY <2>2, <3>1, <3>2, <3>4, Numbers DEF ClosedBy, Plugin
      <3>5. CASE pos[g] # NIn /\ pos[g] # NIn + NOut
        BY <2>2, <3>1, <3>2, <3>5 DEF ClosedBy
      <3> QED
        BY <3>3, <3>4, <3>5
    <2>10. ClosersInOrder'
      <3>1. \A h \in Goroutine \ {g} : ClosedBy(h)' = ClosedBy(h)
        BY <2>2 DEF ClosedBy
      <3>2. pc'[g] = "close" => pos'[g] \in Plugin
        BY <2>1, <2>2, Numbers DEF Plugin
      <3>3. \A h \in Goroutine :
               /\ pc'[h] = "close" => pos'[h] \in Plugin
               /\ pc'[h] = "write" => pos'[h] \in Output
               /\ ClosedBy(h)' \subseteq closedP'
        BY <2>1, <2>2, <2>9, <3>1, <3>2 DEF ClosersInOrder
      <3>4. ASSUME NEW k \in closedP' \cap Plugin
            PROVE  plugins' = "nil" \/ \E h \in Goroutine : k \in ClosedBy(h)'
        <4>1. CASE k = pos[g]
          BY <2>9, <4>1
        <4>2. CASE k # pos[g]
          <5>1. plugins = "nil" \/ \E h \in Goroutine : k \in ClosedBy(h)
            BY <2>2, <3>4, <4>2 DEF ClosersInOrder
          <5> QED
            BY <2>2, <2>9, <3>1, <5>1
        <4> QED
          BY <4>1, <4>2
      <3> QED
        BY <3>3, <3>4 DEF ClosersInOrder
    <2> QED
      BY <2>3, <2>4, <2>5, <2>7, <2>8, <2>10
  <1> QED
    BY <1>1, <1>2

\* A closer that is done has closed every plugin.
LEMMA CloseUnsetInv ==
  ASSUME EmitterInv, NEW g \in Goroutine, CloseUnset(g)
  PROVE  EmitterInv'
  <1> USE DEF EmitterInv
  <1>1. TypeOK'
    BY DEF CloseUnset, Goto, TypeOK
  <1>2. /\ pc[g] = "unset" /\ pc'[g] = "end" /\ plugins' = "nil"
        /\ \A h \in Goroutine \ {g} : pc'[h] = pc[h]
        /\ UNCHANGED <<quit, timer, closedP, pos, result>>
    BY DEF CloseUnset, Goto, TypeOK
  <1>3. StopIsNoError' /\ InputsCloseFirst' /\ NoneBeforeStart'
    BY <1>2 DEF StopIsNoError, InputsCloseFirst, NoneBeforeStart, Goroutine
  <1>4. QuitComesFirst'
    BY <1>2 DEF QuitComesFirst, PastQuit
  <1>5. ClosedBy(g)' = {} /\ \A h \in Goroutine \ {g} : ClosedBy(h)' = ClosedBy(h)
    BY <1>2 DEF ClosedBy
  <1>6. ClosersInOrder'
    BY <1>2, <1>5 DEF ClosersInOrder
  <1> QED
    BY <1>1, <1>3, <1>4, <1>6

-----------------------------------------------------------------------------
(* Every step                                                                *)

\* Every step of the process keeps the invariant.
LEMMA NextInv == EmitterInv /\ [Next]_vars => EmitterInv'
  <1> SUFFICES ASSUME EmitterInv, [Next]_vars PROVE EmitterInv'
    OBVIOUS
  <1>1. CASE \E mw \in Middleware : Start(mw)
    BY <1>1, StartInv
  <1>2. CASE Signal \/ ExitTimer \/ MainWakes \/ MiddlewareClose
    BY <1>2, SignalInv, ExitTimerInv, MainWakesInv, MiddlewareCloseInv
  <1>3. CASE \E g \in Copier : Copy(g)
    BY <1>3, CopyReadInv, CopyStopInv, CopyWriteInv DEF Copy
  <1>4. CASE \E g \in Goroutine : Close(g)
    BY <1>4, CloseCheckInv, CloseQuitInv, CloseRangeInv, ClosePluginInv, CloseUnsetInv
    DEF Close
  <1>5. CASE UNCHANGED vars
    BY <1>5 DEF vars, EmitterInv, TypeOK, StopIsNoError, InputsCloseFirst, QuitComesFirst,
                PastQuit, NoneBeforeStart, ClosersInOrder, ClosedBy
  <1> QED
    BY <1>1, <1>2, <1>3, <1>4, <1>5 DEF Next

(***************************************************************************)
(* Shutting down, however many goroutines run emitter.Close at once and    *)
(* whatever their plugins do: a Read that ends because its plugin was      *)
(* closed is never taken for an error, and no output is closed while an    *)
(* input is open.                                                          *)
(***************************************************************************)
THEOREM ShutdownOrder == Spec => []EmitterInv
  <1>1. Init => EmitterInv
    BY InitInv
  <1> QED
    BY <1>1, NextInv, PTL DEF Spec

-----------------------------------------------------------------------------
(* Panics                                                                    *)

\* A panic is final: nothing runs after it.
LEMMA CrashIsFinal == crashed /\ [Next]_vars => UNCHANGED vars
  BY DEF Next, vars, Alive, Start, Signal, ExitTimer, MainWakes, MiddlewareClose, Copy, CopyRead,
         CopyStop, CopyWrite, Close, CloseCheck, CloseQuit, CloseRange, ClosePlugin, CloseUnset

\* Closing the stop channel a second time takes the timer or another closer.
LEMMA QuitPanic ==
  ASSUME EmitterInv, NEW g \in Goroutine, CloseQuit(g)
  PROVE  OneCloserNoPanic'
  <1>1. SUFFICES ASSUME quit PROVE OneCloserNoPanic'
    BY DEF CloseQuit, OneCloserNoPanic
  <1>2. /\ pc[g] = "closeq" /\ pc'[g] = "inputs"
        /\ \A h \in Goroutine \ {g} : pc'[h] = pc[h]
        /\ UNCHANGED <<timer, plugins>>
    BY DEF CloseQuit, Goto, EmitterInv, TypeOK
  <1>3. Closing(g)' /\ ~PastQuit(g)
    BY <1>2 DEF Closing, PastQuit
  <1>4. CASE (ExitAfter /\ ~timer) \/ plugins = "nil"
    BY <1>2, <1>3, <1>4 DEF OneCloserNoPanic
  <1>5. CASE \E h \in Goroutine : PastQuit(h)
    <2>1. PICK h \in Goroutine : PastQuit(h)
      BY <1>5
    <2>2. h # g /\ Closing(h)'
      BY <1>2, <1>3, <2>1 DEF PastQuit, Closing
    <2> QED
      BY <1>3, <2>2 DEF OneCloserNoPanic
  <1> QED
    BY <1>1, <1>4, <1>5 DEF EmitterInv, QuitComesFirst

\* Ranging over e.plugins panics before Start or after another Close.
LEMMA RangePanic ==
  ASSUME EmitterInv, NEW g \in Goroutine, CloseRange(g), ~crashed
  PROVE  OneCloserNoPanic'
  <1>1. CASE plugins = "set"
    BY <1>1 DEF CloseRange, OneCloserNoPanic
  <1>2. CASE plugins # "set"
    <2>1. UNCHANGED <<plugins, pc>> /\ Closing(g) /\ plugins \in {"unset", "nil"}
      BY <1>2 DEF CloseRange, Closing, EmitterInv, TypeOK
    <2> QED
      BY <2>1 DEF OneCloserNoPanic, Closing
  <1> QED
    BY <1>1, <1>2

\* A plugin that is closed already was closed by another goroutine.
LEMMA PluginPanic ==
  ASSUME EmitterInv, NEW g \in Goroutine, ClosePlugin(g), ~crashed
  PROVE  OneCloserNoPanic'
  <1>1. CASE pos[g] \notin closedP \ Recloseable
    BY <1>1 DEF ClosePlugin, OneCloserNoPanic
  <1>2. CASE pos[g] \in closedP \ Recloseable
    <2>1. UNCHANGED <<plugins, pc>> /\ pc[g] = "close" /\ Closing(g)
      BY <1>2 DEF ClosePlugin, Closing
    <2>2. pos[g] \in closedP \cap Plugin
      BY <1>2, <2>1 DEF EmitterInv, ClosersInOrder
    <2>3. CASE plugins = "nil"
      BY <2>1, <2>3 DEF OneCloserNoPanic, Closing
    <2>4. CASE \E h \in Goroutine : pos[g] \in ClosedBy(h)
      <3>1. PICK h \in Goroutine : pos[g] \in ClosedBy(h)
        BY <2>4
      <3>2. pos[g] \notin ClosedBy(g)
        <4>1. ClosedBy(g) = 1 .. (pos[g] - 1)
          BY <2>1 DEF ClosedBy
        <4> QED
          BY <2>2, <4>1, Numbers DEF Plugin
      <3>3. h # g /\ Closing(h)
        BY <3>1, <3>2 DEF ClosedBy, Closing
      <3> QED
        BY <2>1, <3>3 DEF OneCloserNoPanic, Closing
    <2> QED
      BY <2>2, <2>3, <2>4 DEF EmitterInv, ClosersInOrder
  <1> QED
    BY <1>1, <1>2

(***************************************************************************)
(* Close panics only where it is made to run twice, before Start, or when  *)
(* the exit timer closes the same channel: main alone closes every plugin  *)
(* once, whatever the number of plugins and whether they may be reclosed.  *)
(***************************************************************************)
THEOREM MainClosesAlone == Spec => []OneCloserNoPanic
  <1>1. Init => OneCloserNoPanic
    BY InitInv
  <1>2. EmitterInv /\ OneCloserNoPanic /\ [Next]_vars => OneCloserNoPanic'
    <2> SUFFICES ASSUME EmitterInv, OneCloserNoPanic, [Next]_vars PROVE OneCloserNoPanic'
      OBVIOUS
    <2>1. CASE crashed
      BY <2>1, CrashIsFinal DEF vars, OneCloserNoPanic, Closing
    <2>2. CASE ~crashed
      <3>1. CASE \E g \in Goroutine : Close(g)
        <4>1. PICK g \in Goroutine : Close(g)
          BY <3>1
        <4>2. CASE CloseCheck(g) \/ CloseUnset(g)
          BY <2>2, <4>2 DEF CloseCheck, CloseUnset, OneCloserNoPanic
        <4> QED
          BY <2>2, <4>1, <4>2, QuitPanic, RangePanic, PluginPanic DEF Close
      <3>2. CASE ExitTimer
        BY <2>2, <3>2 DEF ExitTimer, EmitterInv, QuitComesFirst, OneCloserNoPanic
      <3>3. CASE \/ \E mw \in Middleware : Start(mw)
                 \/ Signal \/ MainWakes \/ MiddlewareClose
                 \/ \E g \in Copier : Copy(g)
                 \/ UNCHANGED vars
        <4>1. ~crashed'
          BY <2>2, <3>3 DEF Start, Signal, MainWakes, MiddlewareClose, Copy, CopyRead, CopyStop,
                            CopyWrite, vars
        <4> QED
          BY <4>1 DEF OneCloserNoPanic
      <3> QED
        BY <3>1, <3>2, <3>3 DEF Next
    <2> QED
      BY <2>1, <2>2
  <1> QED
    BY <1>1, <1>2, ShutdownOrder, PTL DEF Spec
=============================================================================

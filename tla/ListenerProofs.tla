--------------------------- MODULE ListenerProofs --------------------------
(***************************************************************************)
(* Proofs about Listener, for every set of handles, engine and capacity.   *)
(***************************************************************************)
EXTENDS Listener, TLAPS

\* A new Listener satisfies its invariant.
LEMMA InitInv == Init => ListenerInv
<1> SUFFICES ASSUME Init PROVE ListenerInv
  OBVIOUS
<1>1. TypeOK
  <2>1. /\ packets \in 0 .. ChanCap
        /\ queued \in [Handle -> 0 .. ChanCap]
        /\ arrivals \in [Handle -> 0 .. MaxPkts]
    BY CapAssumption DEF Init
  <2>2. /\ handles \subseteq Handle /\ mutex \subseteq Handle
        /\ open \subseteq Handle
        /\ rpc \in [Handle -> {"none", "select", "send", "lock", "close", "dead"}]
        /\ spc \in [Handle -> {"none", "poll", "push", "end"}]
    BY DEF Init
  <2> QED
    BY <2>1, <2>2 DEF Init, TypeOK
<1> QED
  BY <1>1 DEF Init, ListenerInv, ClosedWhenNoHandles, ReturnsDrained

\* A reader in its loop, or on its way to close its handle, keeps it registered.
LEMMA ReaderRegistered ==
    ASSUME ListenerInv, NEW h \in Handle, rpc[h] \notin {"none", "dead"}
    PROVE  lpc # "read" /\ h \in handles /\ handles # {} /\ ~closed
           /\ lpc \notin {"report", "done"}
BY DEF ListenerInv, ClosedWhenNoHandles, ReturnsDrained, TypeOK

\* Activation, start-up and Close of RAWInput.
LEMMA MainInv ==
    ASSUME ListenerInv,
           \/ \E ok \in SUBSET Handle, last \in Handle : Activate(ok, last)
           \/ StartReading \/ StartFatal \/ Cancel
    PROVE  ListenerInv'
<1>1. CASE \E ok \in SUBSET Handle, last \in Handle : Activate(ok, last)
  <2>1. PICK ok \in SUBSET Handle, last \in Handle : Activate(ok, last)
    BY <1>1
  <2>2. Activates(ok, last) => ok # {}
    BY DEF Activates
  <2>3. CASE Activates(ok, last)
    BY <2>1, <2>2, <2>3
    DEF Activate, ListenerInv, TypeOK, ClosedWhenNoHandles, ReturnsDrained,
        Closeable, ctxVars
  <2>4. CASE ~Activates(ok, last)
    BY <2>1, <2>4
    DEF Activate, ListenerInv, TypeOK, ClosedWhenNoHandles, ReturnsDrained,
        Closeable, ctxVars
  <2> QED
    BY <2>3, <2>4
<1>2. CASE StartReading \/ StartFatal
  BY <1>2 DEF StartReading, StartFatal, ListenerInv, TypeOK,
              ClosedWhenNoHandles, ReturnsDrained, Closeable, ctxVars, srcVars
<1>3. CASE Cancel
  BY <1>3 DEF Cancel, ListenerInv, TypeOK, ClosedWhenNoHandles,
              ReturnsDrained, Closeable, mainVars, srcVars
<1> QED
  BY <1>1, <1>2, <1>3

\* The goroutine that runs Listen.
LEMMA ListenInv ==
    ASSUME ListenerInv, Listen
    PROVE  ListenerInv'
<1> USE CapAssumption
<1>1. CASE ListenRead
  <2>1. handles # {}
    BY <1>1 DEF ListenRead, ListenerInv, TypeOK, Alive
  <2>2. /\ UNCHANGED <<start, err, errCh, ctxVars, handles, mutex, packets,
                       closed, queued, arrivals, open, crashed>>
        /\ lpc = "read" /\ lpc' = "loop" /\ reading' = TRUE
        /\ rpc' = [h \in Handle |-> IF h \in handles THEN "select" ELSE "none"]
        /\ spc' = [h \in Handle |-> IF h \in handles THEN "poll" ELSE "none"]
    BY <1>1 DEF ListenRead
  <2>3. TypeOK'
    BY <2>2 DEF ListenerInv, TypeOK, ctxVars
  <2>4. ClosedWhenNoHandles'
    BY <2>1, <2>2 DEF ListenerInv, ClosedWhenNoHandles
  <2> QED
    BY <2>2, <2>3, <2>4, <1>1
    DEF ListenerInv, ReturnsDrained, Closeable, ListenRead, ctxVars
<1>2. CASE ListenDone
  BY <1>2 DEF ListenDone, ListenerInv, TypeOK, ClosedWhenNoHandles,
              ReturnsDrained, Closeable, srcVars
<1>3. CASE ListenPacket
  BY <1>3 DEF ListenPacket, ListenerInv, TypeOK, ClosedWhenNoHandles,
              ReturnsDrained, Closeable, srcVars, ctxVars
<1>4. CASE HandlerReturns
  BY <1>4 DEF HandlerReturns, ListenerInv, TypeOK, ClosedWhenNoHandles,
              ReturnsDrained, Closeable, srcVars, ctxVars
<1>5. CASE ListenReturn
  BY <1>5 DEF ListenReturn, ListenerInv, TypeOK, ClosedWhenNoHandles,
              ReturnsDrained, Closeable, srcVars, ctxVars
<1>6. CASE ListenReport
  BY <1>6 DEF ListenReport, ListenerInv, TypeOK, ClosedWhenNoHandles,
              ReturnsDrained, Closeable, srcVars, ctxVars
<1> QED
  BY <1>1, <1>2, <1>3, <1>4, <1>5, <1>6 DEF Listen

\* A reader goroutine, closeHandles included.
LEMMA ReaderInv ==
    ASSUME ListenerInv, NEW h \in Handle, Reader(h)
    PROVE  ListenerInv'
<1> USE CapAssumption
<1>1. rpc[h] \notin {"none", "dead"}
  BY DEF Reader, ReaderQuit, ReaderTake, ReaderEOF, ReaderSend, CloseLock,
         CloseHandle
<1>2. /\ lpc # "read" /\ h \in handles /\ handles # {} /\ ~closed
      /\ lpc \notin {"report", "done"}
  BY <1>1, ReaderRegistered
<1>3. CASE ReaderQuit(h) \/ ReaderTake(h) \/ ReaderEOF(h) \/ ReaderSend(h) \/ CloseLock(h)
  <2>1. /\ UNCHANGED <<mainVars, engine, handles, closed, open>>
        /\ rpc' \in [Handle -> {"none", "select", "send", "lock", "close", "dead"}]
        /\ rpc'[h] \notin {"none", "dead"}
        /\ \A g \in Handle : g # h => rpc'[g] = rpc[g]
    BY <1>1, <1>2, <1>3
    DEF ReaderQuit, ReaderTake, ReaderEOF, ReaderSend, CloseLock, srcVars,
        ctxVars, ListenerInv, TypeOK
  <2>2. /\ cancelled' \in BOOLEAN /\ signalled' \in BOOLEAN
        /\ quit' \in {"open", "token", "closed"}
        /\ mutex' \subseteq Handle
    BY <1>3
    DEF ReaderQuit, ReaderTake, ReaderEOF, ReaderSend, CloseLock, ctxVars,
        ListenerInv, TypeOK
  <2>3. /\ packets' \in 0 .. ChanCap
        /\ queued' \in [Handle -> 0 .. ChanCap]
        /\ spc' \in [Handle -> {"none", "poll", "push", "end"}]
        /\ arrivals' \in [Handle -> 0 .. MaxPkts]
        /\ crashed' \in BOOLEAN
    <3>1. CASE ReaderTake(h)
      <4>1. queued[h] \in 0 .. ChanCap /\ queued[h] - 1 \in 0 .. ChanCap
        BY <3>1 DEF ReaderTake, ListenerInv, TypeOK
      <4> QED
        BY <3>1, <4>1 DEF ReaderTake, ListenerInv, TypeOK
    <3>2. CASE ReaderSend(h)
      BY <1>2, <3>2 DEF ReaderSend, ListenerInv, TypeOK
    <3>3. CASE ReaderQuit(h) \/ ReaderEOF(h) \/ CloseLock(h)
      BY <3>3 DEF ReaderQuit, ReaderEOF, CloseLock, srcVars, ListenerInv, TypeOK
    <3> QED
      BY <1>3, <3>1, <3>2, <3>3
  <2>4. TypeOK'
    BY <2>1, <2>2, <2>3 DEF ListenerInv, TypeOK, mainVars
  <2>5. ClosedWhenNoHandles'
    BY <1>1, <1>2, <2>1 DEF ListenerInv, ClosedWhenNoHandles, mainVars
  <2> QED
    BY <1>2, <2>1, <2>4, <2>5 DEF ListenerInv, ReturnsDrained, Closeable, mainVars
<1>4. CASE CloseHandle(h)
  <2>1. /\ UNCHANGED <<mainVars, ctxVars, packets, spc, queued, arrivals, crashed>>
        /\ open' = IF Closeable THEN open \ {h} ELSE open
        /\ handles' = handles \ {h} /\ mutex' = mutex \ {h}
        /\ closed' = (handles' = {})
        /\ rpc' = [rpc EXCEPT ![h] = "dead"]
    BY <1>2, <1>4 DEF CloseHandle
  <2>2. rpc'[h] = "dead" /\ \A g \in Handle : g # h => rpc'[g] = rpc[g]
    BY <2>1 DEF ListenerInv, TypeOK
  <2>3. TypeOK'
    BY <2>1 DEF ListenerInv, TypeOK, mainVars, ctxVars
  <2>4. ClosedWhenNoHandles'
    BY <1>2, <2>1, <2>2 DEF ListenerInv, ClosedWhenNoHandles, mainVars
  <2> QED
    BY <1>2, <2>1, <2>3, <2>4
    DEF ListenerInv, ReturnsDrained, Closeable, mainVars, ctxVars
<1> QED
  BY <1>3, <1>4 DEF Reader

\* gopacket's source touches neither the handles nor l.packets.
LEMMA SourceInv ==
    ASSUME ListenerInv, NEW h \in Handle, Source(h)
    PROVE  ListenerInv'
<1> USE CapAssumption
<1>1. UNCHANGED <<mainVars, ctxVars, handles, mutex, packets, closed, rpc, open>>
  BY DEF Source, SourcePacket, SourcePush, SourceEOF, srcVars
<1>2. /\ spc' \in [Handle -> {"none", "poll", "push", "end"}]
      /\ queued' \in [Handle -> 0 .. ChanCap]
      /\ arrivals' \in [Handle -> 0 .. MaxPkts]
      /\ crashed' \in BOOLEAN
  <2>1. CASE SourcePacket(h)
    <3>1. arrivals[h] - 1 \in 0 .. MaxPkts
      BY <2>1 DEF SourcePacket, ListenerInv, TypeOK
    <3> QED
      BY <2>1, <3>1 DEF SourcePacket, ListenerInv, TypeOK
  <2>2. CASE SourcePush(h)
    <3>1. queued[h] + 1 \in 0 .. ChanCap
      BY <2>2 DEF SourcePush, ListenerInv, TypeOK
    <3> QED
      BY <2>2, <3>1 DEF SourcePush, ListenerInv, TypeOK
  <2>3. CASE SourceEOF(h)
    BY <2>3 DEF SourceEOF, ListenerInv, TypeOK
  <2> QED
    BY <2>1, <2>2, <2>3 DEF Source
<1>3. TypeOK'
  BY <1>1, <1>2 DEF ListenerInv, TypeOK, mainVars, ctxVars
<1> QED
  BY <1>1, <1>3
  DEF ListenerInv, ClosedWhenNoHandles, ReturnsDrained, Closeable, mainVars, ctxVars

\* The listener's invariant: handles, readers and l.packets end together.
THEOREM ListenerInvariant == Spec => []ListenerInv
<1>1. ListenerInv /\ [Next]_vars => ListenerInv'
  <2> SUFFICES ASSUME ListenerInv, [Next]_vars PROVE ListenerInv'
    OBVIOUS
  <2>1. CASE UNCHANGED vars
    BY <2>1 DEF vars, mainVars, ctxVars, srcVars, ListenerInv, TypeOK,
                ClosedWhenNoHandles, ReturnsDrained, Closeable
  <2> QED
    BY <2>1, MainInv, ListenInv, ReaderInv, SourceInv DEF Next
<1> QED
  BY <1>1, InitInv, PTL DEF Spec

\* No reader ever sends on the closed packet channel, whatever the order in
\* which handles reach their end, quit and close.
THEOREM SafeClose == Spec => []NoSendOnClosed
<1>1. ListenerInv => NoSendOnClosed
  BY ReaderRegistered DEF NoSendOnClosed
<1> QED
  BY <1>1, ListenerInvariant, PTL

\* When Listen returns, no reader and no packet is left behind.
THEOREM OrderlyReturn == Spec => []ReturnsDrained
<1>1. ListenerInv => ReturnsDrained
  BY DEF ListenerInv
<1> QED
  BY <1>1, ListenerInvariant, PTL

\* With a pcap device or file, every handle is closed when Listen returns.
THEOREM HandlesFreed == Spec => []NoHandleLeak
<1>1. ListenerInv => NoHandleLeak
  BY DEF ListenerInv, ReturnsDrained, HandlesClosed, NoHandleLeak
<1> QED
  BY <1>1, ListenerInvariant, PTL
=============================================================================

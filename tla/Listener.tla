------------------------------ MODULE Listener -----------------------------
(***************************************************************************)
(* Packet capture: capture.Listener (capture/capture.go), the SockRaw      *)
(* handle (capture/sock.go), and the start-up and shutdown that RAWInput   *)
(* (input_raw.go) drives.                                                  *)
(*                                                                         *)
(* Every handle h has two goroutines: gopacket's packet source, which      *)
(* blocks in the handle's ReadPacketData and fills a bounded channel, and  *)
(* the reader started by Listener.read, which moves packets from there to  *)
(* l.packets until it sees l.quit or the end of its source, and then runs  *)
(* closeHandles.  Listen consumes l.packets until the last closeHandles    *)
(* closes it; on cancellation of the context it signals l.quit once.       *)
(***************************************************************************)
EXTENDS Naturals, FiniteSets

CONSTANTS
    Handle,     \* interfaces (or the pcap file)
    Engines,    \* the engines considered: a subset of "pcap", "file", "raw"
    ChanCap,    \* capacity of l.packets and of a source's channel (1000)
    MaxPkts     \* packets that arrive at one handle

ASSUME HandleAssumption == IsFiniteSet(Handle) /\ Handle # {}
ASSUME EngineAssumption == Engines \subseteq {"pcap", "file", "raw"}
ASSUME CapAssumption == ChanCap \in Nat \ {0} /\ MaxPkts \in Nat

VARIABLES
    engine,    \* l.Engine, which never changes
    start,     \* RAWInput.listen: waiting for errCh or Reading, running, exited
    lpc,       \* the goroutine that runs Listen
    err,       \* Listen's result: "nil" or "cancelled"
    errCh,     \* content of ListenBackground's error channel
    reading,   \* l.Reading has a value or is closed
    cancelled, \* the context is done
    signalled, \* Listen has seen that and set done to nil
    quit,      \* l.quit: "open", "token" (one value, then closed) or "closed"
    handles,   \* keys of l.Handles
    mutex,     \* holders of the Listener's mutex inside closeHandles
    packets,   \* number of packets in l.packets
    closed,    \* l.packets is closed
    rpc,       \* reader goroutine of each handle
    spc,       \* source goroutine of each handle
    queued,    \* number of packets in each source's channel
    arrivals,  \* packets still to arrive at each handle
    open,      \* handles whose Close has not run
    crashed    \* a goroutine panicked

mainVars == <<start, lpc, err, errCh, reading>>
ctxVars == <<engine, cancelled, signalled, quit>>
srcVars == <<spc, queued, arrivals, open, crashed>>
vars == <<mainVars, ctxVars, handles, mutex, packets, closed, rpc, srcVars>>

TypeOK ==
    /\ engine \in Engines
    /\ start \in {"activate", "wait", "running", "fatal"}
    /\ lpc \in {"read", "loop", "handler", "report", "done"}
    /\ err \in {"nil", "cancelled"}
    /\ errCh \in {"empty", "nil", "cancelled"}
    /\ reading \in BOOLEAN /\ cancelled \in BOOLEAN /\ signalled \in BOOLEAN
    /\ quit \in {"open", "token", "closed"}
    /\ handles \subseteq Handle
    /\ mutex \subseteq Handle
    /\ packets \in 0 .. ChanCap
    /\ closed \in BOOLEAN
    /\ rpc \in [Handle -> {"none", "select", "send", "lock", "close", "dead"}]
    /\ spc \in [Handle -> {"none", "poll", "push", "end"}]
    /\ queued \in [Handle -> 0 .. ChanCap]
    /\ arrivals \in [Handle -> 0 .. MaxPkts]
    /\ open \subseteq Handle
    /\ crashed \in BOOLEAN

Init ==
    /\ engine \in Engines
    /\ start = "activate" /\ lpc = "read" /\ err = "nil" /\ errCh = "empty"
    /\ reading = FALSE
    /\ cancelled = FALSE /\ signalled = FALSE /\ quit = "open"
    /\ handles = {} /\ mutex = {}
    /\ packets = 0 /\ closed = FALSE
    /\ rpc = [h \in Handle |-> "none"]
    /\ spc = [h \in Handle |-> "none"]
    /\ queued = [h \in Handle |-> 0]
    /\ arrivals \in [Handle -> 0 .. MaxPkts]
    /\ open = {}
    /\ crashed = FALSE

\* The process lives: log.Fatal or a panic ends every goroutine.
Alive == start # "fatal" /\ ~crashed

-----------------------------------------------------------------------------
(* Activation                                                                *)

(***************************************************************************)
(* activatePcap, activateRawSocket, activatePcapFile: opening the handle   *)
(* of an interface may fail.  The pcap engine needs one handle to succeed; *)
(* the raw engine returns the error of the interface it tried last.  A     *)
(* file is a single handle.                                                *)
(***************************************************************************)
Activates(ok, last) ==
    CASE engine = "raw" -> last \in ok
      [] OTHER -> ok # {}

Activate(ok, last) ==
    /\ start = "activate"
    /\ engine = "file" => Cardinality(ok) <= 1
    /\ IF Activates(ok, last)
       THEN start' = "wait" /\ handles' = ok /\ open' = ok
       ELSE start' = "fatal" /\ UNCHANGED <<handles, open>>
    /\ UNCHANGED <<lpc, err, errCh, reading, ctxVars, mutex, packets, closed,
                   rpc, spc, queued, arrivals, crashed>>

\* The select in RAWInput.listen.
StartReading ==
    /\ Alive
    /\ start = "wait" /\ reading
    /\ start' = "running"
    /\ UNCHANGED <<lpc, err, errCh, reading, ctxVars, handles, mutex, packets,
                   closed, rpc, srcVars>>

StartFatal ==
    /\ Alive
    /\ start = "wait" /\ errCh # "empty"
    /\ start' = "fatal"
    /\ UNCHANGED <<lpc, err, errCh, reading, ctxVars, handles, mutex, packets,
                   closed, rpc, srcVars>>

\* RAWInput.Close, once the input is constructed.
Cancel ==
    /\ Alive
    /\ start = "running" /\ ~cancelled
    /\ cancelled' = TRUE
    /\ UNCHANGED <<mainVars, engine, signalled, quit, handles, mutex, packets, closed,
                   rpc, srcVars>>

-----------------------------------------------------------------------------
(* Listen and ListenBackground                                               *)

\* l.read(): one reader and one packet source per handle, then Reading.
ListenRead ==
    /\ Alive
    /\ start # "activate" /\ lpc = "read"
    /\ rpc' = [h \in Handle |-> IF h \in handles THEN "select" ELSE "none"]
    /\ spc' = [h \in Handle |-> IF h \in handles THEN "poll" ELSE "none"]
    /\ reading' = TRUE
    /\ lpc' = "loop"
    /\ UNCHANGED <<start, err, errCh, ctxVars, handles, mutex, packets, closed,
                   queued, arrivals, open, crashed>>

\* case <-done: quit has room for its one value, so this never blocks.
ListenDone ==
    /\ Alive
    /\ lpc = "loop" /\ cancelled /\ ~signalled
    /\ signalled' = TRUE
    /\ quit' = "token"
    /\ err' = "cancelled"
    /\ UNCHANGED <<start, lpc, errCh, reading, engine, cancelled, handles, mutex,
                   packets, closed, rpc, srcVars>>

ListenPacket ==
    /\ Alive
    /\ lpc = "loop" /\ packets > 0
    /\ packets' = packets - 1
    /\ lpc' = "handler"
    /\ UNCHANGED <<start, err, errCh, reading, ctxVars, handles, mutex, closed,
                   rpc, srcVars>>

HandlerReturns ==
    /\ Alive
    /\ lpc = "handler"
    /\ lpc' = "loop"
    /\ UNCHANGED <<start, err, errCh, reading, ctxVars, handles, mutex, packets,
                   closed, rpc, srcVars>>

\* Mutant: Listen returns as soon as it has signalled quit.
ListenReturnEarly ==
    /\ Alive
    /\ lpc = "loop" /\ signalled
    /\ lpc' = "report"
    /\ UNCHANGED <<start, err, errCh, reading, ctxVars, handles, mutex, packets,
                   closed, rpc, srcVars>>

\* l.packets is closed and drained: Listen returns.
ListenReturn ==
    /\ Alive
    /\ lpc = "loop" /\ closed /\ packets = 0
    /\ lpc' = "report"
    /\ UNCHANGED <<start, err, errCh, reading, ctxVars, handles, mutex, packets,
                   closed, rpc, srcVars>>

\* ListenBackground sends Listen's result: its test `err != nil` is about the
\* channel, which never is nil.
ListenReport ==
    /\ Alive
    /\ lpc = "report"
    /\ errCh' = err
    /\ lpc' = "done"
    /\ UNCHANGED <<start, err, reading, ctxVars, handles, mutex, packets,
                   closed, rpc, srcVars>>

Listen ==
    \/ ListenRead \/ ListenDone \/ ListenPacket \/ HandlerReturns
    \/ ListenReturn \/ ListenReport

-----------------------------------------------------------------------------
(* A handle's reader and closeHandles                                        *)

SourceClosed(h) == spc[h] = "end"

\* Mutant: quit is sent but not closed, so one reader only hears it.
ReaderQuitOnce(h) ==
    /\ Alive
    /\ rpc[h] = "select" /\ quit = "token"
    /\ quit' = "closed"
    /\ rpc' = [rpc EXCEPT ![h] = "lock"]
    /\ UNCHANGED <<mainVars, engine, cancelled, signalled, handles, mutex, packets,
                   closed, srcVars>>

\* <-l.quit: the first reader may take the value, the others see it closed.
ReaderQuit(h) ==
    /\ Alive
    /\ rpc[h] = "select" /\ quit # "open"
    /\ quit' = "closed"
    /\ rpc' = [rpc EXCEPT ![h] = "lock"]
    /\ UNCHANGED <<mainVars, engine, cancelled, signalled, handles, mutex, packets,
                   closed, srcVars>>

ReaderTake(h) ==
    /\ Alive
    /\ rpc[h] = "select" /\ queued[h] > 0
    /\ queued' = [queued EXCEPT ![h] = @ - 1]
    /\ rpc' = [rpc EXCEPT ![h] = "send"]
    /\ UNCHANGED <<mainVars, ctxVars, handles, mutex, packets, closed, spc,
                   arrivals, open, crashed>>

ReaderEOF(h) ==
    /\ Alive
    /\ rpc[h] = "select" /\ queued[h] = 0 /\ SourceClosed(h)
    /\ rpc' = [rpc EXCEPT ![h] = "lock"]
    /\ UNCHANGED <<mainVars, ctxVars, handles, mutex, packets, closed, srcVars>>

\* l.packets <- p: blocks while the channel is full, panics if it is closed.
ReaderSend(h) ==
    /\ Alive
    /\ rpc[h] = "send"
    /\ closed \/ packets < ChanCap
    /\ IF closed
       THEN crashed' = TRUE /\ UNCHANGED <<packets, rpc>>
       ELSE /\ packets' = packets + 1
            /\ rpc' = [rpc EXCEPT ![h] = "select"]
            /\ crashed' = crashed
    /\ UNCHANGED <<mainVars, ctxVars, handles, mutex, closed, spc, queued,
                   arrivals, open>>

CloseLock(h) ==
    /\ Alive
    /\ rpc[h] = "lock" /\ mutex = {}
    /\ mutex' = {h}
    /\ rpc' = [rpc EXCEPT ![h] = "close"]
    /\ UNCHANGED <<mainVars, ctxVars, handles, packets, closed, srcVars>>

(***************************************************************************)
(* handle.Close(), delete, close(l.packets) after the last handle, unlock. *)
(* Only a handle that has a method Close() without a result is closed:     *)
(* pcap's has, and interrupts the poll of its reader; SockRaw's returns an *)
(* error, so it does not match and is never called.                        *)
(***************************************************************************)
Closeable == engine # "raw"

\* Mutant: l.packets is closed with the first handle.
CloseHandleFirst(h) ==
    /\ Alive
    /\ rpc[h] = "close"
    /\ open' = IF Closeable THEN open \ {h} ELSE open
    /\ handles' = handles \ {h}
    /\ closed' = TRUE
    /\ mutex' = mutex \ {h}
    /\ rpc' = [rpc EXCEPT ![h] = "dead"]
    /\ UNCHANGED <<mainVars, ctxVars, packets, spc, queued, arrivals, crashed>>

\* Mutant: the handle is deleted but not closed.
CloseHandleLeaks(h) ==
    /\ Alive
    /\ rpc[h] = "close"
    /\ handles' = handles \ {h}
    /\ closed' = (closed \/ (h \in handles /\ handles' = {}))
    /\ mutex' = mutex \ {h}
    /\ rpc' = [rpc EXCEPT ![h] = "dead"]
    /\ UNCHANGED <<mainVars, ctxVars, packets, spc, queued, arrivals, open,
                   crashed>>

CloseHandle(h) ==
    /\ Alive
    /\ rpc[h] = "close"
    /\ open' = IF Closeable THEN open \ {h} ELSE open
    /\ handles' = handles \ {h}
    /\ closed' = (closed \/ (h \in handles /\ handles' = {}))
    /\ mutex' = mutex \ {h}
    /\ rpc' = [rpc EXCEPT ![h] = "dead"]
    /\ UNCHANGED <<mainVars, ctxVars, packets, spc, queued, arrivals, crashed>>

Reader(h) ==
    \/ ReaderQuit(h) \/ ReaderTake(h) \/ ReaderEOF(h) \/ ReaderSend(h)
    \/ CloseLock(h) \/ CloseHandle(h)

-----------------------------------------------------------------------------
(* A handle's packet source (gopacket's packetsToChannel over the handle)    *)

\* ReadPacketData returns a packet.
SourcePacket(h) ==
    /\ Alive
    /\ spc[h] = "poll" /\ h \in open /\ arrivals[h] > 0
    /\ arrivals' = [arrivals EXCEPT ![h] = @ - 1]
    /\ spc' = [spc EXCEPT ![h] = "push"]
    /\ UNCHANGED <<mainVars, ctxVars, handles, mutex, packets, closed, rpc,
                   queued, open, crashed>>

\* The channel has room: push, and call ReadPacketData again.
SourcePush(h) ==
    /\ Alive
    /\ spc[h] = "push" /\ queued[h] < ChanCap
    /\ queued' = [queued EXCEPT ![h] = @ + 1]
    /\ spc' = [spc EXCEPT ![h] = "poll"]
    /\ UNCHANGED <<mainVars, ctxVars, handles, mutex, packets, closed, rpc,
                   arrivals, open, crashed>>

\* ReadPacketData returns io.EOF: a closed pcap handle, or the end of the file.
SourceEOF(h) ==
    /\ Alive
    /\ spc[h] = "poll" /\ engine # "raw"
    /\ h \notin open \/ (engine = "file" /\ arrivals[h] = 0)
    /\ spc' = [spc EXCEPT ![h] = "end"]
    /\ UNCHANGED <<mainVars, ctxVars, handles, mutex, packets, closed, rpc,
                   queued, arrivals, open, crashed>>

Source(h) == SourcePacket(h) \/ SourcePush(h) \/ SourceEOF(h)

-----------------------------------------------------------------------------
Next ==
    \/ \E ok \in SUBSET Handle, last \in Handle : Activate(ok, last)
    \/ StartReading \/ StartFatal \/ Cancel
    \/ Listen
    \/ \E h \in Handle : Reader(h) \/ Source(h)

Spec == Init /\ [][Next]_vars

(***************************************************************************)
(* Go's select chooses uniformly among ready cases and its mutex is fair,  *)
(* so a case that is ready again and again is eventually taken (SF); the   *)
(* message pool's handler returns; the packets of a file are there, those  *)
(* of a network need not arrive, and Cancel is never forced.               *)
(***************************************************************************)
Fairness ==
    /\ WF_vars(ListenRead \/ HandlerReturns \/ ListenReturn \/ ListenReport)
    /\ SF_vars(ListenDone)
    /\ SF_vars(ListenPacket)
    /\ \A h \in Handle :
          /\ SF_vars(ReaderQuit(h))
          /\ SF_vars(CloseLock(h))
          /\ WF_vars(ReaderTake(h) \/ ReaderEOF(h))
          /\ SF_vars(ReaderSend(h))
          /\ WF_vars(CloseHandle(h))
          /\ WF_vars(SourcePush(h))
          /\ WF_vars(SourceEOF(h))
          /\ WF_vars(engine = "file" /\ SourcePacket(h))

FairSpec == Spec /\ Fairness

-----------------------------------------------------------------------------
(* Properties                                                                *)

(***************************************************************************)
(* closeHandles closes l.packets only when no reader can still send on it: *)
(* a send on a closed channel would panic.                                 *)
(***************************************************************************)
NoSendOnClosed ==
    \A h \in Handle : rpc[h] = "send" => ~closed /\ h \in handles

(***************************************************************************)
(* l.packets is closed exactly when the last handle is gone, so never      *)
(* twice, and by then every reader has left its loop.                      *)
(***************************************************************************)
ClosedWhenNoHandles ==
    lpc # "read" => /\ closed <=> handles = {}
                    /\ \A h \in Handle : h \in handles <=> rpc[h] \notin {"none", "dead"}

(***************************************************************************)
(* Listen forgets no packet a reader handed over: when it returns, all the *)
(* readers are gone and l.packets is closed and empty.                     *)
(***************************************************************************)
ReturnsDrained ==
    lpc \in {"report", "done"} => packets = 0 /\ handles = {} /\ closed

(***************************************************************************)
(* When Listen has returned, every handle it activated has been closed.    *)
(* Raw sockets do not have it: closeHandles asserts interface{ Close() },  *)
(* which SockRaw.Close() (err error) does not satisfy.                     *)
(***************************************************************************)
HandlesClosed == lpc \in {"report", "done"} => open = {}

(***************************************************************************)
(* With an engine whose handles closeHandles recognises, none is leaked,   *)
(* whichever reader leaves first and for whatever reason.                  *)
(***************************************************************************)
NoHandleLeak == Closeable => HandlesClosed

(***************************************************************************)
(* Why these hold: a handle is open while its key is in l.Handles, and if  *)
(* it can be closed, only then; Listen starts with at least one.           *)
(***************************************************************************)
ListenerInv ==
    /\ TypeOK
    /\ handles \subseteq open /\ (Closeable => open = handles)
    /\ lpc = "read" => ~closed /\ \A h \in Handle : rpc[h] = "none"
    /\ start = "activate" => lpc = "read"
    /\ lpc = "read" /\ start \in {"wait", "running"} => handles # {}
    /\ ClosedWhenNoHandles
    /\ ReturnsDrained

(***************************************************************************)
(* Listen runs "until the context done signal is sent or EOF on handles":  *)
(* after a cancellation it returns.                                        *)
(***************************************************************************)
ListenReturns == cancelled ~> lpc = "done"
=============================================================================

---------------------------- MODULE MessagePool ----------------------------
(***************************************************************************)
(* TCP message reassembly: tcp.MessagePool (tcp/tcp_message.go) together   *)
(* with the RAWInput (input_raw.go) that consumes the finished messages.   *)
(*                                                                         *)
(* One capture goroutine calls MessagePool.Handler for every packet.  A    *)
(* message in progress sits in the map `pool` and owns one `dispatch`      *)
(* goroutine, which waits either for a rendezvous on the unbuffered        *)
(* channel m.done or for the expiry timer, deletes the map entry and       *)
(* hands the message to RAWInput's bounded channel.  The map and the       *)
(* message fields are protected by the pool's mutex, except on the path    *)
(* where Handler is parked in `<-m.done` and lends its mutex to dispatch.  *)
(*                                                                         *)
(* A step of the model is what a goroutine does between two points where   *)
(* it can block (mutex, rendezvous, full channel).  Packets that Handler   *)
(* drops (undecodable, or neither part of nor starting a message) change   *)
(* nothing and are stuttering steps.                                       *)
(***************************************************************************)
EXTENDS Naturals, Sequences

CONSTANTS
    Addr,       \* "ip:port" strings
    MaxSize,    \* pool.maxSize
    MaxLen,     \* longest payload of one packet
    MaxMsgs,    \* bound on the messages started in a behaviour
    ChanCap,    \* capacity of RAWInput.message (1000 in the code)
    Hints,      \* TRUE: pool.Start and pool.End are set, as RAWInput does
    Resets      \* TRUE: the peers may send RST

ASSUME SizeAssumption == MaxSize \in Nat \ {0} /\ MaxLen \in Nat
ASSUME BoundAssumption == MaxMsgs \in Nat \ {0} /\ ChanCap \in Nat \ {0}
ASSUME FlagAssumption == Hints \in BOOLEAN /\ Resets \in BOOLEAN

AnyDst == "*"

(***************************************************************************)
(* An incoming message is filed under its source, an outgoing one under    *)
(* "source=destination".                                                   *)
(***************************************************************************)
Key == Addr \X (Addr \cup {AnyDst})

NoKey == <<>>

Msg == 1 .. MaxMsgs
NoMsg == 0

(***************************************************************************)
(* What Handler looks at in a packet without RST: its addresses, payload   *)
(* length, FIN, and the mark that may start a message.  With hints the     *)
(* mark is an HTTP title line at the start of the payload, without them it *)
(* is SYN, where SYN+ACK announces the server's direction.                 *)
(***************************************************************************)
Mark == IF Hints THEN {"none", "request", "response"}
                 ELSE {"none", "SYN", "SYN+ACK"}

Packet ==
    {p \in [src : Addr, dst : Addr, len : 0 .. MaxLen, fin : BOOLEAN,
            mark : Mark] :
        /\ p.src # p.dst
        /\ Hints /\ p.mark # "none" => p.len > 0}

\* Who may hold the mutex: nobody, the dispatch goroutine of message m, capture.
Nobody == 0
Capture == MaxMsgs + 1

VARIABLES
    lock,    \* the pool's mutex
    hpc,     \* where the capture goroutine is inside Handler
    cur,     \* the message Handler is blocked on
    rst,     \* <<src, dst>> of the RST packet Handler is blocked on, or <<>>
    pool,    \* pool.pool
    started, \* number of messages created so far
    msgs,    \* fields of each message; final: its last packet was added
    dpc,     \* where the dispatch goroutine of each message is
    chan,    \* RAWInput.message
    read,    \* messages RAWInput.Read has returned
    reader   \* the goroutine that loops on RAWInput.Read

vars == <<lock, hpc, cur, rst, pool, started, msgs, dpc, chan, read, reader>>
inputVars == <<chan, read, reader>>

Message == [key : Key \cup {NoKey}, in : BOOLEAN, len : 0 .. MaxSize, truncated : BOOLEAN,
            timedOut : BOOLEAN, final : BOOLEAN]

HandlerPC == {"idle", "send", "recv", "rst1", "rst2"}
DispatchPC == {"none", "select", "lock", "delete", "push", "reply", "end"}
ReaderPC == {"run", "closing", "stopped"}

\* Every message RAWInput has been given, in order.
Delivered == read \o chan

TypeOK ==
    /\ lock \in 0 .. MaxMsgs + 1
    /\ hpc \in HandlerPC
    /\ cur \in 0 .. MaxMsgs
    /\ rst \in (Addr \X Addr) \cup {<<>>}
    /\ pool \in [Key -> 0 .. MaxMsgs]
    /\ started \in 0 .. MaxMsgs
    /\ msgs \in [Msg -> Message]
    /\ dpc \in [Msg -> DispatchPC]
    /\ chan \in Seq(Msg)
    /\ read \in Seq(Msg)
    /\ reader \in ReaderPC

Init ==
    /\ lock = Nobody
    /\ hpc = "idle"
    /\ cur = NoMsg
    /\ rst = <<>>
    /\ pool = [k \in Key |-> NoMsg]
    /\ started = 0
    /\ msgs = [m \in Msg |->
           [key |-> NoKey, in |-> FALSE, len |-> 0, truncated |-> FALSE,
            timedOut |-> FALSE, final |-> FALSE]]
    /\ dpc = [m \in Msg |-> "none"]
    /\ chan = <<>>
    /\ read = <<>>
    /\ reader = "run"

-----------------------------------------------------------------------------
(* Handler: runs with the mutex held from its first map access to its return *)

InKey(p) == <<p.src, AnyDst>>
OutKey(p) == <<p.src, p.dst>>

\* The message that packets from src to dst belong to, or NoMsg.
Lookup(src, dst) ==
    IF pool[<<src, AnyDst>>] # NoMsg THEN pool[<<src, AnyDst>>]
                                     ELSE pool[<<src, dst>>]

(***************************************************************************)
(* addPacket: cut the payload at maxSize, append it, and decide whether    *)
(* the message is complete.  pool.End looks at the accumulated bytes, which *)
(* are abstracted to the choice of `full`.                                 *)
(***************************************************************************)
Extended(r, p) ==
    IF r.len + p.len > MaxSize
    THEN [r EXCEPT !.len = MaxSize, !.truncated = TRUE]
    ELSE [r EXCEPT !.len = r.len + p.len]

Completes(r, p, full) ==
    \/ r.len + p.len >= MaxSize
    \/ Hints /\ full
    \/ p.fin

\* Adds p to message m, whose record before the packet is r.  If that completes
\* m, Handler keeps the mutex and blocks in `m.done <- true`; otherwise it returns.
AddPacket(m, r, p, full) ==
    LET complete == Completes(r, p, full) IN
    /\ msgs' = [msgs EXCEPT ![m] =
                   [Extended(r, p) EXCEPT !.final = complete]]
    /\ IF complete
       THEN lock' = Capture /\ hpc' = "send" /\ cur' = m
       ELSE UNCHANGED <<lock, hpc, cur>>

\* A packet of a message that is already in the pool.
HandlerContinue(p, full) ==
    LET m == Lookup(p.src, p.dst) IN
    /\ hpc = "idle" /\ lock = Nobody
    /\ m # NoMsg
    /\ AddPacket(m, msgs[m], p, full)
    /\ UNCHANGED <<rst, pool, started, dpc, inputVars>>

Starts(p) == p.mark # "none"
IsIncoming(p) == p.mark \in {"request", "SYN"}

\* The first packet of a message: file it, start its dispatch goroutine.
HandlerStart(p, full) ==
    LET m == started + 1
        key == IF IsIncoming(p) THEN InKey(p) ELSE OutKey(p)
        new == [key |-> key, in |-> IsIncoming(p), len |-> 0,
                truncated |-> FALSE, timedOut |-> FALSE, final |-> FALSE]
    IN
    /\ hpc = "idle" /\ lock = Nobody
    /\ Lookup(p.src, p.dst) = NoMsg
    /\ Starts(p)
    /\ started < MaxMsgs
    /\ started' = m
    /\ pool' = [pool EXCEPT ![key] = m]
    /\ dpc' = [dpc EXCEPT ![m] = "select"]
    /\ AddPacket(m, new, p, full)
    /\ UNCHANGED <<rst, inputVars>>

\* What Handler does after a possible `<-m.done` on its own message: look the
\* opposite direction up and wait on that message too, or return.
ReverseReset(src, dst) ==
    LET m == Lookup(dst, src) IN
    IF m # NoMsg
    THEN lock' = Capture /\ hpc' = "rst2" /\ cur' = m /\ rst' = <<src, dst>>
    ELSE lock' = Nobody /\ hpc' = "idle" /\ cur' = NoMsg /\ rst' = <<>>

\* A packet with RST: Handler receives from done of both directions' messages.
HandlerReset(src, dst) ==
    LET m == Lookup(src, dst) IN
    /\ Resets
    /\ hpc = "idle" /\ lock = Nobody
    /\ IF m # NoMsg
       THEN /\ lock' = Capture /\ hpc' = "rst1" /\ cur' = m
            /\ rst' = <<src, dst>>
       ELSE ReverseReset(src, dst)
    /\ UNCHANGED <<pool, started, msgs, dpc, inputVars>>

-----------------------------------------------------------------------------
(* dispatch(key, m), and its two meetings with Handler on m.done             *)

\* `m.done <- true` in addPacket meets `<-m.done` in dispatch's select.
DoneSignal(m) ==
    /\ hpc = "send" /\ cur = m
    /\ dpc[m] = "select"
    /\ hpc' = "recv"
    /\ dpc' = [dpc EXCEPT ![m] = "delete"]
    /\ UNCHANGED <<lock, cur, rst, pool, started, msgs, inputVars>>

\* time.After(messageExpire) wins the select: dispatch goes for the mutex.
DispatchTimer(m) ==
    /\ dpc[m] = "select"
    /\ dpc' = [dpc EXCEPT ![m] = "lock"]
    /\ UNCHANGED <<lock, hpc, cur, rst, pool, started, msgs, inputVars>>

\* Mutant: dispatch does not wait for the mutex.
DispatchUnlocked(m) ==
    /\ dpc[m] = "lock"
    /\ lock' = m
    /\ msgs' = [msgs EXCEPT ![m].timedOut = TRUE]
    /\ dpc' = [dpc EXCEPT ![m] = "delete"]
    /\ UNCHANGED <<hpc, cur, rst, pool, started, inputVars>>

\* Mutant: TimedOut is not set.
DispatchUnmarked(m) ==
    /\ dpc[m] = "lock"
    /\ lock = Nobody
    /\ lock' = m
    /\ dpc' = [dpc EXCEPT ![m] = "delete"]
    /\ UNCHANGED <<hpc, cur, rst, pool, started, msgs, inputVars>>

DispatchLock(m) ==
    /\ dpc[m] = "lock"
    /\ lock = Nobody
    /\ lock' = m
    /\ msgs' = [msgs EXCEPT ![m].timedOut = TRUE]
    /\ dpc' = [dpc EXCEPT ![m] = "delete"]
    /\ UNCHANGED <<hpc, cur, rst, pool, started, inputVars>>

\* Mutant: dispatch deletes the entry of an incoming message, whatever m is.
DispatchDeleteIncoming(m) ==
    /\ dpc[m] = "delete"
    /\ pool' = [pool EXCEPT ![<<msgs[m].key[1], AnyDst>>] = NoMsg]
    /\ dpc' = [dpc EXCEPT ![m] = "push"]
    /\ UNCHANGED <<lock, hpc, cur, rst, started, msgs, inputVars>>

\* Mutant: the mutex is released before the message is pushed.
DispatchDeleteUnlocks(m) ==
    /\ dpc[m] = "delete"
    /\ pool' = [pool EXCEPT ![msgs[m].key] = NoMsg]
    /\ lock' = IF msgs[m].timedOut THEN Nobody ELSE lock
    /\ dpc' = [dpc EXCEPT ![m] = "push"]
    /\ UNCHANGED <<hpc, cur, rst, started, msgs, inputVars>>

DispatchDelete(m) ==
    /\ dpc[m] = "delete"
    /\ pool' = [pool EXCEPT ![msgs[m].key] = NoMsg]
    /\ dpc' = [dpc EXCEPT ![m] = "push"]
    /\ UNCHANGED <<lock, hpc, cur, rst, started, msgs, inputVars>>

\* Mutant: a message that finds the channel full is dropped.
DispatchPushOrDrop(m) ==
    /\ dpc[m] = "push"
    /\ chan' = IF Len(chan) < ChanCap THEN Append(chan, m) ELSE chan
    /\ IF msgs[m].timedOut
       THEN lock' = Nobody /\ dpc' = [dpc EXCEPT ![m] = "end"]
       ELSE lock' = lock /\ dpc' = [dpc EXCEPT ![m] = "reply"]
    /\ UNCHANGED <<hpc, cur, rst, pool, started, msgs, read, reader>>

\* Mutant: no deferred `m.done <- true`.
DispatchPushSilent(m) ==
    /\ dpc[m] = "push"
    /\ Len(chan) < ChanCap
    /\ chan' = Append(chan, m)
    /\ lock' = IF msgs[m].timedOut THEN Nobody ELSE lock
    /\ dpc' = [dpc EXCEPT ![m] = "end"]
    /\ UNCHANGED <<hpc, cur, rst, pool, started, msgs, read, reader>>

\* pool.handler(m), which is `i.message <- m`, and the deferred call that
\* follows it: Unlock on the timer path, `m.done <- true` on the other.
DispatchPush(m) ==
    /\ dpc[m] = "push"
    /\ Len(chan) < ChanCap
    /\ chan' = Append(chan, m)
    /\ IF msgs[m].timedOut
       THEN lock' = Nobody /\ dpc' = [dpc EXCEPT ![m] = "end"]
       ELSE lock' = lock /\ dpc' = [dpc EXCEPT ![m] = "reply"]
    /\ UNCHANGED <<hpc, cur, rst, pool, started, msgs, read, reader>>

\* dispatch's deferred `m.done <- true` meets Handler's `<-m.done`.
DoneReply(m) ==
    /\ dpc[m] = "reply"
    /\ hpc \in {"recv", "rst1", "rst2"} /\ cur = m
    /\ dpc' = [dpc EXCEPT ![m] = "end"]
    /\ IF hpc = "rst1"
       THEN ReverseReset(rst[1], rst[2])
       ELSE lock' = Nobody /\ hpc' = "idle" /\ cur' = NoMsg /\ rst' = <<>>
    /\ UNCHANGED <<pool, started, msgs, inputVars>>

-----------------------------------------------------------------------------
(* RAWInput                                                                  *)

\* Read's select takes a message; it still may after Close, once.
Read ==
    /\ reader \in {"run", "closing"}
    /\ chan # <<>>
    /\ read' = Append(read, Head(chan))
    /\ chan' = Tail(chan)
    /\ UNCHANGED <<lock, hpc, cur, rst, pool, started, msgs, dpc, reader>>

\* Read's select takes quit and returns ErrorStopped, which ends the loop.
ReadStopped ==
    /\ reader = "closing"
    /\ reader' = "stopped"
    /\ UNCHANGED <<lock, hpc, cur, rst, pool, started, msgs, dpc, chan, read>>

Close ==
    /\ reader = "run"
    /\ reader' = "closing"
    /\ UNCHANGED <<lock, hpc, cur, rst, pool, started, msgs, dpc, chan, read>>

-----------------------------------------------------------------------------
Handler ==
    \/ \E p \in Packet, full \in BOOLEAN :
          HandlerContinue(p, full) \/ HandlerStart(p, full)
    \/ \E src, dst \in Addr : src # dst /\ HandlerReset(src, dst)

Dispatch(m) ==
    \/ DoneSignal(m) \/ DispatchTimer(m) \/ DispatchLock(m)
    \/ DispatchDelete(m) \/ DispatchPush(m) \/ DoneReply(m)

Next ==
    \/ Handler
    \/ \E m \in Msg : Dispatch(m)
    \/ Read \/ ReadStopped \/ Close

Spec == Init /\ [][Next]_vars

(***************************************************************************)
(* Timers fire, a free mutex is eventually obtained by a goroutine that    *)
(* waits for it (Go's mutex hands over to starving waiters, hence SF), a   *)
(* runnable goroutine runs, and the emitter keeps reading until Close.     *)
(* Nothing makes packets arrive or Close be called.                        *)
(***************************************************************************)
Fairness ==
    /\ \A m \in Msg :
          /\ WF_vars(DoneSignal(m) \/ DispatchTimer(m))
          /\ SF_vars(DispatchLock(m))
          /\ WF_vars(DispatchDelete(m))
          /\ SF_vars(DispatchPush(m))
          /\ WF_vars(DoneReply(m))
    /\ WF_vars(Read)

FairSpec == Spec /\ Fairness

-----------------------------------------------------------------------------
(* Properties                                                                *)

Undelivered(m) == dpc[m] \in {"select", "lock", "delete", "push"}

(***************************************************************************)
(* The state in which the capture goroutine holds the mutex and waits for  *)
(* a rendezvous that cannot happen: it processes an RST for a message      *)
(* still in the pool (only Handler itself ever starts the exchange on      *)
(* m.done), or it completed a message whose dispatch goroutine has already *)
(* left the select because the timer fired, and waits for this very mutex. *)
(***************************************************************************)
Wedged ==
    \/ hpc \in {"rst1", "rst2"}
    \/ hpc = "send" /\ dpc[cur] = "lock"

(***************************************************************************)
(* A Go map must not be written by one goroutine while another uses it.    *)
(* dispatch deletes its entry only when it holds the mutex itself or while *)
(* Handler, which holds it, is parked in addPacket's `<-m.done` for that   *)
(* same message; and no two dispatch goroutines do so at the same time.    *)
(***************************************************************************)
MapAccessExclusive ==
    \A m \in Msg : dpc[m] = "delete" =>
        /\ lock = m \/ (lock = Capture /\ hpc = "recv" /\ cur = m)
        /\ \A n \in Msg \ {m} : dpc[n] # "delete"

(***************************************************************************)
(* The pool leaks no entry and dispatch deletes no entry but its own: a    *)
(* key is bound to m exactly while m's dispatch goroutine, which will      *)
(* delete it, has not done so.                                             *)
(***************************************************************************)
EntriesHaveDispatch ==
    /\ \A k \in Key : pool[k] # NoMsg =>
          /\ msgs[pool[k]].key = k
          /\ dpc[pool[k]] \in {"select", "lock", "delete"}
    /\ \A m \in Msg : dpc[m] \in {"select", "lock", "delete"} =>
          pool[msgs[m].key] = m

(***************************************************************************)
(* Stats.TimedOut is "timeout before getting the whole message": a message *)
(* handed to RAWInput carries it exactly when its final packet was never   *)
(* added, although the timer and the final packet race.                    *)
(***************************************************************************)
TimedOutIffIncomplete ==
    \A i \in 1 .. Len(Delivered) :
        msgs[Delivered[i]].timedOut <=> ~msgs[Delivered[i]].final

(***************************************************************************)
(* RAWInput gets every message at most once, and the messages of one key   *)
(* in the order in which their first packets were seen.                    *)
(***************************************************************************)
OnceAndInOrder ==
    \A i, j \in 1 .. Len(Delivered) : i < j =>
        /\ Delivered[i] # Delivered[j]
        /\ msgs[Delivered[i]].key = msgs[Delivered[j]].key =>
              Delivered[i] < Delivered[j]

(***************************************************************************)
(* Why the above hold: who owns the mutex, and where both sides of the     *)
(* exchange on m.done are.  Handler holds the mutex whenever it is blocked; *)
(* a dispatch goroutine past its select either holds the mutex and has set *)
(* TimedOut, or serves a Handler parked in `<-m.done` for its message.     *)
(***************************************************************************)
MutexOwner ==
    /\ lock = Capture <=> hpc # "idle"
    /\ \A m \in Msg :
          lock = m <=> dpc[m] \in {"delete", "push"} /\ msgs[m].timedOut

Rendezvous ==
    /\ hpc = "idle" <=> cur = NoMsg
    /\ hpc \in {"send", "rst1", "rst2"} => dpc[cur] \in {"select", "lock"}
    /\ \A m \in Msg :
          /\ hpc = "recv" /\ cur = m <=>
                dpc[m] \in {"delete", "push", "reply"} /\ ~msgs[m].timedOut
          /\ dpc[m] = "reply" => ~msgs[m].timedOut

\* A message not yet past its select is final only while Handler offers it.
Finality ==
    \A m \in Msg :
        /\ dpc[m] \in {"select", "lock"} =>
              /\ ~msgs[m].timedOut
              /\ msgs[m].final <=> hpc = "send" /\ cur = m
        /\ dpc[m] \in {"delete", "push", "reply", "end"} =>
              (msgs[m].timedOut <=> ~msgs[m].final)

\* Messages are numbered in the order they start; the one of a key that is not
\* handed over yet is the latest of that key.
Numbering ==
    /\ \A m \in Msg : dpc[m] = "none" <=> m > started
    /\ \A m \in Msg : dpc[m] # "none" => msgs[m].key \in Key
    /\ \A m, n \in Msg :
          Undelivered(m) /\ dpc[n] # "none" /\ msgs[m].key = msgs[n].key
              => n <= m

\* dispatch has pushed a message exactly if RAWInput was given it.
PushedIffDelivered ==
    \A m \in Msg : dpc[m] \in {"reply", "end"} <=>
        \E i \in 1 .. Len(Delivered) : Delivered[i] = m

(***************************************************************************)
(* The inductive invariant of the pool: no entry leaks, every message is   *)
(* handed over once and in order, and mutex and exchange explain it.       *)
(***************************************************************************)
PoolInv ==
    /\ TypeOK
    /\ MutexOwner
    /\ Rendezvous
    /\ EntriesHaveDispatch
    /\ Finality
    /\ Numbering
    /\ PushedIffDelivered
    /\ OnceAndInOrder

(***************************************************************************)
(* A wedge is final: no timer, RST or rendezvous ever releases the capture *)
(* goroutine, and the pool and its messages stay frozen.                   *)
(***************************************************************************)
WedgeIsFinal ==
    [][Wedged => Wedged' /\ UNCHANGED <<lock, pool, started, msgs>>]_vars

(***************************************************************************)
(* Handler returns for every packet as long as the input is read, unless   *)
(* it wedges: back pressure of the full channel and the exchange on m.done *)
(* only delay it.                                                          *)
(***************************************************************************)
HandlerReturns ==
    hpc # "idle" ~> (hpc = "idle" \/ Wedged \/ reader # "run")

(***************************************************************************)
(* "messageExpire ... the maximum time to wait for the final packet": a    *)
(* message in the pool is handed over sooner or later while it is read.    *)
(***************************************************************************)
ExpireHonoured ==
    \A m \in Msg :
        dpc[m] = "select" ~> (~Undelivered(m) \/ reader # "run")

(***************************************************************************)
(* The pool implements MessageStream: the messages under assembly are the  *)
(* ones not yet handed over, the sent ones are the ones RAWInput was given. *)
(***************************************************************************)
Stream == INSTANCE MessageStream WITH
    live <- {m \in Msg : Undelivered(m)},
    keyOf <- [m \in Msg |-> msgs[m].key],
    size <- [m \in Msg |-> msgs[m].len],
    sent <- Delivered

ImplementsStream == Stream!StreamSpec
=============================================================================

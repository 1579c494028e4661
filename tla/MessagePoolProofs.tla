------------------------- MODULE MessagePoolProofs -------------------------
(***************************************************************************)
(* Proofs about MessagePool, for every set of addresses, message size,     *)
(* channel capacity and number of messages.                                *)
(***************************************************************************)
EXTENDS MessagePool, SequenceTheorems, TLAPS

-----------------------------------------------------------------------------
(* Operators                                                                 *)

\* Looking a packet's message up yields a message number or NoMsg.
LEMMA LookupType ==
    ASSUME TypeOK, NEW src \in Addr, NEW dst \in Addr
    PROVE  Lookup(src, dst) \in 0 .. MaxMsgs
BY DEF TypeOK, Lookup, Key

\* addPacket never lets a message grow past maxSize, and never shrinks it.
LEMMA ExtendedType ==
    ASSUME NEW r \in Message, NEW p \in Packet, NEW c \in BOOLEAN
    PROVE  LET x == [Extended(r, p) EXCEPT !.final = c] IN
           /\ x \in Message
           /\ x.len \in r.len .. MaxSize
           /\ x.key = r.key /\ x.timedOut = r.timedOut /\ x.final = c
<1> DEFINE x == [Extended(r, p) EXCEPT !.final = c]
<1> USE SizeAssumption
<1>1. p.len \in Nat /\ r.len \in 0 .. MaxSize
  BY DEF Packet, Message
<1> DEFINE y == Extended(r, p)
<1>2. /\ y \in Message
      /\ y.len \in r.len .. MaxSize
      /\ y.key = r.key /\ y.timedOut = r.timedOut
  <2>1. CASE r.len + p.len > MaxSize
    <3> DEFINE w == [r EXCEPT !.len = MaxSize]
    <3>1. y = [w EXCEPT !.truncated = TRUE]
      BY <2>1 DEF Extended
    <3>2. /\ w \in Message /\ w.len = MaxSize
          /\ w.key = r.key /\ w.timedOut = r.timedOut
      BY DEF Message
    <3> HIDE DEF w
    <3>3. /\ y \in Message /\ y.len = w.len
          /\ y.key = w.key /\ y.timedOut = w.timedOut
      BY <3>1, <3>2 DEF Message
    <3> QED
      BY <1>1, <3>2, <3>3
  <2>2. CASE ~(r.len + p.len > MaxSize)
    <3>1. y = [r EXCEPT !.len = r.len + p.len]
      BY <2>2 DEF Extended
    <3>2. r.len + p.len \in 0 .. MaxSize
      BY <1>1, <2>2
    <3> QED
      BY <1>1, <3>1, <3>2 DEF Message
  <2> QED
    BY <2>1, <2>2
<1> HIDE DEF y
<1>3. LET z == [y EXCEPT !.final = c] IN
      /\ z \in Message
      /\ z.len = y.len /\ z.key = y.key
      /\ z.timedOut = y.timedOut /\ z.final = c
  BY <1>2 DEF Message
<1> QED
  BY <1>2, <1>3 DEF y

\* Whether a packet completes its message is a Boolean.
LEMMA CompletesType ==
    ASSUME NEW r \in Message, NEW p \in Packet, NEW full \in BOOLEAN
    PROVE  Completes(r, p, full) \in BOOLEAN
BY DEF Completes

-----------------------------------------------------------------------------
(* Typing                                                                    *)

\* A new pool and input are well typed.
LEMMA InitType == Init => TypeOK
BY SizeAssumption, BoundAssumption
DEF Init, TypeOK, Message, HandlerPC, DispatchPC, ReaderPC, Nobody, NoMsg, Msg

\* addPacket keeps the types of what it touches.
LEMMA AddPacketType ==
    ASSUME TypeOK, NEW m \in Msg, NEW r \in Message, NEW p \in Packet,
           NEW full \in BOOLEAN, AddPacket(m, r, p, full)
    PROVE  /\ msgs' \in [Msg -> Message]
           /\ lock' \in 0 .. MaxMsgs + 1
           /\ hpc' \in HandlerPC
           /\ cur' \in 0 .. MaxMsgs
<1> DEFINE c == Completes(r, p, full)
           x == [Extended(r, p) EXCEPT !.final = c]
<1>1. x \in Message
  BY CompletesType, ExtendedType
<1>2. msgs' = [msgs EXCEPT ![m] = x]
  BY DEF AddPacket
<1>3. msgs' \in [Msg -> Message]
  BY <1>1, <1>2 DEF TypeOK
<1>4. /\ lock' \in 0 .. MaxMsgs + 1
      /\ hpc' \in HandlerPC
      /\ cur' \in 0 .. MaxMsgs
  BY BoundAssumption DEF AddPacket, TypeOK, HandlerPC, Capture, Msg
<1> QED
  BY <1>3, <1>4

\* Every step keeps the types.
LEMMA NextType ==
    ASSUME TypeOK, Rendezvous, [Next]_vars
    PROVE  TypeOK'
<1> USE BoundAssumption
<1>1. ASSUME NEW p \in Packet, NEW full \in BOOLEAN, HandlerContinue(p, full)
      PROVE  TypeOK'
  <2> DEFINE m == Lookup(p.src, p.dst)
  <2>1. m \in Msg
    BY <1>1, LookupType DEF HandlerContinue, NoMsg, Msg, Packet
  <2>2. msgs[m] \in Message
    BY <2>1 DEF TypeOK
  <2>3. AddPacket(m, msgs[m], p, full)
    BY <1>1 DEF HandlerContinue
  <2>4. /\ msgs' \in [Msg -> Message] /\ lock' \in 0 .. MaxMsgs + 1
        /\ hpc' \in HandlerPC /\ cur' \in 0 .. MaxMsgs
    BY <2>1, <2>2, <2>3, AddPacketType
  <2> QED
    BY <1>1, <2>4 DEF TypeOK, HandlerContinue, inputVars
<1>2. ASSUME NEW p \in Packet, NEW full \in BOOLEAN, HandlerStart(p, full)
      PROVE  TypeOK'
  <2> DEFINE m == started + 1
             key == IF IsIncoming(p) THEN InKey(p) ELSE OutKey(p)
             new == [key |-> key, in |-> IsIncoming(p), len |-> 0,
                     truncated |-> FALSE, timedOut |-> FALSE, final |-> FALSE]
  <2>1. m \in Msg
    BY <1>2 DEF HandlerStart, TypeOK, Msg
  <2>2. key \in Key
    BY DEF InKey, OutKey, Key, Packet
  <2>3. new \in Message
    BY <2>2, SizeAssumption DEF Message, IsIncoming
  <2>4. AddPacket(m, new, p, full)
    BY <1>2 DEF HandlerStart
  <2>5. /\ msgs' \in [Msg -> Message] /\ lock' \in 0 .. MaxMsgs + 1
        /\ hpc' \in HandlerPC /\ cur' \in 0 .. MaxMsgs
    BY <2>1, <2>3, <2>4, AddPacketType
  <2>6. /\ pool' = [pool EXCEPT ![key] = m]
        /\ started' = m
        /\ dpc' = [dpc EXCEPT ![m] = "select"]
        /\ UNCHANGED <<rst, chan, read, reader>>
    BY <1>2 DEF HandlerStart, inputVars
  <2> QED
    BY <2>1, <2>2, <2>5, <2>6 DEF TypeOK, Msg, DispatchPC
<1>3. ASSUME NEW src \in Addr, NEW dst \in Addr, HandlerReset(src, dst)
      PROVE  TypeOK'
  <2>1. Lookup(src, dst) \in 0 .. MaxMsgs /\ Lookup(dst, src) \in 0 .. MaxMsgs
    BY LookupType
  <2>2. /\ lock' \in 0 .. MaxMsgs + 1 /\ hpc' \in HandlerPC
        /\ cur' \in 0 .. MaxMsgs /\ rst' \in (Addr \X Addr) \cup {<<>>}
    BY <1>3, <2>1
    DEF HandlerReset, ReverseReset, HandlerPC, Nobody, NoMsg, Capture
  <2> QED
    BY <1>3, <2>2 DEF TypeOK, HandlerReset, inputVars
<1>4. ASSUME NEW m \in Msg, Dispatch(m)
      PROVE  TypeOK'
  <2>1. CASE DoneSignal(m)
    BY <2>1 DEF DoneSignal, TypeOK, HandlerPC, DispatchPC, inputVars
  <2>2. CASE DispatchTimer(m)
    BY <2>2 DEF DispatchTimer, TypeOK, DispatchPC, inputVars
  <2>3. CASE DispatchLock(m)
    <3> DEFINE x == [msgs[m] EXCEPT !.timedOut = TRUE]
    <3>1. x \in Message
      BY DEF TypeOK, Message
    <3>2. msgs' = [msgs EXCEPT ![m] = x]
      BY <2>3 DEF DispatchLock
    <3>3. msgs' \in [Msg -> Message]
      BY <3>1, <3>2 DEF TypeOK
    <3> QED
      BY <2>3, <3>3 DEF DispatchLock, TypeOK, DispatchPC, inputVars, Msg
  <2>4. CASE DispatchDelete(m)
    <3>1. pool' \in [Key -> 0 .. MaxMsgs]
      <4>1. pool' = [pool EXCEPT ![msgs[m].key] = 0]
        BY <2>4 DEF DispatchDelete, NoMsg
      <4>2. pool \in [Key -> 0 .. MaxMsgs] /\ 0 \in 0 .. MaxMsgs
        BY DEF TypeOK
      <4> QED
        BY <4>1, <4>2
    <3> QED
      BY <2>4, <3>1 DEF DispatchDelete, TypeOK, DispatchPC, inputVars
  <2>5. CASE DispatchPush(m)
    <3>1. chan' \in Seq(Msg)
      BY <2>5, AppendProperties DEF DispatchPush, TypeOK
    <3>2. lock' \in 0 .. MaxMsgs + 1 /\ dpc' \in [Msg -> DispatchPC]
      <4>1. CASE msgs[m].timedOut
        BY <2>5, <4>1 DEF DispatchPush, TypeOK, DispatchPC, Nobody
      <4>2. CASE ~msgs[m].timedOut
        BY <2>5, <4>2 DEF DispatchPush, TypeOK, DispatchPC
      <4> QED
        BY <4>1, <4>2
    <3> QED
      BY <2>5, <3>1, <3>2 DEF DispatchPush, TypeOK
  <2>6. CASE DoneReply(m)
    <3>1. hpc \notin {"rst1", "rst2"}
      BY <2>6 DEF DoneReply, Rendezvous
    <3> QED
      BY <2>6, <3>1
      DEF DoneReply, TypeOK, DispatchPC, HandlerPC, Nobody, NoMsg, inputVars
  <2> QED
    BY <1>4, <2>1, <2>2, <2>3, <2>4, <2>5, <2>6 DEF Dispatch
<1>5. CASE Read
  <2>1. read' \in Seq(Msg) /\ chan' \in Seq(Msg)
    BY <1>5, AppendProperties, HeadTailProperties DEF Read, TypeOK
  <2> QED
    BY <1>5, <2>1 DEF Read, TypeOK
<1>6. CASE ReadStopped \/ Close
  BY <1>6 DEF ReadStopped, Close, TypeOK, ReaderPC
<1>7. CASE UNCHANGED vars
  BY <1>7 DEF vars, TypeOK
<1> QED
  BY <1>1, <1>2, <1>3, <1>4, <1>5, <1>6, <1>7 DEF Next, Handler

-----------------------------------------------------------------------------
(* The messages RAWInput has been given                                      *)

\* What RAWInput has been given is a sequence of messages.
LEMMA DeliveredType ==
    ASSUME TypeOK
    PROVE  /\ Delivered \in Seq(Msg)
           /\ Len(Delivered) \in Nat
           /\ \A i \in 1 .. Len(Delivered) : Delivered[i] \in Msg
<1>1. Delivered \in Seq(Msg)
  BY ConcatProperties DEF TypeOK, Delivered
<1> QED
  BY <1>1, LenProperties, ElementOfSeq

\* dispatch's push appends to what RAWInput has been given.
LEMMA PushAppends ==
    ASSUME TypeOK, NEW m \in Msg, DispatchPush(m)
    PROVE  Delivered' = Append(Delivered, m)
<1>1. read' = read /\ chan' = Append(chan, m)
  BY DEF DispatchPush
<1>2. read \in Seq(Msg) /\ chan \in Seq(Msg) /\ <<m>> \in Seq(Msg)
  BY DEF TypeOK
<1>3. Delivered \in Seq(Msg)
  BY DeliveredType
<1>4. Append(chan, m) = chan \o <<m>>
  BY <1>2, AppendIsConcat
<1>5. Append(Delivered, m) = Delivered \o <<m>>
  BY <1>3, AppendIsConcat
<1>6. read \o (chan \o <<m>>) = (read \o chan) \o <<m>>
  BY <1>2, ConcatAssociative
<1> QED
  BY <1>1, <1>4, <1>5, <1>6 DEF Delivered

\* Read moves a message without changing what has been given.
LEMMA ReadKeeps ==
    ASSUME TypeOK, Read
    PROVE  Delivered' = Delivered
<1> DEFINE h == Head(chan)
           t == Tail(chan)
<1>1. chan \in Seq(Msg) /\ chan # <<>> /\ read \in Seq(Msg)
  BY DEF TypeOK, Read
<1>2. h \in Msg /\ t \in Seq(Msg) /\ <<h>> \in Seq(Msg)
  BY <1>1, HeadTailProperties
<1>3. chan = <<h>> \o t
  <2>1. Len(chan) \in Nat \ {0}
    BY <1>1, EmptySeq
  <2>2. Len(t) = Len(chan) - 1 /\ \A i \in 1 .. Len(t) : t[i] = chan[i + 1]
    BY <1>1, HeadTailProperties
  <2>3. /\ <<h>> \o t \in Seq(Msg)
        /\ Len(<<h>> \o t) = 1 + Len(t)
        /\ \A i \in 1 .. 1 + Len(t) :
              (<<h>> \o t)[i] = IF i <= 1 THEN <<h>>[i] ELSE t[i - 1]
    BY <1>2, ConcatProperties, Len(<<h>>) = 1
  <2>4. h = chan[1]
    BY <1>1
  <2>5. \A i \in 1 .. Len(chan) : chan[i] = (<<h>> \o t)[i]
    BY <2>1, <2>2, <2>3, <2>4
  <2> QED
    BY <1>1, <2>1, <2>2, <2>3, <2>5, SeqEqual
<1>4. read' = read \o <<h>> /\ chan' = t
  BY <1>1, <1>2, AppendIsConcat DEF Read
<1>5. (read \o <<h>>) \o t = read \o (<<h>> \o t)
  BY <1>1, <1>2, ConcatAssociative
<1> QED
  BY <1>3, <1>4, <1>5 DEF Delivered

-----------------------------------------------------------------------------
(* The invariant, action by action                                           *)

\* What addPacket leaves in the message, and when Handler blocks after it.
LEMMA AddPacketFields ==
    ASSUME TypeOK, NEW m \in Msg, NEW r \in Message, NEW p \in Packet,
           NEW full \in BOOLEAN, AddPacket(m, r, p, full)
    PROVE  /\ \A n \in Msg : n # m => msgs'[n] = msgs[n]
           /\ msgs'[m].key = r.key
           /\ msgs'[m].timedOut = r.timedOut
           /\ msgs'[m].len \in r.len .. MaxSize
           /\ \/ msgs'[m].final /\ lock' = Capture /\ hpc' = "send" /\ cur' = m
              \/ ~msgs'[m].final /\ UNCHANGED <<lock, hpc, cur>>
<1> DEFINE c == Completes(r, p, full)
           x == [Extended(r, p) EXCEPT !.final = c]
<1>1. c \in BOOLEAN
  BY CompletesType
<1>2. /\ x.len \in r.len .. MaxSize
      /\ x.key = r.key /\ x.timedOut = r.timedOut /\ x.final = c
  BY <1>1, ExtendedType, ZenonT(40)
<1>3. msgs' = [msgs EXCEPT ![m] = x]
  BY DEF AddPacket
<1>4. msgs'[m] = x /\ \A n \in Msg : n # m => msgs'[n] = msgs[n]
  BY <1>3 DEF TypeOK
<1>5. IF c THEN lock' = Capture /\ hpc' = "send" /\ cur' = m
           ELSE UNCHANGED <<lock, hpc, cur>>
  BY DEF AddPacket
<1> HIDE DEF c, x
<1> QED
  BY <1>1, <1>2, <1>4, <1>5

\* A bound key is bound to a message.
LEMMA PoolType ==
    ASSUME TypeOK
    PROVE  \A k \in Key : pool[k] # NoMsg => pool[k] \in Msg
BY DEF TypeOK, NoMsg, Msg

\* A blocked Handler is blocked on a message.
LEMMA CurType ==
    ASSUME TypeOK, Rendezvous
    PROVE  hpc # "idle" => cur \in Msg
BY BoundAssumption DEF TypeOK, Rendezvous, NoMsg, Msg

\* Handler, on a packet of a known message.
LEMMA ContinueInv ==
    ASSUME PoolInv, NEW p \in Packet, NEW full \in BOOLEAN,
           HandlerContinue(p, full)
    PROVE  /\ MutexOwner' /\ Rendezvous' /\ EntriesHaveDispatch'
           /\ Finality' /\ Numbering'
<1> DEFINE m == Lookup(p.src, p.dst)
<1> USE BoundAssumption DEF PoolInv
<1>1. m \in Msg /\ hpc = "idle" /\ lock = Nobody
  BY LookupType DEF HandlerContinue, NoMsg, Msg, Packet
<1>2. msgs[m] \in Message /\ AddPacket(m, msgs[m], p, full)
  BY <1>1 DEF HandlerContinue, TypeOK
<1>3. /\ \A n \in Msg : n # m => msgs'[n] = msgs[n]
      /\ msgs'[m].key = msgs[m].key
      /\ msgs'[m].timedOut = msgs[m].timedOut
      /\ \/ msgs'[m].final /\ lock' = Capture /\ hpc' = "send" /\ cur' = m
         \/ ~msgs'[m].final /\ UNCHANGED <<lock, hpc, cur>>
  BY <1>1, <1>2, AddPacketFields
<1>4. UNCHANGED <<pool, started, dpc>>
  BY DEF HandlerContinue
<1>5. dpc[m] \in {"select", "lock"}
  <2>1. \E k \in Key : pool[k] = m
    BY DEF Lookup, Key, Packet
  <2>2. dpc[m] \in {"select", "lock", "delete"}
    BY <1>1, <2>1 DEF EntriesHaveDispatch, NoMsg, Msg
  <2>3. dpc[m] # "delete"
    BY <1>1 DEF MutexOwner, Rendezvous, Nobody, Msg
  <2> QED
    BY <2>2, <2>3
<1> HIDE DEF m
<1>6. \A n \in Msg : /\ msgs'[n].key = msgs[n].key
                     /\ msgs'[n].timedOut = msgs[n].timedOut
  BY <1>3
<1>7. MutexOwner'
  BY <1>1, <1>3, <1>4, <1>5, <1>6
  DEF MutexOwner, Nobody, Capture, Msg
<1>8. Rendezvous'
  BY <1>1, <1>3, <1>4, <1>5, <1>6 DEF Rendezvous, NoMsg, Msg
<1>9. EntriesHaveDispatch'
  BY <1>4, <1>6, PoolType DEF EntriesHaveDispatch
<1>10. Finality'
  BY <1>1, <1>3, <1>4, <1>5, <1>6 DEF Finality
<1>11. Numbering'
  BY <1>4, <1>6 DEF Numbering, Undelivered
<1> QED
  BY <1>7, <1>8, <1>9, <1>10, <1>11

\* Handler, on the first packet of a message.
LEMMA StartInv ==
    ASSUME PoolInv, NEW p \in Packet, NEW full \in BOOLEAN,
           HandlerStart(p, full)
    PROVE  /\ MutexOwner' /\ Rendezvous' /\ EntriesHaveDispatch'
           /\ Finality' /\ Numbering'
<1> DEFINE m == started + 1
           key == IF IsIncoming(p) THEN InKey(p) ELSE OutKey(p)
           new == [key |-> key, in |-> IsIncoming(p), len |-> 0,
                   truncated |-> FALSE, timedOut |-> FALSE, final |-> FALSE]
<1> USE BoundAssumption DEF PoolInv
<1>1. m \in Msg /\ hpc = "idle" /\ lock = Nobody
  BY DEF HandlerStart, TypeOK, Msg
<1>2. key \in Key
  BY DEF InKey, OutKey, Key, Packet
<1>3. new \in Message
  BY <1>2, SizeAssumption DEF Message, IsIncoming
<1>4. /\ started' = m
      /\ pool' = [pool EXCEPT ![key] = m]
      /\ dpc' = [dpc EXCEPT ![m] = "select"]
      /\ AddPacket(m, new, p, full)
  BY DEF HandlerStart
<1>5. pool[key] = NoMsg
  BY DEF HandlerStart, Lookup, InKey, OutKey, NoMsg
<1>6. new.key = key /\ ~new.timedOut
  OBVIOUS
<1> HIDE DEF new, key
<1>7. /\ \A n \in Msg : n # m => msgs'[n] = msgs[n]
      /\ msgs'[m].key = key /\ ~msgs'[m].timedOut
      /\ \/ msgs'[m].final /\ lock' = Capture /\ hpc' = "send" /\ cur' = m
         \/ ~msgs'[m].final /\ UNCHANGED <<lock, hpc, cur>>
  BY <1>1, <1>3, <1>4, <1>6, AddPacketFields
<1>8. dpc'[m] = "select" /\ \A n \in Msg : n # m => dpc'[n] = dpc[n]
  BY <1>1, <1>4 DEF TypeOK
<1>9. pool'[key] = m /\ \A k \in Key : k # key => pool'[k] = pool[k]
  BY <1>2, <1>4 DEF TypeOK
<1>10. dpc[m] = "none"
  BY <1>1 DEF Numbering, Msg, TypeOK
<1>11. \A n \in Msg : dpc[n] \notin {"delete", "push"}
  BY <1>1 DEF MutexOwner, Rendezvous, Nobody, Msg
<1>12. \A k \in Key : pool[k] # m
  BY <1>1, <1>10, PoolType DEF EntriesHaveDispatch, NoMsg, Msg
<1>13. MutexOwner'
  BY <1>1, <1>7, <1>8, <1>10, <1>11 DEF MutexOwner, Nobody, Capture, Msg
<1>14. Rendezvous'
  BY <1>1, <1>7, <1>8, <1>10 DEF Rendezvous, NoMsg, Msg
<1>15. EntriesHaveDispatch'
  <2>1. ASSUME NEW k \in Key, pool'[k] # NoMsg
        PROVE  msgs'[pool'[k]].key = k /\ dpc'[pool'[k]] \in {"select", "lock", "delete"}
    <3>1. CASE k = key
      BY <3>1, <1>7, <1>8, <1>9
    <3>2. CASE k # key
      BY <2>1, <3>2, <1>7, <1>8, <1>9, <1>12, PoolType DEF EntriesHaveDispatch
    <3> QED
      BY <3>1, <3>2
  <2>2. ASSUME NEW n \in Msg, dpc'[n] \in {"select", "lock", "delete"}
        PROVE  pool'[msgs'[n].key] = n
    <3>1. CASE n = m
      BY <3>1, <1>7, <1>9
    <3>2. CASE n # m
      <4>1. dpc[n] \in {"select", "lock", "delete"} /\ msgs'[n] = msgs[n]
        BY <2>2, <3>2, <1>7, <1>8
      <4>2. pool[msgs[n].key] = n /\ msgs[n].key \in Key
        BY <4>1 DEF EntriesHaveDispatch, Numbering
      <4>3. msgs[n].key # key
        BY <4>2, <1>5 DEF NoMsg, Msg
      <4> QED
        BY <4>1, <4>2, <4>3, <1>9
    <3> QED
      BY <3>1, <3>2
  <2> QED
    BY <2>1, <2>2 DEF EntriesHaveDispatch
<1>16. Finality'
  BY <1>1, <1>7, <1>8 DEF Finality
<1>17. Numbering'
  <2>1. \A n \in Msg : dpc'[n] = "none" <=> n > started'
    BY <1>1, <1>4, <1>8 DEF Numbering, TypeOK, Msg
  <2>2. \A n \in Msg : dpc'[n] # "none" => msgs'[n].key \in Key
    BY <1>2, <1>7, <1>8 DEF Numbering
  <2>3. ASSUME NEW n \in Msg, NEW l \in Msg, dpc'[n] \in {"select", "lock", "delete", "push"},
               dpc'[l] # "none", msgs'[n].key = msgs'[l].key
        PROVE  l <= n
    <3>1. CASE n = m
      BY <3>1, <2>1, <2>3, <1>4 DEF Msg, TypeOK
    <3>2. CASE n # m /\ l = m
      <4>1. dpc[n] \in {"select", "lock", "delete"}
        BY <3>2, <2>3, <1>8, <1>11
      <4>2. pool[key] = n
        BY <4>1, <3>2, <2>3, <1>7 DEF EntriesHaveDispatch
      <4> QED
        BY <4>2, <1>5 DEF NoMsg, Msg
    <3>3. CASE n # m /\ l # m
      BY <3>3, <2>3, <1>7, <1>8 DEF Numbering, Undelivered
    <3> QED
      BY <3>1, <3>2, <3>3
  <2> QED
    BY <2>1, <2>2, <2>3 DEF Numbering, Undelivered
<1> QED
  BY <1>13, <1>14, <1>15, <1>16, <1>17

\* Handler, on an RST.
LEMMA ResetInv ==
    ASSUME PoolInv, NEW src \in Addr, NEW dst \in Addr, HandlerReset(src, dst)
    PROVE  /\ MutexOwner' /\ Rendezvous' /\ EntriesHaveDispatch'
           /\ Finality' /\ Numbering'
<1> USE BoundAssumption DEF PoolInv
<1>1. hpc = "idle" /\ lock = Nobody /\ UNCHANGED <<pool, started, msgs, dpc>>
  BY DEF HandlerReset
<1>2. \A a, b \in Addr : Lookup(a, b) # NoMsg =>
          /\ Lookup(a, b) \in Msg
          /\ dpc[Lookup(a, b)] \in {"select", "lock"}
  <2> SUFFICES ASSUME NEW a \in Addr, NEW b \in Addr, Lookup(a, b) # NoMsg
               PROVE  /\ Lookup(a, b) \in Msg
                      /\ dpc[Lookup(a, b)] \in {"select", "lock"}
    OBVIOUS
  <2>1. PICK k \in Key : pool[k] = Lookup(a, b)
    BY DEF Lookup, Key
  <2>2. pool[k] \in Msg /\ dpc[pool[k]] \in {"select", "lock", "delete"}
    BY <2>1, PoolType DEF EntriesHaveDispatch
  <2>3. dpc[pool[k]] # "delete"
    BY <1>1, <2>2 DEF MutexOwner, Rendezvous, Nobody, Msg
  <2> QED
    BY <2>1, <2>2, <2>3
<1>3. \/ /\ lock' = Capture /\ hpc' \in {"rst1", "rst2"}
         /\ cur' \in Msg /\ dpc[cur'] \in {"select", "lock"}
      \/ lock' = Nobody /\ hpc' = "idle" /\ cur' = NoMsg
  BY <1>2 DEF HandlerReset, ReverseReset
<1>4. MutexOwner'
  BY <1>1, <1>3 DEF MutexOwner, Nobody, Capture, Msg
<1>5. Rendezvous'
  BY <1>1, <1>3 DEF Rendezvous, NoMsg, Msg
<1>6. EntriesHaveDispatch' /\ Numbering'
  BY <1>1 DEF EntriesHaveDispatch, Numbering, Undelivered
<1>7. Finality'
  BY <1>1, <1>3 DEF Finality
<1> QED
  BY <1>4, <1>5, <1>6, <1>7

\* DoneSignal and DispatchTimer: dispatch leaves its select.
LEMMA SelectInv ==
    ASSUME PoolInv, NEW m \in Msg, DoneSignal(m) \/ DispatchTimer(m)
    PROVE  /\ MutexOwner' /\ Rendezvous' /\ EntriesHaveDispatch'
           /\ Finality' /\ Numbering'
<1> USE BoundAssumption DEF PoolInv
<1>1. /\ UNCHANGED <<lock, cur, pool, started, msgs>>
      /\ dpc[m] = "select"
      /\ \/ /\ hpc = "send" /\ cur = m /\ hpc' = "recv" /\ dpc'[m] = "delete"
         \/ hpc' = hpc /\ dpc'[m] = "lock"
      /\ \A n \in Msg : n # m => dpc'[n] = dpc[n]
  BY DEF DoneSignal, DispatchTimer, TypeOK
<1>2. MutexOwner'
  BY <1>1 DEF MutexOwner, Finality
<1>3. Rendezvous'
  BY <1>1, CurType DEF Rendezvous, Finality, NoMsg, Msg
<1>4. EntriesHaveDispatch'
  BY <1>1, PoolType DEF EntriesHaveDispatch
<1>5. Finality'
  BY <1>1 DEF Finality
<1>6. Numbering'
  BY <1>1 DEF Numbering, Undelivered
<1> QED
  BY <1>2, <1>3, <1>4, <1>5, <1>6

\* dispatch gets the mutex after its timer.
LEMMA LockInv ==
    ASSUME PoolInv, NEW m \in Msg, DispatchLock(m)
    PROVE  /\ MutexOwner' /\ Rendezvous' /\ EntriesHaveDispatch'
           /\ Finality' /\ Numbering'
<1> USE BoundAssumption DEF PoolInv
<1>1. /\ UNCHANGED <<hpc, cur, pool, started>>
      /\ dpc[m] = "lock" /\ lock = Nobody /\ lock' = m /\ dpc'[m] = "delete"
      /\ \A n \in Msg : n # m => dpc'[n] = dpc[n]
  BY DEF DispatchLock, TypeOK
<1>2. /\ \A n \in Msg : n # m => msgs'[n] = msgs[n]
      /\ msgs'[m].timedOut
      /\ msgs'[m].key = msgs[m].key /\ msgs'[m].final = msgs[m].final
  <2>1. msgs[m] \in Message /\ msgs' = [msgs EXCEPT ![m].timedOut = TRUE]
    BY DEF DispatchLock, TypeOK
  <2> QED
    BY <2>1 DEF Message, TypeOK
<1>3. hpc = "idle"
  BY <1>1 DEF MutexOwner, TypeOK, Nobody, Capture
<1>4. MutexOwner'
  BY <1>1, <1>2, <1>3 DEF MutexOwner, Nobody, Capture, Msg
<1>5. Rendezvous'
  BY <1>1, <1>2, <1>3 DEF Rendezvous, NoMsg
<1>6. EntriesHaveDispatch'
  BY <1>1, <1>2, PoolType DEF EntriesHaveDispatch
<1>7. Finality'
  BY <1>1, <1>2, <1>3 DEF Finality
<1>8. Numbering'
  BY <1>1, <1>2 DEF Numbering, Undelivered
<1> QED
  BY <1>4, <1>5, <1>6, <1>7, <1>8

\* dispatch deletes its entry.
LEMMA DeleteInv ==
    ASSUME PoolInv, NEW m \in Msg, DispatchDelete(m)
    PROVE  /\ MutexOwner' /\ Rendezvous' /\ EntriesHaveDispatch'
           /\ Finality' /\ Numbering'
<1> USE BoundAssumption DEF PoolInv
<1>1. /\ UNCHANGED <<lock, hpc, cur, started, msgs>>
      /\ dpc[m] = "delete" /\ dpc'[m] = "push"
      /\ \A n \in Msg : n # m => dpc'[n] = dpc[n]
  BY DEF DispatchDelete, TypeOK
<1>2. msgs[m].key \in Key /\ pool[msgs[m].key] = m
  BY <1>1 DEF Numbering, EntriesHaveDispatch
<1>3. /\ pool'[msgs[m].key] = NoMsg
      /\ \A k \in Key : k # msgs[m].key => pool'[k] = pool[k]
  BY <1>2 DEF DispatchDelete, TypeOK
<1>4. MutexOwner' /\ Finality'
  BY <1>1 DEF MutexOwner, Finality
<1>7. Rendezvous'
  BY <1>1, CurType DEF Rendezvous
<1>5. EntriesHaveDispatch'
  <2>1. ASSUME NEW k \in Key, pool'[k] # NoMsg
        PROVE  msgs'[pool'[k]].key = k /\ dpc'[pool'[k]] \in {"select", "lock", "delete"}
    <3>1. k # msgs[m].key /\ pool'[k] = pool[k] /\ pool[k] \in Msg
      BY <2>1, <1>3, PoolType
    <3>2. msgs[pool[k]].key = k /\ dpc[pool[k]] \in {"select", "lock", "delete"}
      BY <2>1, <3>1 DEF EntriesHaveDispatch
    <3> QED
      BY <3>1, <3>2, <1>1
  <2>2. ASSUME NEW n \in Msg, dpc'[n] \in {"select", "lock", "delete"}
        PROVE  pool'[msgs'[n].key] = n
    <3>1. n # m /\ dpc[n] \in {"select", "lock", "delete"}
      BY <2>2, <1>1
    <3>2. pool[msgs[n].key] = n /\ msgs[n].key \in Key
      BY <3>1 DEF EntriesHaveDispatch, Numbering
    <3> QED
      BY <3>1, <3>2, <1>1, <1>2, <1>3
  <2> QED
    BY <2>1, <2>2 DEF EntriesHaveDispatch
<1>6. Numbering'
  BY <1>1 DEF Numbering, Undelivered
<1> QED
  BY <1>4, <1>5, <1>6, <1>7

\* dispatch hands its message to RAWInput.
LEMMA PushInv ==
    ASSUME PoolInv, NEW m \in Msg, DispatchPush(m)
    PROVE  /\ MutexOwner' /\ Rendezvous' /\ EntriesHaveDispatch'
           /\ Finality' /\ Numbering'
<1> USE BoundAssumption DEF PoolInv
<1>1. /\ UNCHANGED <<hpc, cur, pool, started, msgs>>
      /\ dpc[m] = "push"
      /\ \/ msgs[m].timedOut /\ lock' = Nobody /\ dpc'[m] = "end"
         \/ ~msgs[m].timedOut /\ lock' = lock /\ dpc'[m] = "reply"
      /\ \A n \in Msg : n # m => dpc'[n] = dpc[n]
  <2>1. CASE msgs[m].timedOut
    BY <2>1 DEF DispatchPush, TypeOK
  <2>2. CASE ~msgs[m].timedOut
    BY <2>2 DEF DispatchPush, TypeOK
  <2> QED
    BY <2>1, <2>2
<1>2. MutexOwner'
  BY <1>1 DEF MutexOwner, Nobody, Capture, Msg
<1>3. Rendezvous'
  BY <1>1, CurType DEF Rendezvous
<1>4. EntriesHaveDispatch'
  BY <1>1, PoolType DEF EntriesHaveDispatch
<1>5. Finality'
  BY <1>1 DEF Finality
<1>6. Numbering'
  BY <1>1 DEF Numbering, Undelivered
<1> QED
  BY <1>2, <1>3, <1>4, <1>5, <1>6

\* dispatch lets Handler go.
LEMMA ReplyInv ==
    ASSUME PoolInv, NEW m \in Msg, DoneReply(m)
    PROVE  /\ MutexOwner' /\ Rendezvous' /\ EntriesHaveDispatch'
           /\ Finality' /\ Numbering'
<1> USE BoundAssumption DEF PoolInv
<1>1. hpc = "recv" /\ cur = m /\ dpc[m] = "reply"
  BY DEF DoneReply, Rendezvous
<1>2. /\ UNCHANGED <<pool, started, msgs>>
      /\ lock' = Nobody /\ hpc' = "idle" /\ cur' = NoMsg /\ dpc'[m] = "end"
      /\ \A n \in Msg : n # m => dpc'[n] = dpc[n]
  BY <1>1 DEF DoneReply, TypeOK
<1>3. MutexOwner'
  BY <1>1, <1>2 DEF MutexOwner, Nobody, Capture, Msg
<1>4. Rendezvous'
  BY <1>1, <1>2 DEF Rendezvous, NoMsg, Msg
<1>5. EntriesHaveDispatch'
  BY <1>1, <1>2, PoolType DEF EntriesHaveDispatch
<1>6. Finality'
  BY <1>1, <1>2 DEF Finality
<1>7. Numbering'
  BY <1>1, <1>2 DEF Numbering, Undelivered
<1> QED
  BY <1>3, <1>4, <1>5, <1>6, <1>7

\* A step that pushes nothing, and moves no delivered message to another key.
LEMMA QuietStep ==
    ASSUME PoolInv, Delivered' = Delivered,
           \A n \in Msg : dpc'[n] \in {"reply", "end"} <=> dpc[n] \in {"reply", "end"},
           \A n \in Msg : dpc[n] \in {"reply", "end"} => msgs'[n].key = msgs[n].key
    PROVE  PushedIffDelivered' /\ OnceAndInOrder'
<1>1. PushedIffDelivered'
  BY DEF PoolInv, PushedIffDelivered
<1>2. \A i \in 1 .. Len(Delivered) : msgs'[Delivered[i]].key = msgs[Delivered[i]].key
  BY DeliveredType DEF PoolInv, PushedIffDelivered
<1>3. OnceAndInOrder'
  BY <1>2 DEF PoolInv, OnceAndInOrder
<1> QED
  BY <1>1, <1>3

\* A push gives RAWInput one new message, the latest of its key.
LEMMA PushGives ==
    ASSUME PoolInv, NEW m \in Msg, DispatchPush(m)
    PROVE  PushedIffDelivered' /\ OnceAndInOrder'
<1> USE DEF PoolInv
<1> DEFINE D == Delivered
           L == Len(Delivered)
<1>1. /\ L \in Nat
      /\ \A i \in 1 .. L : D[i] \in Msg
  BY DeliveredType
<1>2. /\ Len(D') = L + 1
      /\ \A i \in 1 .. L : D'[i] = D[i]
      /\ D'[L + 1] = m
  BY DeliveredType, PushAppends, AppendProperties
<1>3. /\ msgs' = msgs /\ dpc[m] = "push"
      /\ dpc'[m] \in {"reply", "end"}
      /\ \A n \in Msg : n # m => dpc'[n] = dpc[n]
  <2>1. CASE msgs[m].timedOut
    BY <2>1 DEF DispatchPush, TypeOK
  <2>2. CASE ~msgs[m].timedOut
    BY <2>2 DEF DispatchPush, TypeOK
  <2> QED
    BY <2>1, <2>2
<1>4. \A i \in 1 .. L : D[i] # m /\ dpc[D[i]] \in {"reply", "end"}
  BY <1>1, <1>3 DEF PushedIffDelivered
<1> HIDE DEF D, L
<1>5. ASSUME NEW n \in Msg
      PROVE  dpc'[n] \in {"reply", "end"} <=> \E i \in 1 .. Len(D') : D'[i] = n
  <2>1. CASE n = m
    BY <2>1, <1>1, <1>2, <1>3
  <2>2. CASE n # m
    <3>1. dpc'[n] \in {"reply", "end"} <=> \E i \in 1 .. L : D[i] = n
      BY <2>2, <1>3 DEF PushedIffDelivered, D, L
    <3>2. (\E i \in 1 .. L : D[i] = n) <=> \E i \in 1 .. L + 1 : D'[i] = n
      BY <2>2, <1>1, <1>2
    <3> QED
      BY <3>1, <3>2, <1>2
  <2> QED
    BY <2>1, <2>2
<1>6. ASSUME NEW i \in 1 .. Len(D'), NEW j \in 1 .. Len(D'), i < j
      PROVE  /\ D'[i] # D'[j]
             /\ msgs'[D'[i]].key = msgs'[D'[j]].key => D'[i] < D'[j]
  <2>1. i \in 1 .. L /\ D'[i] = D[i]
    BY <1>1, <1>2, <1>6
  <2>2. CASE j = L + 1
    <3>1. D'[j] = m /\ D[i] # m /\ dpc[D[i]] # "none" /\ D[i] \in Msg
      BY <2>1, <2>2, <1>1, <1>2, <1>4
    <3>2. msgs[D[i]].key = msgs[m].key => D[i] <= m
      BY <3>1, <1>3 DEF Numbering, Undelivered
    <3> QED
      BY <2>1, <3>1, <3>2, <1>3 DEF Msg
  <2>3. CASE j # L + 1
    <3>1. j \in 1 .. L /\ D'[j] = D[j]
      BY <2>3, <1>1, <1>2
    <3> QED
      BY <2>1, <3>1, <1>3, <1>6 DEF OnceAndInOrder, D, L
  <2> QED
    BY <2>2, <2>3
<1> QED
  BY <1>5, <1>6 DEF PushedIffDelivered, OnceAndInOrder, D

\* Every step keeps what has been given accurate and ordered.
LEMMA NextGiven ==
    ASSUME PoolInv, [Next]_vars
    PROVE  PushedIffDelivered' /\ OnceAndInOrder'
<1> USE DEF PoolInv
<1>1. ASSUME NEW p \in Packet, NEW full \in BOOLEAN, HandlerContinue(p, full)
      PROVE  PushedIffDelivered' /\ OnceAndInOrder'
  <2> DEFINE m == Lookup(p.src, p.dst)
  <2>1. m \in Msg
    BY <1>1, LookupType DEF HandlerContinue, NoMsg, Msg, Packet
  <2>2. msgs[m] \in Message /\ AddPacket(m, msgs[m], p, full)
    BY <1>1, <2>1 DEF HandlerContinue, TypeOK
  <2>3. \A n \in Msg : msgs'[n].key = msgs[n].key
    BY <2>1, <2>2, AddPacketFields
  <2>4. dpc' = dpc /\ Delivered' = Delivered
    BY <1>1 DEF HandlerContinue, inputVars, Delivered
  <2> QED
    BY <2>3, <2>4, QuietStep
<1>2. ASSUME NEW p \in Packet, NEW full \in BOOLEAN, HandlerStart(p, full)
      PROVE  PushedIffDelivered' /\ OnceAndInOrder'
  <2> DEFINE m == started + 1
             new == [key |-> IF IsIncoming(p) THEN InKey(p) ELSE OutKey(p),
                     in |-> IsIncoming(p), len |-> 0,
                     truncated |-> FALSE, timedOut |-> FALSE, final |-> FALSE]
  <2>1. m \in Msg /\ dpc[m] = "none"
    <3>1. m \in Msg
      BY <1>2, BoundAssumption DEF HandlerStart, TypeOK, Msg
    <3>2. m > started
      BY DEF TypeOK
    <3> QED
      BY <3>1, <3>2 DEF Numbering
  <2>2. msgs' = [msgs EXCEPT ![m] =
                    [Extended(new, p) EXCEPT !.final = Completes(new, p, full)]]
    BY <1>2 DEF HandlerStart, AddPacket
  <2>3. \A n \in Msg : n # m => msgs'[n] = msgs[n]
    BY <2>1, <2>2 DEF TypeOK
  <2>4. /\ dpc' = [dpc EXCEPT ![m] = "select"]
        /\ Delivered' = Delivered
    BY <1>2 DEF HandlerStart, inputVars, Delivered
  <2>5. dpc'[m] = "select" /\ \A n \in Msg : n # m => dpc'[n] = dpc[n]
    BY <2>1, <2>4 DEF TypeOK
  <2> QED
    BY <2>1, <2>3, <2>4, <2>5, QuietStep
<1>3. ASSUME NEW src \in Addr, NEW dst \in Addr, HandlerReset(src, dst)
      PROVE  PushedIffDelivered' /\ OnceAndInOrder'
  <2>1. UNCHANGED <<msgs, dpc>> /\ Delivered' = Delivered
    BY <1>3 DEF HandlerReset, inputVars, Delivered
  <2> QED
    BY <2>1, QuietStep
<1>4. ASSUME NEW m \in Msg, Dispatch(m), ~DispatchPush(m)
      PROVE  PushedIffDelivered' /\ OnceAndInOrder'
  <2>1. Delivered' = Delivered
    BY <1>4 DEF Dispatch, DoneSignal, DispatchTimer, DispatchLock,
                DispatchDelete, DoneReply, inputVars, Delivered
  <2>2. \A n \in Msg :
          dpc'[n] \in {"reply", "end"} <=> dpc[n] \in {"reply", "end"}
    BY <1>4 DEF Dispatch, DoneSignal, DispatchTimer, DispatchLock,
                DispatchDelete, DoneReply, TypeOK
  <2>3. \A n \in Msg : dpc[n] \in {"reply", "end"} => msgs'[n].key = msgs[n].key
    <3>1. CASE DispatchLock(m)
      <4>1. dpc[m] = "lock" /\ msgs' = [msgs EXCEPT ![m].timedOut = TRUE]
        BY <3>1 DEF DispatchLock
      <4> QED
        BY <4>1 DEF TypeOK
    <3>2. CASE ~DispatchLock(m)
      BY <1>4, <3>2 DEF Dispatch, DoneSignal, DispatchTimer, DispatchDelete,
                        DoneReply
    <3> QED
      BY <3>1, <3>2
  <2> QED
    BY <2>1, <2>2, <2>3, QuietStep
<1>5. ASSUME NEW m \in Msg, DispatchPush(m)
      PROVE  PushedIffDelivered' /\ OnceAndInOrder'
  BY <1>5, PushGives
<1>6. CASE Read
  BY <1>6, ReadKeeps, QuietStep DEF Read
<1>7. CASE ReadStopped \/ Close \/ UNCHANGED vars
  <2>1. UNCHANGED <<msgs, dpc>> /\ Delivered' = Delivered
    BY <1>7 DEF ReadStopped, Close, vars, Delivered
  <2> QED
    BY <2>1, QuietStep
<1> QED
  BY <1>1, <1>2, <1>3, <1>4, <1>5, <1>6, <1>7 DEF Next, Handler

-----------------------------------------------------------------------------
(* Theorems                                                                  *)

\* A new pool satisfies its invariant.
LEMMA InitInv == Init => PoolInv
<1> SUFFICES ASSUME Init PROVE PoolInv
  OBVIOUS
<1> USE BoundAssumption DEF Init
<1>1. TypeOK
  BY InitType
<1>2. MutexOwner /\ Rendezvous /\ Finality
  BY DEF MutexOwner, Rendezvous, Finality, Nobody, Capture, NoMsg, Msg
<1>3. EntriesHaveDispatch /\ Numbering
  BY DEF EntriesHaveDispatch, Numbering, Undelivered, NoMsg, Msg
<1>4. Delivered = <<>> /\ Len(Delivered) = 0
  BY EmptySeq, ConcatEmptySeq DEF Delivered
<1>5. PushedIffDelivered /\ OnceAndInOrder
  BY <1>4 DEF PushedIffDelivered, OnceAndInOrder
<1> QED
  BY <1>1, <1>2, <1>3, <1>5 DEF PoolInv

\* Every step preserves the invariant.
LEMMA NextInv == PoolInv /\ [Next]_vars => PoolInv'
<1> SUFFICES ASSUME PoolInv, [Next]_vars PROVE PoolInv'
  OBVIOUS
<1> DEFINE Core == /\ MutexOwner /\ Rendezvous /\ EntriesHaveDispatch
                   /\ Finality /\ Numbering
<1>1. TypeOK'
  BY NextType DEF PoolInv
<1>2. PushedIffDelivered' /\ OnceAndInOrder'
  BY NextGiven
<1>3. Core'
  <2>1. ASSUME NEW p \in Packet, NEW full \in BOOLEAN,
               HandlerContinue(p, full) \/ HandlerStart(p, full)
        PROVE  Core'
    BY <2>1, ContinueInv, StartInv
  <2>2. ASSUME NEW src \in Addr, NEW dst \in Addr, HandlerReset(src, dst)
        PROVE  Core'
    BY <2>2, ResetInv
  <2>3. ASSUME NEW m \in Msg, Dispatch(m)
        PROVE  Core'
    BY <2>3, SelectInv, LockInv, DeleteInv, PushInv, ReplyInv DEF Dispatch
  <2>4. CASE Read \/ ReadStopped \/ Close \/ UNCHANGED vars
    <3>1. UNCHANGED <<lock, hpc, cur, pool, started, msgs, dpc>>
      BY <2>4 DEF Read, ReadStopped, Close, vars
    <3> QED
      BY <3>1 DEF PoolInv, MutexOwner, Rendezvous, EntriesHaveDispatch,
                  Finality, Numbering, Undelivered
  <2> QED
    BY <2>1, <2>2, <2>3, <2>4 DEF Next, Handler
<1> QED
  BY <1>1, <1>2, <1>3 DEF PoolInv

\* The strengthened invariant of the pool: mutex ownership, the exchange on
\* m.done and the numbering of messages fit together in every reachable state.
THEOREM PoolInvariant == Spec => []PoolInv
BY InitInv, NextInv, PTL DEF Spec

\* Type correctness.
THEOREM TypeCorrect == Spec => []TypeOK
<1>1. PoolInv => TypeOK
  BY DEF PoolInv
<1> QED
  BY <1>1, PoolInvariant, PTL

\* dispatch deletes from the map only when no other goroutine can touch it.
THEOREM MapRaceFree == Spec => []MapAccessExclusive
<1>1. PoolInv => MapAccessExclusive
  <2> SUFFICES ASSUME PoolInv, NEW m \in Msg, dpc[m] = "delete"
               PROVE  /\ lock = m \/ (lock = Capture /\ hpc = "recv" /\ cur = m)
                      /\ \A n \in Msg \ {m} : dpc[n] # "delete"
    BY DEF MapAccessExclusive
  <2> USE BoundAssumption DEF PoolInv
  <2>1. \A n \in Msg : dpc[n] = "delete" =>
           \/ lock = n
           \/ lock = Capture /\ hpc = "recv" /\ cur = n
    BY DEF MutexOwner, Rendezvous
  <2> QED
    BY <2>1 DEF Msg, Capture
<1> QED
  BY <1>1, PoolInvariant, PTL

\* No entry of the pool is leaked, none is deleted for another message.
THEOREM NoLeakedEntry == Spec => []EntriesHaveDispatch
<1>1. PoolInv => EntriesHaveDispatch
  BY DEF PoolInv
<1> QED
  BY <1>1, PoolInvariant, PTL

\* RAWInput sees every message at most once, and each key's messages in order.
THEOREM DeliveryOrder == Spec => []OnceAndInOrder
<1>1. PoolInv => OnceAndInOrder
  BY DEF PoolInv
<1> QED
  BY <1>1, PoolInvariant, PTL

\* TimedOut is reported exactly for the messages that miss their final packet.
THEOREM TimedOutIsAccurate == Spec => []TimedOutIffIncomplete
<1>1. PoolInv => TimedOutIffIncomplete
  <2> SUFFICES ASSUME PoolInv, NEW i \in 1 .. Len(Delivered)
               PROVE  msgs[Delivered[i]].timedOut <=> ~msgs[Delivered[i]].final
    BY DEF TimedOutIffIncomplete
  <2>1. Delivered[i] \in Msg
    BY DeliveredType DEF PoolInv
  <2>2. dpc[Delivered[i]] \in {"reply", "end"}
    BY <2>1 DEF PoolInv, PushedIffDelivered
  <2> QED
    BY <2>1, <2>2 DEF PoolInv, Finality
<1> QED
  BY <1>1, PoolInvariant, PTL

\* Once Handler waits for a rendezvous that cannot happen, it does for ever, and
\* no step changes the pool again.
THEOREM WedgeForever == Spec => WedgeIsFinal
<1> DEFINE Frozen == Wedged' /\ UNCHANGED <<lock, pool, started, msgs>>
<1>1. ASSUME PoolInv, Wedged, [Next]_vars
      PROVE  Frozen
  <2> USE BoundAssumption DEF PoolInv
  <2>1. /\ hpc # "idle" /\ cur \in Msg /\ lock = Capture
        /\ dpc[cur] \in {"select", "lock"}
        /\ hpc = "send" => dpc[cur] = "lock"
    BY <1>1, CurType DEF Wedged, MutexOwner, Rendezvous
  <2>2. hpc # "recv"
    BY <1>1 DEF Wedged
  <2>3. ASSUME NEW m \in Msg, Dispatch(m)
        PROVE  Frozen
    <3>1. dpc[m] \notin {"delete", "push", "reply"}
      BY <1>1, <2>1, <2>2 DEF MutexOwner, Rendezvous, Capture, Msg
    <3>2. DispatchTimer(m)
      BY <2>1, <2>3, <3>1
      DEF Dispatch, DoneSignal, DispatchLock, DispatchDelete, DispatchPush,
          DoneReply, Nobody, Capture
    <3> QED
      BY <1>1, <2>1, <3>2 DEF DispatchTimer, Wedged, TypeOK
  <2>4. CASE Read \/ ReadStopped \/ Close \/ UNCHANGED vars
    BY <1>1, <2>4 DEF Read, ReadStopped, Close, vars, Wedged
  <2>5. ~Handler
    BY <2>1 DEF Handler, HandlerContinue, HandlerStart, HandlerReset
  <2> QED
    BY <1>1, <2>3, <2>4, <2>5 DEF Next
<1>2. PoolInv /\ [Next]_vars => [Wedged => Frozen]_vars
  BY <1>1
<1> QED
  BY <1>2, PoolInvariant, PTL DEF Spec, WedgeIsFinal

-----------------------------------------------------------------------------
(* Refinement                                                                *)

\* The state MessageStream sees.
Live == {m \in Msg : Undelivered(m)}
KeyOf == [m \in Msg |-> msgs[m].key]
SizeOf == [m \in Msg |-> msgs[m].len]

\* A step that neither begins, extends nor pushes a message is a stutter.
LEMMA StreamStutter ==
    ASSUME TypeOK, Delivered' = Delivered,
           \A n \in Msg : Undelivered(n)' <=> Undelivered(n),
           \A n \in Msg : /\ msgs'[n].key = msgs[n].key
                          /\ msgs'[n].len = msgs[n].len
    PROVE  UNCHANGED <<Live, KeyOf, SizeOf, Delivered>>
BY DEF Live, KeyOf, SizeOf

\* A packet for a known message is a Grow of the stream.
LEMMA StreamGrow ==
    ASSUME PoolInv, NEW p \in Packet, NEW full \in BOOLEAN,
           HandlerContinue(p, full)
    PROVE  Stream!StreamNext
<1> DEFINE m == Lookup(p.src, p.dst)
<1> USE DEF PoolInv
<1>1. m \in Msg /\ msgs[m] \in Message
  BY LookupType DEF HandlerContinue, NoMsg, Msg, Packet, TypeOK
<1>2. AddPacket(m, msgs[m], p, full)
  BY DEF HandlerContinue
<1>3. /\ \A n \in Msg : n # m => msgs'[n] = msgs[n]
      /\ msgs'[m].key = msgs[m].key
      /\ msgs'[m].len \in msgs[m].len .. MaxSize
  BY <1>1, <1>2, AddPacketFields
<1>4. UNCHANGED <<dpc, chan, read>>
  BY DEF HandlerContinue, inputVars
<1>5. Undelivered(m)
  <2>1. \E k \in Key : pool[k] = m
    BY DEF Lookup, Key, Packet
  <2> QED
    BY <1>1, <2>1 DEF EntriesHaveDispatch, NoMsg, Msg, Undelivered
<1>6. PICK n \in 0 .. MaxSize : n = msgs'[m].len /\ n \in SizeOf[m] .. MaxSize
  BY <1>1, <1>3, SizeAssumption DEF SizeOf, Message
<1> HIDE DEF m
<1>7. SizeOf' = [SizeOf EXCEPT ![m] = n]
  BY <1>1, <1>3, <1>6 DEF SizeOf
<1>8. UNCHANGED <<Live, KeyOf, Delivered>>
  BY <1>3, <1>4 DEF Live, KeyOf, Delivered, Undelivered
<1>9. m \in Live
  BY <1>1, <1>5 DEF Live
<1>10. Stream!Grow(m, n)
  BY <1>6, <1>7, <1>8, <1>9 DEF Stream!Grow, Live, KeyOf, SizeOf
<1> QED
  BY <1>1, <1>6, <1>10 DEF Stream!StreamNext

\* A first packet is a Begin of the stream.
LEMMA StreamBegin ==
    ASSUME PoolInv, NEW p \in Packet, NEW full \in BOOLEAN,
           HandlerStart(p, full)
    PROVE  Stream!StreamNext
<1> DEFINE m == started + 1
           key == IF IsIncoming(p) THEN InKey(p) ELSE OutKey(p)
           new == [key |-> key, in |-> IsIncoming(p), len |-> 0,
                   truncated |-> FALSE, timedOut |-> FALSE, final |-> FALSE]
<1> USE BoundAssumption DEF PoolInv
<1>1. m \in Msg /\ hpc = "idle" /\ lock = Nobody
  BY DEF HandlerStart, TypeOK, Msg
<1>2. key \in Key
  BY DEF InKey, OutKey, Key, Packet
<1>3. new \in Message
  BY <1>2, SizeAssumption DEF Message, IsIncoming
<1>4. /\ dpc' = [dpc EXCEPT ![m] = "select"]
      /\ AddPacket(m, new, p, full)
      /\ Delivered' = Delivered
  BY DEF HandlerStart, inputVars, Delivered
<1>5. pool[key] = NoMsg
  BY DEF HandlerStart, Lookup, InKey, OutKey, NoMsg
<1>6. new.key = key /\ new.len = 0
  OBVIOUS
<1> HIDE DEF new, key
<1>7. /\ \A n \in Msg : n # m => msgs'[n] = msgs[n]
      /\ msgs'[m].key = key /\ msgs'[m].len \in 0 .. MaxSize
  BY <1>1, <1>3, <1>4, <1>6, AddPacketFields
<1>8. dpc'[m] = "select" /\ \A n \in Msg : n # m => dpc'[n] = dpc[n]
  BY <1>1, <1>4 DEF TypeOK
<1>9. dpc[m] = "none"
  BY <1>1 DEF Numbering, Msg, TypeOK
<1> PICK n \in 0 .. MaxSize : n = msgs'[m].len
  BY <1>7
<1>10. m \in Msg \ Stream!Begun
  BY <1>1, <1>9
  DEF Stream!Begun, Live, Undelivered, PushedIffDelivered
<1>11. \A l \in Live : KeyOf[l] # key
  <2> SUFFICES ASSUME NEW l \in Msg, Undelivered(l), msgs[l].key = key
               PROVE  FALSE
    BY DEF Live, KeyOf
  <2>1. dpc[l] # "push"
    BY <1>1 DEF MutexOwner, Rendezvous, Nobody, Msg
  <2>2. pool[key] = l
    BY <2>1 DEF EntriesHaveDispatch, Undelivered
  <2> QED
    BY <2>2, <1>5 DEF NoMsg, Msg
<1>12. Live' = Live \cup {m}
  BY <1>1, <1>8, <1>9 DEF Live, Undelivered
<1>13. KeyOf' = [KeyOf EXCEPT ![m] = key] /\ SizeOf' = [SizeOf EXCEPT ![m] = n]
  BY <1>1, <1>7 DEF KeyOf, SizeOf
<1> HIDE DEF m
<1>14. Stream!Begin(m, key, n)
  BY <1>4, <1>7, <1>10, <1>11, <1>12, <1>13
  DEF Stream!Begin, Live, KeyOf, SizeOf
<1> QED
  BY <1>1, <1>2, <1>7, <1>14 DEF Stream!StreamNext

\* A push is a Send of the stream.
LEMMA StreamSend ==
    ASSUME PoolInv, NEW m \in Msg, DispatchPush(m)
    PROVE  Stream!StreamNext
<1> USE DEF PoolInv
<1>1. /\ msgs' = msgs /\ dpc[m] = "push"
      /\ dpc'[m] \in {"reply", "end"}
      /\ \A n \in Msg : n # m => dpc'[n] = dpc[n]
  <2>1. CASE msgs[m].timedOut
    BY <2>1 DEF DispatchPush, TypeOK
  <2>2. CASE ~msgs[m].timedOut
    BY <2>2 DEF DispatchPush, TypeOK
  <2> QED
    BY <2>1, <2>2
<1>2. m \in Live /\ Live' = Live \ {m}
  BY <1>1 DEF Live, Undelivered
<1>3. Delivered' = Append(Delivered, m)
  BY PushAppends
<1>4. UNCHANGED <<KeyOf, SizeOf>>
  BY <1>1 DEF KeyOf, SizeOf
<1>5. Stream!Send(m)
  BY <1>2, <1>3, <1>4 DEF Stream!Send, Live, KeyOf, SizeOf
<1> QED
  BY <1>5 DEF Stream!StreamNext

\* The pool, with its mutex, timers and rendezvous, implements MessageStream.
THEOREM PoolImplementsStream == Spec => ImplementsStream
<1>1. Init => Stream!StreamInit
  <2> SUFFICES ASSUME Init PROVE Stream!StreamInit
    OBVIOUS
  <2>1. Delivered = <<>>
    BY EmptySeq, ConcatEmptySeq DEF Init, Delivered
  <2>2. {m \in Msg : Undelivered(m)} = {}
    BY DEF Init, Undelivered
  <2>3. \A m \in Msg : [n \in Msg |-> msgs[n].len][m] = 0
    BY DEF Init
  <2> QED
    BY <2>1, <2>2, <2>3 DEF Stream!StreamInit
<1>2. PoolInv /\ [Next]_vars => [Stream!StreamNext]_(Stream!streamVars)
  <2> SUFFICES ASSUME PoolInv, [Next]_vars
               PROVE  \/ Stream!StreamNext
                      \/ UNCHANGED <<Live, KeyOf, SizeOf, Delivered>>
    BY DEF Stream!streamVars, Live, KeyOf, SizeOf
  <2>1. ASSUME NEW p \in Packet, NEW full \in BOOLEAN,
               HandlerContinue(p, full) \/ HandlerStart(p, full)
        PROVE  Stream!StreamNext
    BY <2>1, StreamGrow, StreamBegin
  <2>2. ASSUME NEW src \in Addr, NEW dst \in Addr, HandlerReset(src, dst)
        PROVE  UNCHANGED <<Live, KeyOf, SizeOf, Delivered>>
    BY <2>2 DEF HandlerReset, inputVars, Live, KeyOf, SizeOf, Delivered,
                Undelivered
  <2>3. ASSUME NEW m \in Msg, DispatchPush(m)
        PROVE  Stream!StreamNext
    BY <2>3, StreamSend
  <2>4. ASSUME NEW m \in Msg, Dispatch(m), ~DispatchPush(m)
        PROVE  UNCHANGED <<Live, KeyOf, SizeOf, Delivered>>
    <3>1. Delivered' = Delivered
      BY <2>4 DEF Dispatch, DoneSignal, DispatchTimer, DispatchLock,
                  DispatchDelete, DoneReply, inputVars, Delivered
    <3>2. \A n \in Msg : Undelivered(n)' <=> Undelivered(n)
      BY <2>4 DEF Dispatch, DoneSignal, DispatchTimer, DispatchLock,
                  DispatchDelete, DoneReply, Undelivered, PoolInv, TypeOK
    <3>3. \A n \in Msg : /\ msgs'[n].key = msgs[n].key
                         /\ msgs'[n].len = msgs[n].len
      <4>1. CASE DispatchLock(m)
        <5>1. msgs' = [msgs EXCEPT ![m].timedOut = TRUE]
          BY <4>1 DEF DispatchLock
        <5>2. msgs[m] \in Message
          BY DEF PoolInv, TypeOK
        <5> QED
          BY <5>1, <5>2 DEF PoolInv, TypeOK, Message
      <4>2. CASE ~DispatchLock(m)
        BY <2>4, <4>2 DEF Dispatch, DoneSignal, DispatchTimer, DispatchDelete,
                          DoneReply
      <4> QED
        BY <4>1, <4>2
    <3> QED
      BY <3>1, <3>2, <3>3, StreamStutter DEF PoolInv
  <2>5. CASE Read
    <3>1. UNCHANGED <<msgs, dpc>> /\ Delivered' = Delivered
      BY <2>5, ReadKeeps DEF PoolInv, Read
    <3> QED
      BY <3>1 DEF Live, KeyOf, SizeOf, Undelivered
  <2>6. CASE ReadStopped \/ Close \/ UNCHANGED vars
    BY <2>6 DEF ReadStopped, Close, vars, Live, KeyOf, SizeOf, Delivered,
                Undelivered
  <2> QED
    BY <2>1, <2>2, <2>3, <2>4, <2>5, <2>6 DEF Next, Handler
<1> QED
  BY <1>1, <1>2, PoolInvariant, PTL DEF Spec, ImplementsStream, Stream!StreamSpec
=============================================================================

------------------------ MODULE MiddlewareLoopProofs -----------------------
(***************************************************************************)
(* HTTPOutput by itself and with the middleware around it, for all         *)
(* capacities, pool sizes and numbers of writers: activeWorkers counts the *)
(* workers, and stale views of it do not let the pool outgrow its bound;   *)
(* the middleware uses HTTPOutput as any copy goroutines do, and a jam is  *)
(* final.                                                                  *)
(***************************************************************************)
EXTENDS MiddlewareLoop, FiniteSetTheorems, TLAPS

-----------------------------------------------------------------------------
(* HTTPOutput                                                                *)

\* NewHTTPOutput starts with a well-typed, exact count of zero.
LEMMA InitCount == Init => CountInv
  <1> SUFFICES ASSUME Init PROVE CountInv
    OBVIOUS
  <1>1. Initial \in Nat
    BY WorkersAssumption DEF WorkersAssumption, Initial
  <1>2. 0 \in 0 .. QueueLen
    BY QueueAssumption DEF QueueAssumption
  <1>3. TypeOK
    BY <1>1, <1>2 DEF Init, TypeOK
  <1> QED
    BY <1>3 DEF Init, CountInv, CountIsExact, Alive

\* A step of workerMaster moves workers from hand to spawn, counting them, and
\* from spawn to idle.
LEMMA MasterCount ==
  ASSUME CountInv, MasterTake \/ MasterAdd \/ MasterSpawn
  PROVE  CountInv'
  <1> USE DEF CountInv, TypeOK, CountIsExact, Alive, workerVars, writerVars
  <1>1. CASE MasterTake  BY <1>1 DEF MasterTake
  <1>2. CASE MasterAdd   BY <1>2 DEF MasterAdd
  <1>3. CASE MasterSpawn BY <1>3 DEF MasterSpawn
  <1> QED BY <1>1, <1>2, <1>3

\* A step of a worker moves it between its control points; only a death that the
\* worker decided itself is counted, and a death by Close is not.
LEMMA WorkerCount ==
  ASSUME CountInv, Worker
  PROVE  CountInv'
  <1> USE DEF CountInv, TypeOK, CountIsExact, Alive, masterVars, writerVars
  <1>1. CASE WorkerTake BY <1>1, QueueAssumption DEF WorkerTake, QueueAssumption
  <1>2. ASSUME NEW malformed \in BOOLEAN, WorkerSent(malformed)
        PROVE  CountInv'
    <2>1. CASE TrackResponses /\ ~malformed BY <1>2, <2>1 DEF WorkerSent
    <2>2. CASE ~(TrackResponses /\ ~malformed) BY <1>2, <2>2 DEF WorkerSent
    <2> QED BY <2>1, <2>2
  <1>3. CASE WorkerReply BY <1>3, QueueAssumption DEF WorkerReply, QueueAssumption
  <1>4. CASE WorkerIdle  BY <1>4 DEF WorkerIdle
  <1>5. CASE WorkerLeave BY <1>5 DEF WorkerLeave
  <1>6. CASE WorkerStop  BY <1>6 DEF WorkerStop
  <1> QED BY <1>1, <1>2, <1>3, <1>4, <1>5, <1>6 DEF Worker

\* Write never touches a worker.
LEMMA WriteCount ==
  ASSUME CountInv, NEW w \in Writer, Write(w)
  PROVE  CountInv'
  <1> USE DEF CountInv, TypeOK, CountIsExact, Alive, masterVars, workerVars
  <1>1. CASE WriteCall(w)    BY <1>1 DEF WriteCall
  <1>2. CASE WriteStopped(w) BY <1>2 DEF WriteStopped
  <1>3. CASE WriteQueue(w)   BY <1>3, QueueAssumption DEF WriteQueue, QueueAssumption
  <1>4. CASE WriteLoad(w)    BY <1>4 DEF WriteLoad
  <1>5. CASE WriteCompare(w) BY <1>5 DEF WriteCompare, Return
  <1>6. CASE WriteExtra(w)
    <2>1. ExtraWorkers(w) \in Int
      BY WorkersAssumption DEF ExtraWorkers, WorkersAssumption
    <2>2. CASE ExtraWorkers(w) > 0 BY <1>6, <2>1, <2>2 DEF WriteExtra
    <2>3. CASE ~(ExtraWorkers(w) > 0) BY <1>6, <2>3 DEF WriteExtra, Return
    <2> QED BY <2>2, <2>3
  <1>7. CASE WriteNeed(w)    BY <1>7 DEF WriteNeed, Return
  <1> QED BY <1>1, <1>2, <1>3, <1>4, <1>5, <1>6, <1>7 DEF Write

\* So do Read, Close and steps of others: the count is exact after every step.
LEMMA NextCount == CountInv /\ [Next]_vars => CountInv'
  <1> SUFFICES ASSUME CountInv, [Next]_vars PROVE CountInv'
    OBVIOUS
  <1>1. CASE Read
    BY <1>1, QueueAssumption
    DEF QueueAssumption, Read, CountInv, TypeOK, CountIsExact, Alive, masterVars,
        workerVars, writerVars
  <1>2. CASE ReadStopped
    BY <1>2 DEF ReadStopped, CountInv, TypeOK, CountIsExact, Alive, masterVars, workerVars, writerVars
  <1>3. CASE Close
    BY <1>3 DEF Close, CountInv, TypeOK, CountIsExact, Alive, masterVars, workerVars, writerVars
  <1>4. CASE UNCHANGED vars
    BY <1>4 DEF vars, CountInv, TypeOK, CountIsExact, Alive, masterVars, workerVars, writerVars
  <1> QED BY <1>1, <1>2, <1>3, <1>4, MasterCount, WorkerCount, WriteCount DEF Next

(***************************************************************************)
(* activeWorkers is exact until Close and never too low: the atomic adds   *)
(* of workerMaster and startWorker balance in every interleaving, for any  *)
(* number of workers and writers.                                          *)
(***************************************************************************)
THEOREM ActiveWorkersExact == Spec => []CountInv
  <1> QED BY InitCount, NextCount, PTL DEF Spec

-----------------------------------------------------------------------------
(* The size of the pool                                                      *)

\* What the writers other than w may still ask for.
WantedByOthers(w) == UNION {{v} \X (1 .. Pending(v)) : v \in Writer \ {w}}

\* The configured sizes.
LEMMA Sizes ==
  /\ Initial \in Nat /\ WorkersMax \in Nat /\ WorkersMax <= Initial
  /\ IsFiniteSet(Writer) /\ Cardinality(Writer) \in Nat
  <1>1. IsFiniteSet(Writer)
    BY QueueAssumption DEF QueueAssumption
  <1>2. Initial \in Nat /\ WorkersMax \in Nat /\ WorkersMax <= Initial
    BY WorkersAssumption DEF WorkersAssumption, Initial
  <1> QED
    BY <1>1, <1>2, FS_CardinalityType

\* What a writer may ask for is a number.
LEMMA PendingType ==
  ASSUME TypeOK
  PROVE  \A w \in Writer : Pending(w) \in Nat
  BY Sizes DEF TypeOK, Pending

\* The pairs of w and those of the others.
LEMMA WantedSplit ==
  ASSUME TypeOK, AsksBounded, NEW w \in Writer
  PROVE  /\ Cardinality(WantedByOthers(w)) \in Nat
         /\ Cardinality(Wanted) = Pending(w) + Cardinality(WantedByOthers(w))
         /\ Cardinality(WantedByOthers(w)) <= (Cardinality(Writer) - 1) * Initial
  <1> DEFINE O == WantedByOthers(w)
             M == {w} \X (1 .. Pending(w))
             B == (Writer \ {w}) \X (1 .. Initial)
  <1>1. \A v \in Writer : Pending(v) \in Nat /\ Pending(v) <= Initial
    BY PendingType DEF AsksBounded
  <1>2. IsFiniteSet(Writer \ {w}) /\ Cardinality(Writer \ {w}) = Cardinality(Writer) - 1
    BY Sizes, FS_RemoveElement
  <1>3. IsFiniteSet(1 .. Initial) /\ Cardinality(1 .. Initial) = Initial
    BY Sizes, FS_Interval, SMTT(30)
  <1>4. IsFiniteSet(B) /\ Cardinality(B) = (Cardinality(Writer) - 1) * Initial
    <2>1. IsFiniteSet(B) /\ Cardinality(B) = Cardinality(Writer \ {w}) * Cardinality(1 .. Initial)
      BY <1>2, <1>3, FS_Product, Zenon
    <2> QED
      BY <1>2, <1>3, <2>1, Zenon
  <1>5. O \subseteq B
    BY <1>1, Sizes DEF WantedByOthers
  <1>6. IsFiniteSet(O) /\ Cardinality(O) <= Cardinality(B)
    BY <1>4, <1>5, FS_Subset
  <1>7. IsFiniteSet(M) /\ Cardinality(M) = Pending(w)
    <2>1. IsFiniteSet({w}) /\ Cardinality({w}) = 1
      BY FS_Singleton
    <2>2. IsFiniteSet(1 .. Pending(w)) /\ Cardinality(1 .. Pending(w)) = Pending(w)
      BY <1>1, FS_Interval
    <2>3. IsFiniteSet(M) /\ Cardinality(M) = Cardinality({w}) * Cardinality(1 .. Pending(w))
      BY <2>1, <2>2, FS_Product
    <2>4. Pending(w) \in Nat
      BY <1>1
    <2> QED
      BY <2>1, <2>2, <2>3, <2>4
  <1>8. Wanted = M \cup O /\ M \cap O = {}
    BY DEF Wanted, WantedByOthers
  <1>9. /\ Cardinality(M \cup O) = Cardinality(M) + Cardinality(O) - Cardinality(M \cap O)
        /\ Cardinality({}) = 0
    BY <1>6, <1>7, FS_Union, FS_EmptySet
  <1>10. Cardinality(O) \in Nat
    BY <1>6, FS_CardinalityType
  <1>11. Pending(w) \in Nat
    BY <1>1
  <1> HIDE DEF M, B, O
  <1>12. Cardinality(Wanted) = Pending(w) + Cardinality(O)
    <2>1. Cardinality(Wanted) = Pending(w) + Cardinality(O) - 0
      BY <1>7, <1>8, <1>9, Zenon
    <2> QED
      BY <1>10, <1>11, <2>1
  <1> QED
    BY <1>4, <1>6, <1>10, <1>12 DEF O

\* A step of writer w changes what w may ask for, and the size by as much.
LEMMA WriterSize ==
  ASSUME CountInv, CountInv', WorkersBounded, NEW w \in Writer,
         \A v \in Writer \ {w} : wpc'[v] = wpc[v] /\ num'[v] = num[v],
         UNCHANGED <<active, hand>>, need' <= Initial, Pending(w)' <= Initial,
         \/ need' + Pending(w)' <= need + Pending(w)
         \/ need' = need /\ Pending(w)' = 0
         \/ need' = need /\ active + Pending(w)' <= Initial
  PROVE  WorkersBounded'
  <1> DEFINE o == Cardinality(WantedByOthers(w))
             c == Cardinality(Writer)
  <1>1. \A v \in Writer \ {w} : Pending(v)' = Pending(v)
    BY DEF Pending
  <1>2. WantedByOthers(w)' = WantedByOthers(w)
    BY <1>1 DEF WantedByOthers
  <1>3. AsksBounded'
    BY <1>1 DEF WorkersBounded, AsksBounded
  <1>4. /\ o \in Nat /\ Cardinality(Wanted) = Pending(w) + o
        /\ o <= (c - 1) * Initial
    BY WantedSplit DEF CountInv, WorkersBounded
  <1>5. Cardinality(Wanted') = Pending(w)' + o
    <2>1. TypeOK' /\ AsksBounded'
      BY <1>3 DEF CountInv
    <2>2. (/\ Cardinality(WantedByOthers(w)) \in Nat
           /\ Cardinality(Wanted) = Pending(w) + Cardinality(WantedByOthers(w)))'
      BY <2>1, WantedSplit, PTL
    <2> QED
      BY <1>2, <2>2
  <1>6. /\ active \in Nat /\ hand \in Nat /\ need \in Nat /\ need' \in Nat
        /\ Pending(w) \in Nat /\ Pending(w)' \in Nat /\ Initial \in Nat /\ c \in Nat
        /\ hand <= Initial /\ need <= Initial
    <2>1. TypeOK'
      BY DEF CountInv
    <2>2. (\A v \in Writer : Pending(v) \in Nat)'
      BY <2>1, Sizes DEF TypeOK, Pending
    <2>3. \A v \in Writer : Pending(v) \in Nat
      BY PendingType DEF CountInv
    <2> QED
      BY <2>2, <2>3, Sizes DEF CountInv, TypeOK, WorkersBounded, AsksBounded
  <1>7. active + hand + need + (Pending(w) + o) <= (c + 2) * Initial
    BY <1>4 DEF WorkersBounded
  <1> HIDE DEF o, c
  <1>8. active + hand + need' + (Pending(w)' + o) <= (c + 2) * Initial
    <2>1. (c - 1) * Initial = c * Initial - Initial /\ (c + 2) * Initial = c * Initial + 2 * Initial
      BY <1>6
    <2>2. c * Initial \in Nat
      BY <1>6
    <2> QED
      BY <1>4, <1>6, <1>7, <2>1, <2>2
  <1> QED
    BY <1>3, <1>5, <1>8 DEF WorkersBounded, c

\* Nobody has asked for more than the initial workers.
LEMMA InitBounded == Init => WorkersBounded
  <1> SUFFICES ASSUME Init PROVE WorkersBounded
    OBVIOUS
  <1>1. \A w \in Writer : Pending(w) = 0
    BY DEF Init, Pending
  <1>2. Wanted = {}
    BY <1>1 DEF Wanted
  <1>3. Cardinality(Wanted) = 0
    BY <1>2, FS_EmptySet
  <1>4. Initial <= (Cardinality(Writer) + 2) * Initial
    <2>1. (Cardinality(Writer) + 2) * Initial = Cardinality(Writer) * Initial + 2 * Initial
      BY Sizes
    <2>2. Cardinality(Writer) * Initial \in Nat
      BY Sizes
    <2> QED
      BY <2>1, <2>2, Sizes
  <1> QED
    BY <1>1, <1>3, <1>4, Sizes DEF WorkersBounded, AsksBounded, Init

\* Steps of workerMaster pass a number on, and those of workers start none.
LEMMA OthersBounded ==
  ASSUME CountInv, CountInv', WorkersBounded, UNCHANGED writerVars,
         hand' <= Initial, need' <= Initial, active' + hand' + need' <= active + hand + need
  PROVE  WorkersBounded'
  <1>1. \A w \in Writer : Pending(w)' = Pending(w)
    BY DEF Pending, writerVars
  <1>2. Wanted' = Wanted
    BY <1>1 DEF Wanted
  <1>3. AsksBounded'
    BY <1>1 DEF AsksBounded, WorkersBounded
  <1>4. IsFiniteSet(Wanted)
    <2>1. Wanted \subseteq Writer \X (1 .. Initial)
      <3>1. \A v \in Writer : Pending(v) \in Nat /\ Pending(v) <= Initial
        BY PendingType DEF CountInv, WorkersBounded, AsksBounded
      <3> QED
        BY <3>1, Sizes DEF Wanted
    <2>2. IsFiniteSet(1 .. Initial)
      BY Sizes, FS_Interval
    <2>3. IsFiniteSet(Writer \X (1 .. Initial))
      BY <2>2, Sizes, FS_Product
    <2> QED
      BY <2>1, <2>3, FS_Subset
  <1>5. Cardinality(Wanted) \in Nat
    BY <1>4, FS_CardinalityType
  <1>6. (Cardinality(Writer) + 2) * Initial \in Nat
    BY Sizes
  <1>7. /\ active \in Nat /\ hand \in Nat /\ need \in Nat
        /\ active' \in Nat /\ hand' \in Nat /\ need' \in Nat
    BY DEF CountInv, TypeOK
  <1>8. active + hand + need + Cardinality(Wanted) <= (Cardinality(Writer) + 2) * Initial
    BY DEF WorkersBounded
  <1>9. active' + hand' + need' + Cardinality(Wanted) <= (Cardinality(Writer) + 2) * Initial
    <2>1. \A a, b, n \in Nat : a + b + n \in Nat
      OBVIOUS
    <2>2. PICK a \in Nat : a = active' + hand' + need'
      BY <1>7, <2>1, Zenon
    <2>3. PICK b \in Nat : b = active + hand + need
      BY <1>7, <2>1, Zenon
    <2>4. PICK n \in Nat : n = Cardinality(Wanted)
      BY <1>5, Zenon
    <2>5. PICK m \in Nat : m = (Cardinality(Writer) + 2) * Initial
      BY <1>6, Zenon
    <2>6. a <= b
      BY <2>2, <2>3, Zenon
    <2>7. b + n <= m
      BY <1>8, <2>3, <2>4, <2>5, Zenon
    <2>8. a + n <= m
      BY ONLY a \in Nat, b \in Nat, n \in Nat, m \in Nat, <2>6, <2>7
    <2> QED
      BY <2>2, <2>4, <2>5, <2>8, Zenon
  <1> QED
    BY <1>2, <1>3, <1>9 DEF WorkersBounded

\* Write: a look at activeWorkers makes room for the difference to the maximum,
\* and from then on the writer asks for less.
LEMMA WriteBounded ==
  ASSUME CountInv, CountInv', WorkersBounded, NEW w \in Writer, Write(w)
  PROVE  WorkersBounded'
  <1> USE DEF CountInv
  <1>1. /\ wpc \in [Writer -> {"idle", "queue", "load", "compare", "extra", "need"}]
        /\ num \in [Writer -> Nat] /\ active \in Nat /\ need \in Nat /\ queue \in Int
        /\ Pending(w) \in Nat /\ Pending(w) <= Initial /\ need <= Initial
    BY PendingType, QueueAssumption DEF TypeOK, WorkersBounded, AsksBounded, QueueAssumption
  <1>2. UNCHANGED <<active, hand>>
    BY DEF Write, WriteCall, WriteStopped, WriteQueue, WriteLoad, WriteCompare, WriteExtra,
           WriteNeed, masterVars
  <1>3. \A v \in Writer \ {w} : wpc'[v] = wpc[v] /\ num'[v] = num[v]
    BY <1>1 DEF Write, WriteCall, WriteStopped, WriteQueue, WriteLoad, WriteCompare, WriteExtra,
                WriteNeed, Return
  <1>4. ASSUME need' = need, Pending(w)' = 0
        PROVE  WorkersBounded'
    BY <1>1, <1>2, <1>3, <1>4, Sizes, WriterSize
  <1>5. CASE WriteCall(w) \/ WriteStopped(w) \/ WriteQueue(w)
    <2>1. need' = need /\ wpc'[w] \in {"idle", "queue", "load"}
      BY <1>1, <1>5 DEF WriteCall, WriteStopped, WriteQueue
    <2>2. Pending(w)' = 0
      BY <2>1 DEF Pending
    <2> QED
      BY <1>4, <2>1, <2>2
  <1>6. CASE WriteLoad(w)
    <2>1. need' = need /\ wpc'[w] = "compare" /\ num'[w] = active
      BY <1>1, <1>6 DEF WriteLoad
    <2>2. Pending(w)' = IF active < WorkersMax THEN WorkersMax - active ELSE 0
      BY <2>1 DEF Pending
    <2>3. CASE active < WorkersMax
      <3>1. Pending(w)' <= Initial /\ active + Pending(w)' <= Initial
        BY <1>1, <2>2, <2>3, Sizes
      <3> QED
        BY <1>1, <1>2, <1>3, <2>1, <3>1, WriterSize
    <2>4. CASE ~(active < WorkersMax)
      BY <1>4, <2>1, <2>2, <2>4
    <2> QED
      BY <2>3, <2>4
  <1>7. CASE WriteCompare(w)
    <2>1. CASE queue > num[w]
      <3>1. need' = need /\ wpc[w] = "compare" /\ wpc'[w] = "extra" /\ num'[w] = num[w]
        BY <1>1, <1>7, <2>1 DEF WriteCompare
      <3>2. Pending(w)' = Pending(w)
        BY <3>1 DEF Pending
      <3> QED
        BY <1>1, <1>2, <1>3, <3>1, <3>2, WriterSize
    <2>2. CASE ~(queue > num[w])
      <3>1. need' = need /\ wpc'[w] = "idle"
        BY <1>1, <1>7, <2>2 DEF WriteCompare, Return
      <3> QED
        BY <1>4, <3>1 DEF Pending
    <2> QED
      BY <2>1, <2>2
  <1>8. CASE WriteExtra(w)
    <2>1. CASE ExtraWorkers(w) > 0
      <3>1. /\ need' = need /\ wpc[w] = "extra" /\ wpc'[w] = "need"
            /\ num'[w] = ExtraWorkers(w)
        BY <1>1, <1>8, <2>1 DEF WriteExtra
      <3>2. Pending(w)' = ExtraWorkers(w)
        BY <3>1 DEF Pending
      <3>3. num[w] \in Nat /\ Pending(w) = IF num[w] < WorkersMax THEN WorkersMax - num[w] ELSE 0
        BY <1>1, <3>1 DEF Pending
      <3>4. ExtraWorkers(w) \in Int /\ ExtraWorkers(w) <= Pending(w)
        BY <1>1, <2>1, <3>3, Sizes DEF ExtraWorkers
      <3>5. Pending(w)' <= Initial /\ need' + Pending(w)' <= need + Pending(w)
        BY <1>1, <3>1, <3>2, <3>4, Sizes
      <3> QED
        BY <1>1, <1>2, <1>3, <3>1, <3>5, WriterSize
    <2>2. CASE ~(ExtraWorkers(w) > 0)
      <3>1. need' = need /\ wpc'[w] = "idle"
        BY <1>1, <1>8, <2>2 DEF WriteExtra, Return
      <3> QED
        BY <1>4, <3>1 DEF Pending
    <2> QED
      BY <2>1, <2>2
  <1>9. CASE WriteNeed(w)
    <2>1. wpc[w] = "need" /\ wpc'[w] = "idle" /\ need = 0 /\ need' = num[w]
      BY <1>1, <1>9 DEF WriteNeed, Return
    <2>2. Pending(w) = need' /\ Pending(w)' = 0
      BY <2>1 DEF Pending
    <2>3. need' <= Initial /\ Pending(w)' <= Initial /\ need' + Pending(w)' <= need + Pending(w)
      BY <1>1, <2>1, <2>2, Sizes
    <2> QED
      BY <1>2, <1>3, <2>3, WriterSize
  <1> QED
    BY <1>5, <1>6, <1>7, <1>8, <1>9 DEF Write

\* No step lets the pool outgrow its bound.
LEMMA NextBounded == CountInv /\ WorkersBounded /\ [Next]_vars => WorkersBounded'
  <1> SUFFICES ASSUME CountInv, WorkersBounded, [Next]_vars PROVE WorkersBounded'
    OBVIOUS
  <1>0. CountInv'
    BY NextCount
  <1>1. /\ active \in Nat /\ hand \in Nat /\ need \in Nat /\ hand <= Initial /\ need <= Initial
        /\ Initial \in Nat
    BY Sizes DEF CountInv, TypeOK, WorkersBounded, AsksBounded
  <1>2. CASE MasterTake
    <2>1. UNCHANGED writerVars /\ hand = 0 /\ hand' = need /\ need' = 0 /\ active' = active
      BY <1>2 DEF MasterTake
    <2> QED
      BY <1>0, <1>1, <2>1, OthersBounded
  <1>3. CASE MasterAdd
    <2>1. UNCHANGED writerVars /\ hand' = 0 /\ need' = need /\ active' = active + hand
      BY <1>3 DEF MasterAdd
    <2> QED
      BY <1>0, <1>1, <2>1, OthersBounded
  <1>4. CASE WorkerLeave
    <2>1. UNCHANGED <<writerVars, masterVars, need>> /\ active' = active - 1
      BY <1>4 DEF WorkerLeave
    <2> QED
      BY <1>0, <1>1, <2>1, OthersBounded DEF masterVars
  <1>5. ASSUME NEW w \in Writer, Write(w)
        PROVE  WorkersBounded'
    BY <1>0, <1>5, WriteBounded
  <1>6. ASSUME UNCHANGED <<writerVars, hand, need, active>>
        PROVE  WorkersBounded'
    BY <1>0, <1>1, <1>6, OthersBounded
  <1>7. CASE MasterSpawn
    BY <1>6, <1>7 DEF MasterSpawn, masterVars
  <1>8. CASE Worker
    <2>1. CASE WorkerTake \/ WorkerReply \/ WorkerIdle \/ WorkerStop
      BY <1>6, <2>1 DEF WorkerTake, WorkerReply, WorkerIdle, WorkerStop, masterVars
    <2>2. ASSUME NEW malformed \in BOOLEAN, WorkerSent(malformed)
          PROVE  WorkersBounded'
      BY <1>6, <2>2 DEF WorkerSent, masterVars
    <2> QED
      BY <1>4, <1>8, <2>1, <2>2 DEF Worker
  <1>9. CASE Read \/ ReadStopped \/ Close \/ UNCHANGED vars
    BY <1>6, <1>9 DEF Read, ReadStopped, Close, vars, masterVars
  <1> QED
    BY <1>2, <1>3, <1>5, <1>7, <1>8, <1>9 DEF Next

(***************************************************************************)
(* However stale the views of activeWorkers are that Write decides on, the *)
(* pool never has more workers than the number of writers plus two times   *)
(* the configured size, the ones that are asked for included.              *)
(***************************************************************************)
THEOREM PoolBounded == Spec => []WorkersBounded
  BY InitBounded, NextBounded, ActiveWorkersExact, PTL DEF Spec
-----------------------------------------------------------------------------
(* The middleware                                                            *)

\* The capacities are positive numbers.
LEMMA PositiveCaps == InputCap \in Nat \ {0} /\ PipeCap \in Nat \ {0} /\ DataCap \in Nat \ {0}
  BY LoopAssumption DEF LoopAssumption

\* The goroutine that copies from the middleware is one of the writers.
LEMMA EmitIsWriter == Emit \in Writer
  BY LoopAssumption DEF LoopAssumption, Emit

-----------------------------------------------------------------------------
(* Implementation of HTTPOutput                                              *)

\* With or without the middleware, a step is one of HTTPOutput's or is none of
\* its business.
LEMMA LoopStep == [LoopNext]_allVars => [Next]_vars
  <1> SUFFICES ASSUME [LoopNext]_allVars PROVE [Next]_vars
    OBVIOUS
  <1>1. CASE ~mw /\ Next /\ UNCHANGED midVars
    BY <1>1
  <1>2. CASE MasterTake \/ MasterAdd \/ MasterSpawn \/ Worker
    BY <1>2 DEF Next
  <1>3. CASE EmitWrites
    BY <1>3, EmitIsWriter DEF EmitWrites, Write, Next
  <1>4. CASE HTTPHandler
    BY <1>4 DEF HTTPHandler
  <1>5. ASSUME NEW c \in Copier, copy(c) PROVE [Next]_vars
    BY <1>5 DEF copy, CopyInput, CopyOutput, CopyLock, CopyWrite, Next
  <1>6. CASE read
    BY <1>6 DEF read
  <1>7. CASE EmitRequest
    BY <1>7, EmitIsWriter DEF EmitRequest, Write, Next
  <1>8. CASE EmitOther
    BY <1>8 DEF EmitOther
  <1>9. CASE UNCHANGED allVars
    BY <1>9 DEF allVars
  <1> QED
    BY <1>1, <1>2, <1>3, <1>4, <1>5, <1>6, <1>7, <1>8, <1>9 DEF LoopNext

(***************************************************************************)
(* The composition implements HTTPOutput: emitter.Start with a middleware  *)
(* calls Write and Read in no way that HTTPOutput does not allow for.      *)
(***************************************************************************)
THEOREM LoopImplementsPool == LoopSpec => Spec
  <1>1. LoopInit => Init
    BY DEF LoopInit
  <1> QED
    BY <1>1, LoopStep, PTL DEF LoopSpec, Spec

(***************************************************************************)
(* Hence activeWorkers is exact with a middleware, too.                    *)
(***************************************************************************)
THEOREM LoopCountExact == LoopSpec => []CountInv
  BY LoopImplementsPool, ActiveWorkersExact, PTL

-----------------------------------------------------------------------------
(* Type correctness                                                          *)

\* Everything starts empty.
LEMMA LoopInitType == LoopInit => LoopTypeOK
  BY PositiveCaps DEF LoopInit, LoopTypeOK

\* Every send finds room, and every receive finds an element.
LEMMA LoopNextType == LoopTypeOK /\ [LoopNext]_allVars => LoopTypeOK'
  <1> SUFFICES ASSUME LoopTypeOK, [LoopNext]_allVars PROVE LoopTypeOK'
    OBVIOUS
  <1> USE PositiveCaps
  <1>1. CASE UNCHANGED midVars
    BY <1>1 DEF midVars, LoopTypeOK
  <1>2. CASE HTTPHandler
    BY <1>2 DEF HTTPHandler, LoopTypeOK
  <1>3. ASSUME NEW c \in Copier, copy(c) PROVE LoopTypeOK'
    <2>1. CASE CopyInput
      <3>1. /\ idata > 0 /\ idata' = idata - 1
            /\ cpc' = [cpc EXCEPT !["input"] = "lock"]
            /\ UNCHANGED <<mw, pipe, data>>
        BY <2>1 DEF CopyInput
      <3>2. idata' \in 0 .. InputCap
        BY <3>1 DEF LoopTypeOK
      <3> QED
        BY <3>1, <3>2 DEF LoopTypeOK
    <2>2. CASE CopyOutput
      <3>1. /\ cpc' = [cpc EXCEPT !["output"] = "lock"]
            /\ UNCHANGED <<mw, idata, pipe, data>>
        BY <2>2 DEF CopyOutput
      <3> QED
        BY <3>1 DEF LoopTypeOK
    <2>3. CASE CopyLock(c)
      BY <2>3 DEF CopyLock, LoopTypeOK
    <2>4. ASSUME NEW passed \in BOOLEAN, CopyWrite(c, passed) PROVE LoopTypeOK'
      <3>1. pipe' \in Seq(Line) /\ Len(pipe') <= PipeCap
        BY <2>4 DEF CopyWrite, LoopTypeOK, Line
      <3> QED
        BY <2>4, <3>1 DEF CopyWrite, LoopTypeOK
    <2> QED
      BY <1>3, <2>1, <2>2, <2>3, <2>4 DEF copy
  <1>4. CASE read
    <2>1. Head(pipe) \in Line /\ Tail(pipe) \in Seq(Line) /\ Len(Tail(pipe)) <= PipeCap
      BY <1>4 DEF read, LoopTypeOK
    <2> QED
      BY <1>4, <2>1 DEF read, LoopTypeOK
  <1>5. CASE EmitRequest \/ EmitOther
    <2>1. Tail(data) \in Seq(Line) /\ Len(Tail(data)) <= DataCap
      BY <1>5 DEF EmitRequest, EmitOther, LoopTypeOK
    <2> QED
      BY <1>5, <2>1 DEF EmitRequest, EmitOther, LoopTypeOK
  <1>6. CASE UNCHANGED allVars
    BY <1>1, <1>6 DEF allVars
  <1> QED
    BY <1>1, <1>2, <1>3, <1>4, <1>5, <1>6 DEF LoopNext

\* No buffer of the middleware, the child or HTTPInput holds more than it can.
THEOREM LoopTypeCorrect == LoopSpec => []LoopTypeOK
  BY LoopInitType, LoopNextType, PTL DEF LoopSpec

(***************************************************************************)
(* LoopInv, for all capacities, pool sizes and numbers of writers: besides *)
(* the buffers, the pool stays within its bound, however stale the views   *)
(* of activeWorkers are on which the writers ask for workers.              *)
(***************************************************************************)
THEOREM LoopBounded == LoopSpec => []LoopInv
  BY LoopImplementsPool, PoolBounded, LoopTypeCorrect, PTL DEF LoopInv

-----------------------------------------------------------------------------
(* The jam                                                                   *)

\* In a jam all counters of workers but those at o.responses are zero.
LEMMA JamHasNoWorker ==
  ASSUME TypeOK, Jammed
  PROVE  idle = 0 /\ busy = 0 /\ spawn = 0 /\ hand = 0 /\ need = 0
  BY DEF TypeOK, Jammed

\* Steps of the pool: the only ones left are workers that had decided to leave.
LEMMA JamPool ==
  ASSUME TypeOK, Jammed, UNCHANGED midVars,
         MasterTake \/ MasterAdd \/ MasterSpawn \/ Worker \/ EmitWrites
  PROVE  Jammed'
  <1>1. idle = 0 /\ busy = 0 /\ spawn = 0 /\ hand = 0 /\ need = 0
    BY JamHasNoWorker
  <1>2. ~(MasterTake \/ MasterAdd \/ MasterSpawn)
    BY <1>1 DEF MasterTake, MasterAdd, MasterSpawn
  <1>3. ~EmitWrites
    BY QueueAssumption
    DEF QueueAssumption, Jammed, EmitWrites, WriteQueue, WriteLoad, WriteCompare, WriteExtra, WriteNeed
  <1>4. CASE Worker
    <2>1. WorkerLeave
      BY <1>1, <1>4, QueueAssumption
      DEF Worker, WorkerTake, WorkerSent, WorkerReply, WorkerIdle, WorkerStop, Jammed,
          QueueAssumption
    <2> QED
      BY <2>1 DEF WorkerLeave, Jammed, midVars, masterVars, writerVars
  <1> QED
    BY <1>2, <1>3, <1>4

\* Steps of the middleware: it can read one more request from the input.
LEMMA JamMiddleware ==
  ASSUME LoopTypeOK, Jammed,
         \/ HTTPHandler \/ (\E c \in Copier : copy(c)) \/ read
         \/ EmitRequest \/ EmitOther
  PROVE  Jammed'
  <1>0. ~(Len(pipe) < PipeCap) /\ ~(Len(data) < DataCap)
    <2>1. Len(pipe) = PipeCap /\ Len(data) = DataCap
      BY Zenon DEF Jammed
    <2> QED
      BY <2>1, PositiveCaps
  <1>1. CASE HTTPHandler
    BY <1>1 DEF HTTPHandler, Jammed, vars, masterVars, workerVars, writerVars
  <1>2. ASSUME NEW c \in Copier, copy(c) PROVE Jammed'
    <2>1. CASE CopyInput
      <3>1. cpc'["output"] = cpc["output"]
        BY <2>1 DEF CopyInput, LoopTypeOK, Copier
      <3>2. \E d \in Copier : cpc'[d] = "write"
        BY <2>1 DEF CopyInput, LoopTypeOK, Copier, Jammed
      <3> QED
        BY <2>1, <3>1, <3>2
        DEF CopyInput, Jammed, vars, masterVars, workerVars, writerVars
    <2>2. ~CopyOutput
      BY DEF CopyOutput, Jammed
    <2>3. ~CopyLock(c)
      BY DEF CopyLock, Jammed
    <2>4. \A passed \in BOOLEAN : ~CopyWrite(c, passed)
      BY <1>0 DEF CopyWrite
    <2> QED
      BY <1>2, <2>1, <2>2, <2>3, <2>4 DEF copy
  <1>3. ~read
    BY <1>0 DEF read
  <1>4. ~EmitRequest /\ ~EmitOther
    BY DEF EmitRequest, EmitOther, WriteCall, Jammed
  <1> QED
    BY <1>1, <1>2, <1>3, <1>4

(***************************************************************************)
(* For all capacities, numbers of workers and interleavings, the emitter   *)
(* does not come out of a jam by itself.                                   *)
(***************************************************************************)
THEOREM JamForever == LoopSpec => JamIsFinal
  <1>1. CountInv /\ LoopTypeOK /\ [LoopNext]_allVars => [Jammed => Jammed']_allVars
    <2> SUFFICES ASSUME TypeOK, LoopTypeOK, LoopNext, Jammed PROVE Jammed'
      BY DEF CountInv
    <2>1. mw
      BY DEF Jammed
    <2> QED
      BY <2>1, JamPool, JamMiddleware DEF LoopNext
  <1> QED
    BY <1>1, LoopCountExact, LoopTypeCorrect, PTL DEF LoopSpec, JamIsFinal
=============================================================================

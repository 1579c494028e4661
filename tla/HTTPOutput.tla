----------------------------- MODULE HTTPOutput ----------------------------
(***************************************************************************)
(* The worker pool of HTTPOutput (output_http.go), without TCP sessions:   *)
(* Write, workerMaster, startWorker, sendRequest, Read and Close.          *)
(*                                                                         *)
(* Several copy goroutines call Write at the same time.  Write queues the  *)
(* request and then compares the length of the queue with activeWorkers;   *)
(* the loads of the two, and the request for more workers they lead to,    *)
(* are separate steps, and so are a worker's look at activeWorkers when it *)
(* has been idle for two seconds and its decrement of that counter.        *)
(* Requests and workers are interchangeable here: the model counts them.   *)
(***************************************************************************)
EXTENDS Integers, FiniteSets

CONSTANTS
    Writer,          \* copy goroutines that call Write
    QueueLen,        \* --output-http-queue-len, capacity of queue and responses
    WorkersMin,      \* --output-http-workers-min
    WorkersMax,      \* --output-http-workers
    InitialDynamic,  \* initialDynamicWorkers (10)
    TrackResponses   \* --output-http-track-response

ASSUME WorkersAssumption ==
    /\ WorkersMin \in Nat /\ WorkersMax \in Nat /\ InitialDynamic \in Nat \ {0}
ASSUME QueueAssumption ==
    QueueLen \in Nat \ {0} /\ TrackResponses \in BOOLEAN /\ IsFiniteSet(Writer)

Dynamic == WorkersMin # WorkersMax
Initial == IF WorkersMax = 0 THEN InitialDynamic ELSE WorkersMax

VARIABLES
    stop,       \* o.stop is closed
    queue,      \* requests in o.queue
    responses,  \* responses in o.responses
    need,       \* the number in o.needWorker, 0 if that channel is empty
    active,     \* o.activeWorkers
    hand,       \* the number workerMaster has received and not yet added
    spawn,      \* workers it has added and not yet started
    idle,       \* workers in their select
    busy,       \* workers in client.Send
    replying,   \* workers at o.responses <-
    leaving,    \* workers that have decided to die, before the decrement
    wpc,        \* control point of each writer
    num,        \* workersCount, later extraWorkersReq, of each writer
    reading     \* the goroutine that loops on Read has not seen stop

workerVars == <<idle, busy, replying, leaving>>
masterVars == <<hand, spawn>>
writerVars == <<wpc, num>>
vars == <<stop, queue, responses, need, active, masterVars, workerVars,
          writerVars, reading>>

TypeOK ==
    /\ stop \in BOOLEAN /\ reading \in BOOLEAN
    /\ queue \in 0 .. QueueLen /\ responses \in 0 .. QueueLen
    /\ need \in Nat /\ active \in Nat /\ hand \in Nat /\ spawn \in Nat
    /\ idle \in Nat /\ busy \in Nat /\ replying \in Nat /\ leaving \in Nat
    /\ wpc \in [Writer -> {"idle", "queue", "load", "compare", "extra", "need"}]
    /\ num \in [Writer -> Nat]

\* NewHTTPOutput: the initial number of workers is the first request for some.
Init ==
    /\ stop = FALSE /\ reading = TRUE
    /\ queue = 0 /\ responses = 0
    /\ need = Initial /\ active = 0 /\ hand = 0 /\ spawn = 0
    /\ idle = 0 /\ busy = 0 /\ replying = 0 /\ leaving = 0
    /\ wpc = [w \in Writer |-> "idle"]
    /\ num = [w \in Writer |-> 0]

-----------------------------------------------------------------------------
(* workerMaster                                                              *)

MasterTake ==
    /\ need > 0 /\ hand = 0 /\ spawn = 0
    /\ hand' = need
    /\ need' = 0
    /\ UNCHANGED <<stop, queue, responses, active, spawn, workerVars, writerVars, reading>>

MasterAdd ==
    /\ hand > 0
    /\ active' = active + hand
    /\ spawn' = hand
    /\ hand' = 0
    /\ UNCHANGED <<stop, queue, responses, need, workerVars, writerVars, reading>>

\* Mutant: a worker is counted when it starts, too.
MasterSpawnCounts ==
    /\ spawn > 0
    /\ spawn' = spawn - 1
    /\ idle' = idle + 1 /\ active' = active + 1
    /\ UNCHANGED <<stop, queue, responses, need, hand, busy, replying,
                   leaving, writerVars, reading>>

MasterSpawn ==
    /\ spawn > 0
    /\ spawn' = spawn - 1
    /\ idle' = idle + 1
    /\ UNCHANGED <<stop, queue, responses, need, active, hand, busy, replying,
                   leaving, writerVars, reading>>

-----------------------------------------------------------------------------
(* startWorker and sendRequest                                               *)

WorkerTake ==
    /\ idle > 0 /\ queue > 0
    /\ queue' = queue - 1
    /\ idle' = idle - 1 /\ busy' = busy + 1
    /\ UNCHANGED <<stop, responses, need, active, masterVars, replying, leaving,
                   writerVars, reading>>

\* client.Send returned, with an answer or an error, or the request was malformed
\* and not sent: only then is nothing reported although responses are tracked.
WorkerSent(malformed) ==
    /\ busy > 0
    /\ busy' = busy - 1
    /\ IF TrackResponses /\ ~malformed
       THEN replying' = replying + 1 /\ idle' = idle
       ELSE replying' = replying /\ idle' = idle + 1
    /\ UNCHANGED <<stop, queue, responses, need, active, masterVars, leaving,
                   writerVars, reading>>

WorkerReply ==
    /\ replying > 0 /\ responses < QueueLen
    /\ responses' = responses + 1
    /\ replying' = replying - 1 /\ idle' = idle + 1
    /\ UNCHANGED <<stop, queue, need, active, masterVars, busy, leaving,
                   writerVars, reading>>

\* Two seconds without work.
MayDie == active # 1 /\ active > WorkersMin

WorkerIdle ==
    /\ Dynamic
    /\ idle > 0 /\ MayDie
    /\ idle' = idle - 1 /\ leaving' = leaving + 1
    /\ UNCHANGED <<stop, queue, responses, need, active, masterVars, busy,
                   replying, writerVars, reading>>

WorkerLeave ==
    /\ leaving > 0
    /\ leaving' = leaving - 1
    /\ active' = active - 1
    /\ UNCHANGED <<stop, queue, responses, need, masterVars, idle, busy,
                   replying, writerVars, reading>>

\* A worker that sees stop returns without touching activeWorkers.
WorkerStop ==
    /\ stop /\ idle > 0
    /\ idle' = idle - 1
    /\ UNCHANGED <<stop, queue, responses, need, active, masterVars, busy,
                   replying, leaving, writerVars, reading>>

Worker ==
    \/ WorkerTake \/ (\E malformed \in BOOLEAN : WorkerSent(malformed))
    \/ WorkerReply \/ WorkerIdle \/ WorkerLeave \/ WorkerStop

-----------------------------------------------------------------------------
(* Write (of a request: anything else is ignored), Read and Close            *)

WriteCall(w) ==
    /\ wpc[w] = "idle"
    /\ wpc' = [wpc EXCEPT ![w] = "queue"]
    /\ UNCHANGED <<stop, queue, responses, need, active, masterVars, workerVars, num, reading>>

WriteStopped(w) ==
    /\ wpc[w] = "queue" /\ stop
    /\ wpc' = [wpc EXCEPT ![w] = "idle"]
    /\ UNCHANGED <<stop, queue, responses, need, active, masterVars, workerVars, num, reading>>

WriteQueue(w) ==
    /\ wpc[w] = "queue" /\ queue < QueueLen
    /\ queue' = queue + 1
    /\ wpc' = [wpc EXCEPT ![w] = IF Dynamic THEN "load" ELSE "idle"]
    /\ UNCHANGED <<stop, responses, need, active, masterVars, workerVars, num, reading>>

WriteLoad(w) ==
    /\ wpc[w] = "load"
    /\ num' = [num EXCEPT ![w] = active]
    /\ wpc' = [wpc EXCEPT ![w] = "compare"]
    /\ UNCHANGED <<stop, queue, responses, need, active, masterVars, workerVars, reading>>

\* Write returns, and its local variables are gone.
Return(w) ==
    /\ wpc' = [wpc EXCEPT ![w] = "idle"]
    /\ num' = [num EXCEPT ![w] = 0]

WriteCompare(w) ==
    /\ wpc[w] = "compare"
    /\ IF queue > num[w]
       THEN wpc' = [wpc EXCEPT ![w] = "extra"] /\ num' = num
       ELSE Return(w)
    /\ UNCHANGED <<stop, queue, responses, need, active, masterVars, workerVars, reading>>

\* Mutant: the maximum is not looked at.
ExtraWorkersUncapped(w) == queue - num[w] + 1

\* extraWorkersReq, computed from a second look at the queue's length.
ExtraWorkers(w) ==
    LET extraReq == queue - num[w] + 1
        available == WorkersMax - num[w]
    IN IF extraReq > available THEN available ELSE extraReq

WriteExtra(w) ==
    /\ wpc[w] = "extra"
    /\ IF ExtraWorkers(w) > 0
       THEN /\ num' = [num EXCEPT ![w] = ExtraWorkers(w)]
            /\ wpc' = [wpc EXCEPT ![w] = "need"]
       ELSE Return(w)
    /\ UNCHANGED <<stop, queue, responses, need, active, masterVars, workerVars, reading>>

WriteNeed(w) ==
    /\ wpc[w] = "need" /\ need = 0
    /\ need' = num[w]
    /\ Return(w)
    /\ UNCHANGED <<stop, queue, responses, active, masterVars, workerVars, reading>>

Write(w) ==
    \/ WriteCall(w) \/ WriteStopped(w) \/ WriteQueue(w) \/ WriteLoad(w)
    \/ WriteCompare(w) \/ WriteExtra(w) \/ WriteNeed(w)

\* Mutant: the goroutine that reads ends after a response.
ReadOnce ==
    /\ reading /\ responses > 0
    /\ responses' = responses - 1 /\ reading' = FALSE
    /\ UNCHANGED <<stop, queue, need, active, masterVars, workerVars, writerVars>>

Read ==
    /\ reading /\ responses > 0
    /\ responses' = responses - 1
    /\ UNCHANGED <<stop, queue, need, active, masterVars, workerVars, writerVars, reading>>

ReadStopped ==
    /\ reading /\ stop
    /\ reading' = FALSE
    /\ UNCHANGED <<stop, queue, responses, need, active, masterVars, workerVars, writerVars>>

Close ==
    /\ ~stop
    /\ stop' = TRUE
    /\ UNCHANGED <<queue, responses, need, active, masterVars, workerVars,
                   writerVars, reading>>

-----------------------------------------------------------------------------
Next ==
    \/ MasterTake \/ MasterAdd \/ MasterSpawn
    \/ Worker
    \/ \E w \in Writer : Write(w)
    \/ Read \/ ReadStopped \/ Close

Spec == Init /\ [][Next]_vars

(***************************************************************************)
(* Goroutines that can run do run, client.Send returns (it has a timeout), *)
(* and goroutines blocked on the same channel are served in the order they *)
(* came, hence SF.  Nothing forces a Write, a two-second pause or Close.   *)
(***************************************************************************)
PoolFairness ==
    /\ WF_vars(MasterTake \/ MasterAdd \/ MasterSpawn)
    /\ WF_vars(WorkerTake) /\ WF_vars(\E malformed \in BOOLEAN : WorkerSent(malformed))
    /\ SF_vars(WorkerReply) /\ WF_vars(WorkerLeave) /\ WF_vars(WorkerStop)
    /\ \A w \in Writer : SF_vars(wpc[w] # "idle" /\ Write(w))

-----------------------------------------------------------------------------
(* Properties                                                                *)

Alive == idle + busy + replying + leaving

(***************************************************************************)
(* activeWorkers, which every scaling decision rests on, does not drift:   *)
(* until Close it counts the workers that are there or being started, in   *)
(* whatever order starts, deaths and looks at it interleave, and it never  *)
(* falls below that number, although workers that Close ends stay counted. *)
(***************************************************************************)
CountIsExact ==
    /\ active >= Alive + spawn
    /\ ~stop => active = Alive + spawn

(***************************************************************************)
(* Why it does not drift: workerMaster takes a new number only when it has *)
(* started the workers of the last one; otherwise MasterAdd would forget   *)
(* some that are counted already.                                          *)
(***************************************************************************)
CountInv == TypeOK /\ CountIsExact /\ (hand > 0 => spawn = 0)

\* The workers that a writer has room for in its view of activeWorkers, or that
\* it is about to ask for.
Pending(w) ==
    CASE wpc[w] \in {"compare", "extra"} -> IF num[w] < WorkersMax THEN WorkersMax - num[w] ELSE 0
      [] wpc[w] = "need" -> num[w]
      [] OTHER -> 0

\* One pair for each of them.
Wanted == UNION {{w} \X (1 .. Pending(w)) : w \in Writer}

\* No one ever asks for more workers than the pool may have in the end.
AsksBounded ==
    /\ hand <= Initial /\ need <= Initial
    /\ \A w \in Writer : Pending(w) <= Initial

(***************************************************************************)
(* How far stale views of activeWorkers can push the pool: the workers, the *)
(* two requests on their way through needWorker and workerMaster, and what *)
(* each writer may still ask for, stay within the number of writers plus   *)
(* two times the configured size.                                          *)
(***************************************************************************)
WorkersBounded ==
    /\ AsksBounded
    /\ active + hand + need + Cardinality(Wanted) <= (Cardinality(Writer) + 2) * Initial

\* There is a worker, or one is being started or asked for.
Staffed == Alive + spawn + hand + need > 0
=============================================================================

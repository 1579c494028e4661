--------------------------- MODULE MiddlewareLoop --------------------------
(***************************************************************************)
(* HTTPOutput in its surroundings.  Without a middleware, copy goroutines  *)
(* call Write and another one loops on Read.  With --middleware            *)
(* (middleware.go) there is one copy goroutine, which reads what a child   *)
(* process gives back, and goroutines that write to the child's stdin, in  *)
(* turn, what an HTTPInput (input_http.go) and HTTPOutput.Read give them:  *)
(* responses go round through the child to the goroutine that queues the   *)
(* requests.  All of this is bounded: channels, pipes, the queue.          *)
(*                                                                         *)
(* A line is a request or something else, which HTTPOutput.Write ignores.  *)
(* The child and its pipes are a queue of lines; the child is a filter     *)
(* that writes each line it reads, or none for it, before it reads on.  A  *)
(* request that cannot be prettified becomes an empty line, which no one   *)
(* looks at: it counts as one the child kept.  With the middleware the     *)
(* model runs until the emitter is closed, whose life cycle is Emitter's.  *)
(***************************************************************************)
EXTENDS HTTPOutput, Sequences

CONSTANTS
    Middleware,  \* with --middleware, or without it
    InputCap,    \* capacity of HTTPInput.data (1000)
    PipeCap,     \* lines that the child, its pipes and Middleware.read hold
    DataCap      \* capacity of Middleware.data (1000)

ASSUME LoopAssumption ==
    /\ Middleware \subseteq BOOLEAN /\ Writer # {}
    /\ {InputCap, PipeCap, DataCap} \subseteq Nat \ {0}

Copier == {"input", "output"}   \* what Middleware.copy reads from
Line == {"request", "other"}
Emit == CHOOSE w \in Writer : TRUE   \* CopyMulty of the middleware

VARIABLES
    mw,       \* --middleware is given
    idata,    \* requests in HTTPInput.data
    cpc,      \* copy: control point of each copier
    pipe,     \* lines on their way from copy through the child to m.data
    data      \* m.data

midVars == <<mw, idata, cpc, pipe, data>>
allVars == <<vars, midVars>>

LoopTypeOK ==
    /\ mw \in Middleware /\ idata \in 0 .. InputCap
    /\ cpc \in [Copier -> {"read", "lock", "write"}]
    /\ pipe \in Seq(Line) /\ Len(pipe) <= PipeCap
    /\ data \in Seq(Line) /\ Len(data) <= DataCap

\* NewHTTPInput, NewMiddleware, ReadFrom
LoopInit ==
    /\ Init
    /\ mw \in Middleware /\ idata = 0
    /\ cpc = [c \in Copier |-> "read"]
    /\ pipe = <<>> /\ data = <<>>

-----------------------------------------------------------------------------
(* HTTPInput                                                                 *)

\* The server has got a request, answers it, and has room for it.
HTTPHandler ==
    /\ idata < InputCap
    /\ idata' = idata + 1
    /\ UNCHANGED <<vars, mw, cpc, pipe, data>>

-----------------------------------------------------------------------------
(* Middleware.copy: one for the input, one for the responses of the output   *)

CopyInput ==
    /\ cpc["input"] = "read" /\ idata > 0
    /\ idata' = idata - 1
    /\ cpc' = [cpc EXCEPT !["input"] = "lock"]
    /\ UNCHANGED <<vars, mw, pipe, data>>

CopyOutput ==
    /\ cpc["output"] = "read" /\ Read
    /\ cpc' = [cpc EXCEPT !["output"] = "lock"]
    /\ UNCHANGED <<mw, idata, pipe, data>>

CopyLock(c) ==
    /\ cpc[c] = "lock" /\ \A d \in Copier : cpc[d] # "write"
    /\ cpc' = [cpc EXCEPT ![c] = "write"]
    /\ UNCHANGED <<vars, mw, idata, pipe, data>>

\* The line fits into the pipe, if need be because the child has read another.
CopyWrite(c, passed) ==
    /\ cpc[c] = "write" /\ Len(pipe) < PipeCap
    /\ pipe' = IF passed THEN Append(pipe, IF c = "input" THEN "request" ELSE "other") ELSE pipe
    /\ cpc' = [cpc EXCEPT ![c] = "read"]
    /\ UNCHANGED <<vars, mw, idata, data>>

copy(c) ==
    \/ c = "input" /\ CopyInput
    \/ c = "output" /\ CopyOutput
    \/ CopyLock(c)
    \/ \E passed \in BOOLEAN : CopyWrite(c, passed)

-----------------------------------------------------------------------------
(* Middleware.read                                                           *)

\* Mutant: a line is dropped when the channel is full.
readOrDrop ==
    /\ pipe # <<>>
    /\ pipe' = Tail(pipe)
    /\ data' = IF Len(data) < DataCap THEN Append(data, Head(pipe)) ELSE data
    /\ UNCHANGED <<vars, mw, idata, cpc>>

\* It reads a line and blocks until m.data has room for it.
read ==
    /\ pipe # <<>> /\ Len(data) < DataCap
    /\ pipe' = Tail(pipe)
    /\ data' = Append(data, Head(pipe))
    /\ UNCHANGED <<vars, mw, idata, cpc>>

-----------------------------------------------------------------------------
(* CopyMulty on the middleware: Middleware.Read, HTTPOutput.Write            *)

EmitRequest ==
    /\ data # <<>> /\ Head(data) = "request"
    /\ WriteCall(Emit)
    /\ data' = Tail(data)
    /\ UNCHANGED <<mw, idata, cpc, pipe>>

EmitOther ==
    /\ wpc[Emit] = "idle" /\ data # <<>> /\ Head(data) = "other"
    /\ data' = Tail(data)
    /\ UNCHANGED <<vars, mw, idata, cpc, pipe>>

EmitWrites ==
    \/ WriteQueue(Emit) \/ WriteLoad(Emit) \/ WriteCompare(Emit)
    \/ WriteExtra(Emit) \/ WriteNeed(Emit)

-----------------------------------------------------------------------------
LoopNext ==
    \/ ~mw /\ Next /\ UNCHANGED midVars
    \/ /\ mw
       /\ MasterTake \/ MasterAdd \/ MasterSpawn \/ Worker \/ EmitWrites
       /\ UNCHANGED midVars
    \/ mw /\ HTTPHandler
    \/ mw /\ \E c \in Copier : copy(c)
    \/ mw /\ read
    \/ mw /\ (EmitRequest \/ EmitOther)

LoopSpec == LoopInit /\ [][LoopNext]_allVars

(***************************************************************************)
(* As in HTTPOutput.  The goroutines of the middleware run when they can,  *)
(* the mutex is handed on in turn, and the child reads and writes as long  *)
(* as its pipes allow.  Requests, Close and the death of idle workers are  *)
(* never forced.                                                           *)
(***************************************************************************)
LoopFairness ==
    /\ PoolFairness
    /\ WF_allVars(~mw /\ Read /\ UNCHANGED midVars)
    /\ \A c \in Copier : SF_allVars(mw /\ copy(c))
    /\ WF_allVars(mw /\ read)
    /\ WF_allVars(mw /\ (EmitRequest \/ EmitOther))

LoopFairSpec == LoopSpec /\ LoopFairness

-----------------------------------------------------------------------------
(* Properties                                                                *)

(***************************************************************************)
(* The pool keeps within its bound also when a single goroutine feeds it   *)
(* through the middleware, and no buffer holds more than its capacity.     *)
(***************************************************************************)
LoopInv == LoopTypeOK /\ WorkersBounded

(***************************************************************************)
(* Everyone waits for the next one: CopyMulty for room in the queue, the   *)
(* workers for room among the responses, their reader for the child's      *)
(* stdin or for the other copier, which waits for it, too, the child for   *)
(* its stdout to be read, and that reader for CopyMulty.                   *)
(***************************************************************************)
Jammed ==
    /\ mw /\ wpc[Emit] = "queue" /\ queue = QueueLen
    /\ idle + busy + spawn + hand + need = 0 /\ replying > 0
    /\ responses = QueueLen /\ cpc["output"] # "read"
    /\ (\E c \in Copier : cpc[c] = "write") /\ Len(pipe) = PipeCap
    /\ Len(data) = DataCap

(***************************************************************************)
(* Nothing but shutting down resolves that: the middleware's mutex is held *)
(* while its stdin is full, and no goroutine has a timeout or drops lines. *)
(***************************************************************************)
JamIsFinal == [][Jammed => Jammed']_allVars

(***************************************************************************)
(* A queued request is taken by a worker: unless Close, a jam, and unless  *)
(* all idle workers have left at once, the queue does not stay filled for  *)
(* ever without workers taking from it for ever.                           *)
(***************************************************************************)
QueueServed ==
    <>[](queue > 0 /\ Staffed /\ ~stop /\ ~Jammed) => []<><<WorkerTake>>_vars

(***************************************************************************)
(* Write returns, although it blocks on a full queue and on needWorker,    *)
(* while workers die and are started and their responses go round through  *)
(* the child, as long as some workers are left.  The jam is the only way   *)
(* for all those bounded buffers to wait for each other.                   *)
(***************************************************************************)
WritesReturn ==
    \A w \in Writer :
        wpc[w] # "idle" ~> wpc[w] = "idle" \/ ~Staffed \/ Jammed

(***************************************************************************)
(* Both together: what the emitter gives to HTTPOutput.Write is accepted,  *)
(* and then taken by a worker.                                             *)
(***************************************************************************)
LoopLive == QueueServed /\ WritesReturn
=============================================================================

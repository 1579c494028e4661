------------------------------ MODULE CopyMulty ----------------------------
(***************************************************************************)
(* The data path of the emitter: CopyMulty (emitter.go), one goroutine per *)
(* source, each with its own round-robin index, its own table of filtered  *)
(* requests and its own clean-up clock.                                    *)
(*                                                                         *)
(* A source delivers the requests and the responses of HTTP exchanges.     *)
(* The id of a payload names the TCP connection it was seen on, so the     *)
(* exchanges of one connection share it; `asked` is the environment's      *)
(* record of the requests of a connection whose responses are to come.     *)
(* Ages are counted in ticks and stop at TTL + 1, which stands for any     *)
(* longer time; only i % 1000 matters of the loop counter i.               *)
(***************************************************************************)
EXTENDS Integers, Sequences

CONSTANTS
    Source,       \* copy goroutines
    NWriters,     \* len(writers)
    Id,           \* connections
    SplitOutput,  \* the cases considered: TRUE, --split-output is set, and FALSE
    Modifier,     \* TRUE: an HTTP modifier is configured, so requests may be filtered
    Prettify,     \* TRUE: --prettify-http, which drops what it cannot decode
    WriteErrors,  \* TRUE: a writer may return an error
    Losses,       \* TRUE: the capture may miss a response
    MaxAsked,     \* exchanges a connection may have under way (1: no pipelining)
    MaxPayloads,  \* bound on the payloads a source delivers
    TTL,          \* 60 seconds
    Period        \* 1000 iterations

ASSUME SizeAssumption ==
    /\ NWriters \in Nat \ {0} /\ MaxAsked \in Nat \ {0} /\ MaxPayloads \in Nat
    /\ TTL \in Nat /\ Period \in Nat \ {0}
ASSUME ModeAssumption ==
    /\ SplitOutput \subseteq BOOLEAN /\ Modifier \in BOOLEAN /\ Prettify \in BOOLEAN
    /\ WriteErrors \in BOOLEAN /\ Losses \in BOOLEAN

Writer == 0 .. NWriters - 1
Age == 0 .. TTL + 1
Absent == TTL + 2       \* no entry in the table

VARIABLES
    split,     \* Settings.SplitOutput: round robin instead of every writer
    pc,        \* "read", "write" or "end" (CopyMulty has returned)
    pos,       \* the writer that gets the current payload next
    wIndex,    \* round-robin index
    filtered,  \* filteredRequests: the age of the entry of each id
    lastClean, \* time since filteredRequestsLastCleanTime
    i,         \* loop counter modulo Period
    asked,     \* per connection, requests without response: rejected?, age
    lost,      \* connections on which the capture has missed a response
    count,     \* payloads each writer has got from each source
    reads,     \* payloads the source has delivered
    verdict    \* "right" or "wrong": did the last response share its request's fate

vars == <<split, pc, pos, wIndex, filtered, lastClean, i, asked, lost, count,
          reads, verdict>>

Exchange == [rejected : BOOLEAN, age : Age]

TypeOK ==
    /\ split \in SplitOutput
    /\ pc \in [Source -> {"read", "write", "end"}]
    /\ pos \in [Source -> Writer]
    /\ wIndex \in [Source -> Writer]
    /\ filtered \in [Source -> [Id -> Age \cup {Absent}]]
    /\ lastClean \in [Source -> Age]
    /\ i \in [Source -> 0 .. Period - 1]
    /\ asked \in [Source -> [Id -> Seq(Exchange)]]
    /\ lost \in [Source -> SUBSET Id]
    /\ count \in [Source -> [Writer -> Nat]]
    /\ reads \in [Source -> 0 .. MaxPayloads]
    /\ verdict \in [Source -> {"right", "wrong"}]

Init ==
    /\ split \in SplitOutput
    /\ pc = [s \in Source |-> "read"]
    /\ pos = [s \in Source |-> 0]
    /\ wIndex = [s \in Source |-> 0]
    /\ filtered = [s \in Source |-> [d \in Id |-> Absent]]
    /\ lastClean = [s \in Source |-> 0]
    /\ i = [s \in Source |-> 0]
    /\ asked = [s \in Source |-> [d \in Id |-> <<>>]]
    /\ lost = [s \in Source |-> {}]
    /\ count = [s \in Source |-> [w \in Writer |-> 0]]
    /\ reads = [s \in Source |-> 0]
    /\ verdict = [s \in Source |-> "right"]

-----------------------------------------------------------------------------
(* The loop body                                                             *)

\* The end of an iteration that was not cut short by `continue`: every 1000th
\* time, and if a minute has passed since the last time, old entries go.
Collects(s) == i[s] = 0 /\ lastClean[s] > TTL

Finish(s) ==
    /\ IF Collects(s)
       THEN /\ filtered' = [filtered EXCEPT ![s] =
                  [d \in Id |-> IF @[d] = TTL + 1 THEN Absent ELSE @[d]]]
            /\ lastClean' = [lastClean EXCEPT ![s] = 0]
       ELSE UNCHANGED <<filtered, lastClean>>
    /\ i' = [i EXCEPT ![s] = (@ + 1) % Period]

Deliver(s) ==
    /\ pc[s] = "read" /\ reads[s] < MaxPayloads
    /\ reads' = [reads EXCEPT ![s] = @ + 1]
    /\ UNCHANGED <<split, wIndex, lost, count>>

\* A payload that goes on to the writers: one of them, or all in turn.
Forward(s) ==
    /\ pc' = [pc EXCEPT ![s] = "write"]
    /\ pos' = [pos EXCEPT ![s] = IF split THEN wIndex[s] ELSE 0]

Skip == UNCHANGED <<pc, pos>>

Ask(s, d, rejected) ==
    /\ Len(asked[s][d]) < MaxAsked
    /\ asked' = [asked EXCEPT ![s][d] =
                    Append(@, [rejected |-> rejected, age |-> 0])]

\* A request that the modifier rejects is remembered and skipped.
RequestFiltered(s, d) ==
    /\ Deliver(s) /\ Modifier
    /\ filtered' = [filtered EXCEPT ![s][d] = 0]
    /\ Ask(s, d, TRUE)
    /\ Skip
    /\ UNCHANGED <<lastClean, i, verdict>>

\* prettifyHTTP returns nothing for a gzip body it cannot decode, and what it
\* returns nothing for is skipped without a trace.
Undecodable == IF Prettify THEN BOOLEAN ELSE {FALSE}

RequestPasses(s, d, bad) ==
    /\ Deliver(s)
    /\ Ask(s, d, FALSE)
    /\ IF bad THEN Skip ELSE Forward(s)
    /\ UNCHANGED <<filtered, lastClean, i, verdict>>

\* Was it right to filter (hit), or not to filter, the response to request x?
Verdict(x, hit) ==
    IF x.rejected = hit \/ (x.rejected /\ x.age = TTL + 1)
    THEN "right" ELSE "wrong"

\* Mutant: the entry of a filtered request is not deleted with its response.
TableAfterKept(s, d) == filtered[s]

\* The entry that filters a response goes with it.
TableAfter(s, d) == [filtered[s] EXCEPT ![d] = Absent]

\* A response is skipped if its id is in the table, and takes the entry along.
Response(s, d, bad) ==
    LET hit == Modifier /\ filtered[s][d] # Absent IN
    /\ Deliver(s) /\ asked[s][d] # <<>>
    /\ asked' = [asked EXCEPT ![s][d] = Tail(@)]
    /\ verdict' = [verdict EXCEPT ![s] =
           IF d \in lost[s] THEN @ ELSE Verdict(Head(asked[s][d]), hit)]
    /\ filtered' = IF hit THEN [filtered EXCEPT ![s] = TableAfter(s, d)] ELSE filtered
    /\ IF hit \/ bad THEN Skip ELSE Forward(s)
    /\ UNCHANGED <<lastClean, i>>

\* A record without a proper header is skipped.
Malformed(s) ==
    /\ Deliver(s)
    /\ Skip
    /\ UNCHANGED <<filtered, lastClean, i, asked, verdict>>

\* Read failed, or the stop channel is closed: CopyMulty returns.
ReadEnds(s) ==
    /\ pc[s] = "read"
    /\ pc' = [pc EXCEPT ![s] = "end"]
    /\ UNCHANGED <<split, pos, wIndex, filtered, lastClean, i, asked, lost, count,
                   reads, verdict>>

\* Read returned no bytes (a limiter dropped the payload): no `continue` here.
ReadEmpty(s) ==
    /\ Deliver(s)
    /\ Finish(s)
    /\ Skip
    /\ UNCHANGED <<asked, verdict>>

\* Mutant: the index is reset one writer too early.
NextIndexEarly(w) == IF w + 1 >= NWriters - 1 THEN 0 ELSE w + 1

NextIndex(w) == IF w + 1 >= NWriters THEN 0 ELSE w + 1

\* The writer that ends the iteration.
LastWriter(w) == split \/ w = NWriters - 1

\* One writer accepts the payload; after the last one the iteration ends.
Write(s) ==
    LET w == pos[s] IN
    /\ pc[s] = "write"
    /\ count' = [count EXCEPT ![s][w] = @ + 1]
    /\ IF LastWriter(w)
       THEN /\ pc' = [pc EXCEPT ![s] = "read"]
            /\ pos' = [pos EXCEPT ![s] = 0]
            /\ wIndex' = IF split THEN [wIndex EXCEPT ![s] = NextIndex(w)] ELSE wIndex
            /\ Finish(s)
       ELSE /\ pos' = [pos EXCEPT ![s] = w + 1]
            /\ UNCHANGED <<pc, wIndex, filtered, lastClean, i>>
    /\ UNCHANGED <<split, asked, lost, reads, verdict>>

\* A writer fails: CopyMulty returns, the writers after it never see the payload.
WriteFails(s) ==
    /\ WriteErrors /\ pc[s] = "write"
    /\ pc' = [pc EXCEPT ![s] = "end"]
    /\ UNCHANGED <<split, pos, wIndex, filtered, lastClean, i, asked, lost, count,
                   reads, verdict>>

-----------------------------------------------------------------------------
(* The environment                                                           *)

\* The capture never sees a response.
LoseResponse(s, d) ==
    /\ Losses /\ asked[s][d] # <<>>
    /\ asked' = [asked EXCEPT ![s][d] = Tail(@)]
    /\ lost' = [lost EXCEPT ![s] = @ \cup {d}]
    /\ UNCHANGED <<split, pc, pos, wIndex, filtered, lastClean, i, count, reads,
                   verdict>>

Older(a) == IF a \in 0 .. TTL THEN a + 1 ELSE a

Tick ==
    /\ filtered' = [s \in Source |-> [d \in Id |-> Older(filtered[s][d])]]
    /\ lastClean' = [s \in Source |-> Older(lastClean[s])]
    /\ asked' = [s \in Source |-> [d \in Id |->
          [k \in 1 .. Len(asked[s][d]) |->
              [asked[s][d][k] EXCEPT !.age = Older(@)]]]]
    /\ UNCHANGED <<split, pc, pos, wIndex, i, lost, count, reads, verdict>>

Payload(s) ==
    \/ ReadEmpty(s) \/ Malformed(s) \/ ReadEnds(s)
    \/ \E d \in Id : RequestFiltered(s, d)
    \/ \E d \in Id, bad \in Undecodable :
          RequestPasses(s, d, bad) \/ Response(s, d, bad)

Next ==
    \/ Tick
    \/ \E s \in Source :
          \/ Payload(s) \/ Write(s) \/ WriteFails(s)
          \/ \E d \in Id : LoseResponse(s, d)

Spec == Init /\ [][Next]_vars

-----------------------------------------------------------------------------
(* Properties                                                                *)

(***************************************************************************)
(* The writers of a source are served equally: without --split-output each *)
(* writer has every payload its predecessor has, but for the one being     *)
(* written; with it, no writer is ever more than one payload ahead.  An    *)
(* error of a writer does not break this.                                  *)
(***************************************************************************)
Balanced ==
    \A s \in Source : \A v, w \in Writer :
        v < w => count[s][v] - count[s][w] \in {0, 1}

(***************************************************************************)
(* A response shares the fate of its request: it is filtered if and only   *)
(* if its request was, provided it comes within the minute that            *)
(* filteredRequests keeps an entry at least, and the capture has missed no *)
(* response of this connection before.                                     *)
(***************************************************************************)
ResponseSharesFate == \A s \in Source : verdict[s] = "right"

(***************************************************************************)
(* Why these hold.  The writers that have one payload more than the last   *)
(* writer are those below pos, or below the round-robin index.             *)
(***************************************************************************)
Ahead(s) == IF split THEN wIndex[s] ELSE pos[s]

WritersInStep ==
    \A s \in Source :
        /\ \A w \in Writer :
              count[s][w] = count[s][NWriters - 1] + (IF w < Ahead(s) THEN 1 ELSE 0)
        /\ pc[s] = "read" => pos[s] = 0
        /\ pc[s] = "write" /\ split => pos[s] = wIndex[s]

(***************************************************************************)
(* An entry of filteredRequests stands for the rejected request that has   *)
(* no response yet and is as old as it; only an entry older than a minute  *)
(* may be gone.  Two requests of one connection would share an entry.      *)
(***************************************************************************)
Remembered(s, d) ==
    IF asked[s][d] = <<>> \/ ~asked[s][d][1].rejected
    THEN filtered[s][d] = Absent
    ELSE /\ Modifier
         /\ \/ filtered[s][d] = asked[s][d][1].age
            \/ filtered[s][d] = Absent /\ asked[s][d][1].age = TTL + 1

TableInStep ==
    MaxAsked = 1 => \A s \in Source : \A d \in Id :
        Len(asked[s][d]) <= 1 /\ (d \notin lost[s] => Remembered(s, d))

(***************************************************************************)
(* CopyMulty keeps its writers in step, in both modes, while the round-robin*)
(* index stays within them, and its table in step with the requests that   *)
(* wait for a response.                                                    *)
(***************************************************************************)
CopyInv ==
    /\ TypeOK
    /\ Balanced
    /\ WritersInStep
    /\ TableInStep
=============================================================================

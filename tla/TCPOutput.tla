----------------------------- MODULE TCPOutput -----------------------------
(***************************************************************************)
(* TCPOutput (output_tcp.go): Write puts a copy of the payload into a      *)
(* buffer; workers, each with a connection of its own, take payloads out   *)
(* and write payload and separator.  Only the second write is checked for  *)
(* an error; when it fails the worker puts the payload back into its       *)
(* buffer, starts its successor and ends.  With --output-tcp-sticky there  *)
(* is a buffer per worker and the hash of the session ID selects it.       *)
(* A failed dial is retried for ever, so it is no step of the model.       *)
(***************************************************************************)
EXTENDS TCPConn

CONSTANTS
    BufCap,  \* capacity of a buffer (100 or 1000)
    Hash     \* hash of a session ID modulo the number of buffers
ASSUME BufAssumption == BufCap \in Nat \ {0} /\ Hash \in [Key -> Worker]

VARIABLES
    sticky,   \* config.Sticky
    written,  \* the keys of the payloads that Write has accepted, in order
    buf,      \* o.buf
    pc,       \* control point of each worker
    hand      \* the payload it has taken

outVars == <<sticky, written, buf, pc, hand>>
noneTaken == <<>>

OutputTypeOK ==
    /\ sticky \in BOOLEAN
    /\ written \in Seq(Key) /\ Len(written) <= MaxWrites
    /\ buf \in [Worker -> Seq(Payload)]
    /\ \A b \in Worker : Len(buf[b]) <= BufCap
    /\ pc \in [Worker -> {"connect", "take", "data", "sep", "requeue"}]
    /\ hand \in [Worker -> Payload \cup {noneTaken}]

\* NewTCPOutput
OutputInit ==
    /\ sticky \in BOOLEAN
    /\ written = <<>>
    /\ buf = [b \in Worker |-> <<>>]
    /\ pc = [w \in Worker |-> "connect"]
    /\ hand = [w \in Worker |-> noneTaken]

\* The buffer a worker was started with.
BufferOf(w) == IF sticky THEN w ELSE 0

getBufferIndex(k) == IF sticky THEN Hash[k] ELSE 0

\* The connection a worker has dialed last.
ConnOf(w) == <<w, dialed[w]>>

Full(b) == Len(buf[b]) = BufCap

\* Write of a request or an original response; a replayed response is ignored.
\* It waits while the buffer is full.
Write(k) ==
    /\ Len(written) < MaxWrites
    /\ ~Full(getBufferIndex(k))
    /\ written' = Append(written, k)
    /\ buf' = [buf EXCEPT ![getBufferIndex(k)] = Append(@, <<k, Len(written) + 1>>)]
    /\ UNCHANGED <<sticky, pc, hand, connVars>>

\* Mutant: a successor does not dial again.
ConnectOnce(w) ==
    /\ pc[w] = "connect" /\ dialed[w] = 0
    /\ Dial(w)
    /\ pc' = [pc EXCEPT ![w] = "take"]
    /\ UNCHANGED <<sticky, written, buf, hand>>

Connect(w) ==
    /\ pc[w] = "connect"
    /\ Dial(w)
    /\ pc' = [pc EXCEPT ![w] = "take"]
    /\ UNCHANGED <<sticky, written, buf, hand>>

Take(w) ==
    LET b == BufferOf(w)
    IN  /\ pc[w] = "take" /\ buf[b] # <<>>
        /\ hand' = [hand EXCEPT ![w] = Head(buf[b])]
        /\ buf' = [buf EXCEPT ![b] = Tail(@)]
        /\ pc' = [pc EXCEPT ![w] = "data"]
        /\ UNCHANGED <<sticky, written, connVars>>

\* conn.Write(data): an error is not looked at.
WriteData(w) ==
    /\ pc[w] = "data"
    /\ \/ Send(ConnOf(w), hand[w])
       \/ Broken(ConnOf(w)) /\ UNCHANGED connVars
    /\ pc' = [pc EXCEPT ![w] = "sep"]
    /\ UNCHANGED <<sticky, written, buf, hand>>

\* conn.Write(payloadSeparator) succeeds; on a connection that is broken already
\* the kernel may still accept it.
WriteSep(w) ==
    /\ pc[w] = "sep"
    /\ \/ Send(ConnOf(w), Sep)
       \/ Broken(ConnOf(w)) /\ UNCHANGED connVars
    /\ pc' = [pc EXCEPT ![w] = "take"]
    /\ hand' = [hand EXCEPT ![w] = noneTaken]
    /\ UNCHANGED <<sticky, written, buf>>

\* Mutant: the payload is put back also when the separator did get through.
WriteSepFailsLate(w) ==
    /\ pc[w] = "sep"
    /\ \/ Send(ConnOf(w), Sep)
       \/ Broken(ConnOf(w)) /\ UNCHANGED connVars
    /\ pc' = [pc EXCEPT ![w] = "requeue"]
    /\ UNCHANGED <<sticky, written, buf, hand>>

WriteSepFails(w) ==
    /\ pc[w] = "sep" /\ Broken(ConnOf(w))
    /\ pc' = [pc EXCEPT ![w] = "requeue"]
    /\ UNCHANGED <<sticky, written, buf, hand, connVars>>

\* Mutant: the payload is dropped if the buffer is full.
RequeueOrDrop(w) ==
    /\ pc[w] = "requeue"
    /\ buf' = IF Full(BufferOf(w)) THEN buf
              ELSE [buf EXCEPT ![BufferOf(w)] = Append(@, hand[w])]
    /\ pc' = [pc EXCEPT ![w] = "connect"]
    /\ hand' = [hand EXCEPT ![w] = noneTaken]
    /\ UNCHANGED <<sticky, written, connVars>>

\* o.buf[bufferIndex] <- data; go o.worker(bufferIndex)
Requeue(w) ==
    LET b == BufferOf(w)
    IN  /\ pc[w] = "requeue" /\ ~Full(b)
        /\ buf' = [buf EXCEPT ![b] = Append(@, hand[w])]
        /\ pc' = [pc EXCEPT ![w] = "connect"]
        /\ hand' = [hand EXCEPT ![w] = noneTaken]
        /\ UNCHANGED <<sticky, written, connVars>>

WorkerStep(w) ==
    \/ Connect(w) \/ Take(w) \/ WriteData(w) \/ WriteSep(w)
    \/ WriteSepFails(w) \/ Requeue(w)
=============================================================================

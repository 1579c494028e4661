------------------------------ MODULE TCPInput -----------------------------
(***************************************************************************)
(* TCPInput (input_tcp.go): a goroutine accepts connections, one goroutine *)
(* per connection cuts the stream at separator lines and puts payloads     *)
(* into the data channel, Read takes them out.  Close only makes Read      *)
(* return: the listener and the connections stay as they are.  A connection *)
(* that is accepted late is one whose goroutine reads late, so accepting   *)
(* is no step of its own.                                                  *)
(***************************************************************************)
EXTENDS TCPConn

CONSTANT DataCap    \* capacity of the data channel (1000)
ASSUME DataAssumption == DataCap \in Nat \ {0}

VARIABLES
    handler,   \* handleConnection of each connection
    buffer,    \* its local buffer: the lines since the last separator
    data,      \* i.data
    stop,      \* i.stop is closed
    reading,   \* the copy goroutine has not been told to stop
    read       \* what Read has returned so far

inVars == <<handler, buffer, data, stop, reading, read>>

InputTypeOK ==
    /\ handler \in [Conn -> {"read", "push", "end"}]
    /\ buffer \in [Conn -> Seq(Payload)]
    /\ data \in Seq(Seq(Payload)) /\ Len(data) <= DataCap
    /\ stop \in BOOLEAN /\ reading \in BOOLEAN
    /\ read \in Seq(Seq(Payload))

\* NewTCPInput
InputInit ==
    /\ handler = [c \in Conn |-> "read"]
    /\ buffer = [c \in Conn |-> <<>>]
    /\ data = <<>> /\ stop = FALSE /\ reading = TRUE /\ read = <<>>

\* reader.ReadBytes('\n') and the comparison with the separator.
ReadLine(c) ==
    /\ handler[c] = "read"
    /\ Receive(c)
    /\ IF Head(wire[c]) = Sep
       THEN handler' = [handler EXCEPT ![c] = "push"] /\ buffer' = buffer
       ELSE buffer' = [buffer EXCEPT ![c] = Append(@, Head(wire[c]))] /\ handler' = handler
    /\ UNCHANGED <<data, stop, reading, read>>

\* i.data <- newBuf; the local copy and the reset come before the wait.
Push(c) ==
    /\ handler[c] = "push" /\ Len(data) < DataCap
    /\ data' = Append(data, buffer[c])
    /\ buffer' = [buffer EXCEPT ![c] = <<>>]
    /\ handler' = [handler EXCEPT ![c] = "read"]
    /\ UNCHANGED <<stop, reading, read, connVars>>

\* Mutant: what arrived before the error counts as a payload.
ReadErrorPushes(c) ==
    /\ handler[c] = "read" /\ Broken(c) /\ wire[c] = <<>>
    /\ handler' = [handler EXCEPT ![c] = IF buffer[c] = <<>> THEN "end" ELSE "push"]
    /\ UNCHANGED <<buffer, data, stop, reading, read, connVars>>

ReadError(c) ==
    /\ handler[c] = "read" /\ Broken(c) /\ wire[c] = <<>>
    /\ handler' = [handler EXCEPT ![c] = "end"]
    /\ buffer' = [buffer EXCEPT ![c] = <<>>]
    /\ UNCHANGED <<data, stop, reading, read, connVars>>

HandlerStep(c) == ReadLine(c) \/ Push(c) \/ ReadError(c)

Read ==
    /\ reading /\ data # <<>>
    /\ read' = Append(read, Head(data))
    /\ data' = Tail(data)
    /\ UNCHANGED <<handler, buffer, stop, reading, connVars>>

ReadStopped ==
    /\ reading /\ stop
    /\ reading' = FALSE
    /\ UNCHANGED <<handler, buffer, data, stop, read, connVars>>

Close ==
    /\ ~stop
    /\ stop' = TRUE
    /\ UNCHANGED <<handler, buffer, data, reading, read, connVars>>
=============================================================================

---------------------------- MODULE TCPTransport ---------------------------
(***************************************************************************)
(* TCPOutput and TCPInput connected by connections that may break.         *)
(***************************************************************************)
EXTENDS TCPOutput, TCPInput, Functions

vars == <<connVars, outVars, inVars>>

Init == ConnInit /\ OutputInit /\ InputInit

OutputStep == (\E k \in Key : Write(k)) \/ (\E w \in Worker : WorkerStep(w))

InputStep == (\E c \in Conn : HandlerStep(c)) \/ Read \/ ReadStopped \/ Close

Next ==
    \/ OutputStep /\ UNCHANGED inVars
    \/ InputStep /\ UNCHANGED outVars
    \/ (\E c \in Conn : Break(c)) /\ UNCHANGED <<outVars, inVars>>

Spec == Init /\ [][Next]_vars

(***************************************************************************)
(* Goroutines that can run do run and a dial succeeds at last; writes,     *)
(* breaks and Close are never forced.                                      *)
(***************************************************************************)
Fairness ==
    /\ \A w \in Worker : WF_vars(WorkerStep(w) /\ UNCHANGED inVars)
    /\ \A c \in Conn : WF_vars(HandlerStep(c) /\ UNCHANGED outVars)
    /\ WF_vars(Read /\ UNCHANGED outVars)

FairSpec == Spec /\ Fairness

-----------------------------------------------------------------------------
(* Properties                                                                *)

\* State of both ends and of the connections between them.
TypeOK == ConnTypeOK /\ OutputTypeOK /\ InputTypeOK

\* Payload n is that of the n-th Write.
Accepted == {<<written[n], n>> : n \in DOMAIN written}

\* What connection c still holds for its handler: the lines the handler has read
\* and not pushed, the separator that made it push, the lines on the wire.
Line(c) ==
    buffer[c] \o (IF handler[c] = "push" THEN <<Sep>> ELSE <<>>) \o wire[c]

\* The payloads among lines l whose separator follows: the others never count.
Sealed(l) == {i \in DOMAIN l : i + 1 \in DOMAIN l /\ l[i + 1] = Sep}
Whole(l) == {l[i] : i \in Sealed(l)}
SealedOnce(l) == \A i, j \in Sealed(l) : l[i] = l[j] => i = j

\* The places from which p can still be read, or has been.
Places(p) ==
    {<<"buf", b>> : b \in {b \in Worker : p \in Range(buf[b])}}
    \cup {<<"hand", w>> : w \in {w \in Worker : hand[w] = p}}
    \cup {<<"line", c>> : c \in {c \in Conn : p \in Whole(Line(c))}}
    \cup {x \in {<<"data", 0>>} : <<p>> \in Range(data)}
    \cup {x \in {<<"read", 0>>} : <<p>> \in Range(read)}

(***************************************************************************)
(* A payload that Write has accepted exists once: the payload a worker puts *)
(* back after an error cannot also reach the other side, and unless a      *)
(* connection has broken none is missing, wherever it is.                  *)
(***************************************************************************)
OneCopy ==
    /\ \A p \in Accepted :
          (\A x, y \in Places(p) : x = y) /\ (breaks = 0 => Places(p) # {})
    /\ \A b \in Worker : IsInjective(buf[b])
    /\ \A c \in Conn : SealedOnce(Line(c))
    /\ IsInjective(data) /\ IsInjective(read)

(***************************************************************************)
(* With --output-tcp-sticky the payloads of a session are read in the      *)
(* order they were written, as long as no connection breaks.               *)
(***************************************************************************)
Before(p, q) == p[1] = q[1] => p[2] < q[2]

StickyOrder ==
    sticky /\ breaks = 0 =>
        \A i, j \in DOMAIN read : i < j =>
            \A n \in DOMAIN read[i], m \in DOMAIN read[j] : Before(read[i][n], read[j][m])

\* All workers of a full buffer wait for room in it.
Stuck(b) ==
    /\ Full(b)
    /\ \A w \in Worker : BufferOf(w) = b => pc[w] = "requeue"

(***************************************************************************)
(* A worker whose connection failed puts its payload back before its       *)
(* successor is started: if all workers of a full buffer do, none of them  *)
(* ever goes on, and nothing leaves the buffer again.                      *)
(***************************************************************************)
StuckIsFinal ==
    [][\A b \in Worker : Stuck(b) => Stuck(b)' /\ buf'[b] = buf[b]]_vars

(***************************************************************************)
(* That is the only way to lose a buffer: while the other side reads, a    *)
(* full buffer gets room again, so Write returns, although connections     *)
(* break and back pressure reaches from the data channel to the buffer.    *)
(***************************************************************************)
FullBufferDrains ==
    \A b \in Worker : Full(b) ~> ~Full(b) \/ Stuck(b) \/ stop

Transport == INSTANCE PayloadTransport WITH accepted <- Accepted, received <- read

(***************************************************************************)
(* The pair implements PayloadTransport: whatever breaks, what Read        *)
(* returns is one whole payload that was written and not yet read.         *)
(***************************************************************************)
ImplementsTransport == Transport!TransportSpec

(***************************************************************************)
(* Why these hold.  Payload and separator alternate on a connection, which *)
(* holds nothing before it is dialed, and its handler never more than one  *)
(* payload.                                                                *)
(***************************************************************************)
Alternates(l) ==
    /\ l # <<>> => l[1] # Sep
    /\ \A i \in DOMAIN l : i + 1 \in DOMAIN l => (l[i] = Sep <=> l[i + 1] # Sep)

Framed ==
    \A c \in Conn :
        /\ Alternates(Line(c))
        /\ Len(buffer[c]) <= 1
        /\ handler[c] = "push" => Len(buffer[c]) = 1
        /\ c[2] > dialed[c[1]] => Line(c) = <<>>

EndsWith(l, x) == l # <<>> /\ l[Len(l)] = x

(***************************************************************************)
(* A worker uses one connection at a time, and a live one ends where the   *)
(* worker has stopped writing.                                             *)
(***************************************************************************)
WorkersInStep ==
    /\ \A c \in up : c[2] = dialed[c[1]]
    /\ \A w \in Worker :
          /\ dialed[w] <= breaks + (IF ConnOf(w) \in up THEN 1 ELSE 0)
          /\ breaks = 0 /\ dialed[w] > 0 => ConnOf(w) \in up
          /\ hand[w] = noneTaken <=> pc[w] \in {"connect", "take"}
          /\ dialed[w] = 0 => pc[w] = "connect"
          /\ ConnOf(w) \in up =>
                LET l == Line(ConnOf(w))
                IN  \/ pc[w] \in {"take", "data"} /\ (l = <<>> \/ EndsWith(l, Sep))
                    \/ pc[w] = "sep" /\ EndsWith(l, hand[w])

\* Everything anywhere was accepted, and stays on the way of its session; what
\* has left a connection is one payload.
NothingInvented ==
    /\ \A b \in Worker : \A p \in Range(buf[b]) :
          p \in Accepted /\ getBufferIndex(p[1]) = b
    /\ \A w \in Worker : hand[w] # noneTaken =>
          hand[w] \in Accepted /\ getBufferIndex(hand[w][1]) = BufferOf(w)
    /\ \A c \in Conn : \A p \in Range(Line(c)) \ {Sep} :
          p \in Accepted /\ getBufferIndex(p[1]) = BufferOf(c[1])
    /\ \A m \in Range(data) \cup Range(read) : \E p \in Accepted : m = <<p>>

\* The payloads that are read, in the data channel, on a connection, in the hand
\* of a worker that has not written them, in a buffer.
Stage(n) ==
    {p \in Accepted :
        \/ n = 1 /\ <<p>> \in Range(read)
        \/ n = 2 /\ <<p>> \in Range(data)
        \/ n = 3 /\ \E c \in Conn : p \in Range(Line(c))
        \/ n = 4 /\ \E w \in Worker : pc[w] = "data" /\ hand[w] = p
        \/ n = 5 /\ \E b \in Worker : p \in Range(buf[b])}

\* What is nearer to the reader comes before what is farther away.
StagesInOrder ==
    \A m, n \in 1 .. 5 : m < n => \A p \in Stage(m), q \in Stage(n) : Before(p, q)

InOrder(l) ==
    \A i, j \in DOMAIN l : i < j /\ l[i] # Sep /\ l[j] # Sep => Before(l[i], l[j])

MessagesInOrder(s) == \A i, j \in DOMAIN s : i < j => Before(s[i][1], s[j][1])

(***************************************************************************)
(* While nothing breaks, a sticky session is in order along its whole way. *)
(***************************************************************************)
SessionsInOrder ==
    sticky /\ breaks = 0 =>
        /\ StagesInOrder
        /\ \A b \in Worker : InOrder(buf[b])
        /\ \A c \in Conn : InOrder(Line(c))
        /\ MessagesInOrder(data) /\ MessagesInOrder(read)

(***************************************************************************)
(* What both ends hold together: every accepted payload is in one place at *)
(* a time, and a sticky session keeps its order.                           *)
(***************************************************************************)
TransportInv ==
    /\ TypeOK
    /\ OneCopy
    /\ StickyOrder
    /\ Framed /\ WorkersInStep /\ NothingInvented /\ SessionsInOrder
=============================================================================

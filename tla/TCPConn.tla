------------------------------ MODULE TCPConn ------------------------------
(***************************************************************************)
(* The TCP connections between a listening gor (TCPOutput) and a replaying *)
(* one (TCPInput), as far as the two ends use them: a connection carries   *)
(* lines in order, may break at any time, and then loses an unread tail.   *)
(* A payload is one line here, the separator between payloads another.     *)
(***************************************************************************)
EXTENDS Integers, Sequences

CONSTANTS
    Key,          \* session IDs, payloadMeta(data)[1]
    MaxWrites,    \* bound: payloads written
    MaxBreaks,    \* bound: connections that break
    Workers,      \* number of workers (10)
    WireCap,      \* lines the kernel buffers for a connection
    Sep           \* the separator line

ASSUME ConnAssumption ==
    /\ MaxWrites \in Nat /\ MaxBreaks \in Nat
    /\ Workers \in Nat \ {0} /\ WireCap \in Nat \ {0}

Payload == Key \X (1 .. MaxWrites)
ASSUME SepAssumption == Sep \notin Payload

Worker == 0 .. (Workers - 1)

\* The connections of each worker: it dials once, and again after each break.
Conn == Worker \X (1 .. (MaxBreaks + 1))

VARIABLES
    dialed,  \* how often each worker has dialed
    up,      \* connections that are not broken
    wire,    \* lines on their way, per connection
    breaks   \* how many connections have broken

connVars == <<dialed, up, wire, breaks>>

ConnTypeOK ==
    /\ dialed \in [Worker -> 0 .. (MaxBreaks + 1)]
    /\ up \subseteq {c \in Conn : c[2] <= dialed[c[1]]}
    /\ wire \in [Conn -> Seq(Payload \cup {Sep})]
    /\ breaks \in 0 .. MaxBreaks

ConnInit ==
    /\ dialed = [w \in Worker |-> 0] /\ up = {}
    /\ wire = [c \in Conn |-> <<>>]
    /\ breaks = 0

Dial(w) ==
    /\ dialed' = [dialed EXCEPT ![w] = @ + 1]
    /\ up' = up \cup {<<w, dialed[w] + 1>>}
    /\ UNCHANGED <<wire, breaks>>

\* A write to a live connection waits for room.
Send(c, line) ==
    /\ c \in up /\ Len(wire[c]) < WireCap
    /\ wire' = [wire EXCEPT ![c] = Append(@, line)]
    /\ UNCHANGED <<dialed, up, breaks>>

Receive(c) ==
    /\ wire[c] # <<>>
    /\ wire' = [wire EXCEPT ![c] = Tail(@)]
    /\ UNCHANGED <<dialed, up, breaks>>

Broken(c) == c \notin up /\ c[2] <= dialed[c[1]]

Break(c) ==
    /\ c \in up /\ breaks < MaxBreaks
    /\ breaks' = breaks + 1
    /\ up' = up \ {c}
    /\ \E n \in 0 .. Len(wire[c]) : wire' = [wire EXCEPT ![c] = SubSeq(@, 1, n)]
    /\ dialed' = dialed
=============================================================================

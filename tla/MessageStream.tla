---------------------------- MODULE MessageStream --------------------------
(***************************************************************************)
(* What a message pool promises its consumer, without packets, timers,     *)
(* locks or goroutines: every key has at most one message under assembly,  *)
(* a message only grows, up to MaxSize, while it is under assembly, and it *)
(* is sent once, after which it never changes again.                       *)
(***************************************************************************)
EXTENDS Naturals, Sequences

CONSTANTS Msg, Key, MaxSize

VARIABLES
    live,   \* messages under assembly
    keyOf,  \* the key each message was started for
    size,   \* bytes of each message
    sent    \* messages handed to the consumer, in order

streamVars == <<live, keyOf, size, sent>>

Begun == live \cup {sent[i] : i \in 1 .. Len(sent)}

StreamInit ==
    /\ live = {}
    /\ sent = <<>>
    /\ \A m \in Msg : size[m] = 0

\* A message is begun for a key that has none under assembly.
Begin(m, k, n) ==
    /\ m \in Msg \ Begun
    /\ \A l \in live : keyOf[l] # k
    /\ n \in 0 .. MaxSize
    /\ live' = live \cup {m}
    /\ keyOf' = [keyOf EXCEPT ![m] = k]
    /\ size' = [size EXCEPT ![m] = n]
    /\ sent' = sent

Grow(m, n) ==
    /\ m \in live
    /\ n \in size[m] .. MaxSize
    /\ size' = [size EXCEPT ![m] = n]
    /\ UNCHANGED <<live, keyOf, sent>>

Send(m) ==
    /\ m \in live
    /\ live' = live \ {m}
    /\ sent' = Append(sent, m)
    /\ UNCHANGED <<keyOf, size>>

StreamNext ==
    \E m \in Msg :
        \/ \E k \in Key, n \in 0 .. MaxSize : Begin(m, k, n)
        \/ \E n \in 0 .. MaxSize : Grow(m, n)
        \/ Send(m)

StreamSpec == StreamInit /\ [][StreamNext]_streamVars
=============================================================================

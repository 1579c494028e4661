-------------------------- MODULE PayloadTransport -------------------------
(***************************************************************************)
(* What a pair of TCPOutput and TCPInput promises: payloads are accepted   *)
(* on one side, and some of them come out on the other, whole, in any      *)
(* order and none of them twice.                                           *)
(***************************************************************************)
EXTENDS Sequences

VARIABLES
    accepted,  \* the set of payloads that were written
    received   \* the sequence of messages that were read

TransportInit == accepted = {} /\ received = <<>>

AcceptPayload ==
    /\ \E p \in accepted' \ accepted : accepted' = accepted \cup {p}
    /\ received' = received

DeliverPayload ==
    /\ \E p \in accepted :
          /\ \A i \in DOMAIN received : received[i] # <<p>>
          /\ received' = Append(received, <<p>>)
    /\ accepted' = accepted

TransportNext == AcceptPayload \/ DeliverPayload

TransportSpec == TransportInit /\ [][TransportNext]_<<accepted, received>>
=============================================================================

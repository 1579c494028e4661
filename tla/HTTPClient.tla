---------------------------- MODULE HTTPClient ----------------------------
(***************************************************************************)
(* HTTPClient (http_client.go) of an https output: one keep-alive          *)
(* connection that each Send checks, redials when it must, writes to, and  *)
(* reads from until the answer looks complete or a read times out.  Bytes  *)
(* are grouped in parts: "H" is the first byte of an answer, "TTP" the     *)
(* rest of its version, "interim" or "head" the status and the headers up  *)
(* to the empty line, "body" some of the body; "zero" and "end" are the    *)
(* halves of the last chunk, "0" with its line end and an empty line, or   *)
(* data of the body that reads like them.  No body has a part that reads   *)
(* like the beginning of an answer.  A read may time out whenever nothing  *)
(* has arrived.                                                            *)
(***************************************************************************)
EXTENDS Integers, SequencesExt

CONSTANTS
    Answer,           \* the answers the server may give
    FollowRedirects,  \* --output-http-redirects
    BufLen,           \* len(respBuf), in parts
    ChunkLen,         \* readChunkSize, in parts
    MaxResponse,      \* maxResponseSize, in parts
    MaxRequests,      \* bound: calls of Send
    MaxFaults         \* bound: failed dials and handshakes, closes and resets
ASSUME HTTPClientAssumption ==
    /\ FollowRedirects \in Nat /\ MaxRequests \in Nat /\ MaxFaults \in Nat
    /\ {BufLen, ChunkLen, MaxResponse} \subseteq Nat \ {0}
    /\ MaxResponse > 2   \* more than the head of an answer

VARIABLES
    pc,         \* where Send is
    conn,       \* c.conn and what has arrived on it
    owed,       \* what the server still has to send on it
    buf,        \* respBuf[:readBytes]
    over,       \* what has been read beyond the buffer
    frame,      \* chunked, contentLength
    got,        \* currentContentLength
    err,        \* the error of the last read
    redirects,  \* c.redirectsCount
    res,        \* what the last Send returned
    req,        \* history: calls of Send
    tries,      \* history: requests the running Send has written or tried to
    answer,     \* history: the server's answer to the request last written
    faults      \* history: see MaxFaults

client == <<pc, buf, over, frame, got, err, redirects, res, req, tries>>
vars == <<client, conn, owed, answer, faults>>

NoConn == [open |-> FALSE, tls |-> FALSE, in |-> <<>>, ended |-> "no"]
Unknown == -1   \* neither chunked nor a length
Chunked == -2

\* What a client sees when it talks clear text to a TLS port, and when the server
\* never gets the request.
BadRequest == [status |-> "400", frame |-> 0, zero |-> FALSE, body |-> <<>>, interim |-> FALSE]
Silent == [status |-> "none", frame |-> 0, zero |-> FALSE, body |-> <<>>, interim |-> FALSE]

Part == {"H", "TTP", "interim", "head", "body", "zero", "end"}
Request == (0 .. MaxRequests) \X (0 .. FollowRedirects + 1)   \* a Send and a try
Bytes == [of : Request, part : Part, answer : Answer \cup {BadRequest}]
Frame == {Unknown, Chunked} \cup Nat
ASSUME AnswerAssumption ==
    Answer \subseteq [status : {"200", "204", "302", "304", "400"}, frame : Frame,
                      zero : BOOLEAN,   \* the last header ends in "0"
                      body : Seq({"body", "zero", "end"}), interim : BOOLEAN]

TypeOK ==
    /\ pc \in {"idle", "alive", "dial", "handshake", "write", "read", "finish"}
    /\ conn \in [open : BOOLEAN, tls : BOOLEAN, in : Seq(Bytes), ended : {"no", "eof", "reset"}]
    /\ conn.open \/ (conn = NoConn /\ owed = <<>>)
    /\ owed \in Seq(Bytes)
    /\ buf \in Seq(Bytes) /\ Len(buf) <= BufLen
    /\ over \in 0 .. MaxResponse + ChunkLen
    /\ frame \in Frame /\ got \in Nat
    /\ err \in {"nil", "EOF", "timeout", "error"}
    /\ redirects \in 0 .. FollowRedirects
    /\ res \in [kind : {"none", "nil", "payload", "520", "521", "524"},
                payload : Seq(Bytes), err : {"nil", "EOF", "timeout", "error"},
                ended : BOOLEAN, of : Request]
    /\ req \in 0 .. MaxRequests /\ tries \in 0 .. FollowRedirects + 1
    /\ answer \in Answer \cup {BadRequest, Silent}
    /\ faults \in 0 .. MaxFaults

NewHTTPClient ==
    /\ pc = "idle" /\ conn = NoConn /\ owed = <<>>
    /\ buf = <<>> /\ over = 0 /\ frame = Unknown /\ got = 0 /\ err = "nil"
    /\ redirects = 0
    /\ res = [kind |-> "none", payload |-> <<>>, err |-> "nil", ended |-> FALSE, of |-> <<0, 0>>]
    /\ req = 0 /\ tries = 0 /\ answer = Silent /\ faults = 0

-----------------------------------------------------------------------------
(* The server and the network                                                *)

\* The parts of the answer a to request n.
Parts(a, n, parts) == [i \in DOMAIN parts |-> [of |-> n, part |-> parts[i], answer |-> a]]

Final(a, n) ==
    Parts(a, n, <<"H", "TTP", "head">> \o a.body
                \o IF a.frame = Chunked THEN <<"zero", "end">> ELSE <<>>)

Interim(a, n) == IF a.interim THEN Parts(a, n, <<"H", "TTP", "interim">>) ELSE <<>>

\* A server that has been sent clear text complains or says nothing.
ServerAnswers ==
    IF conn.ended # "no" THEN {Silent}
    ELSE IF conn.tls THEN Answer
    ELSE {BadRequest, Silent}

Arrive ==
    /\ owed # <<>>
    /\ conn' = [conn EXCEPT !.in = Append(@, Head(owed))]
    /\ owed' = Tail(owed)
    /\ UNCHANGED <<client, answer, faults>>

\* The server closes the connection; a reset also discards what was not read.
ServerEnds ==
    /\ conn.open /\ conn.ended = "no" /\ faults < MaxFaults
    /\ \E e \in {"eof", "reset"} :
          conn' = [conn EXCEPT !.ended = e, !.in = IF e = "reset" THEN <<>> ELSE @]
    /\ owed' = <<>> /\ faults' = faults + 1
    /\ UNCHANGED <<client, answer>>

\* What Read may give when there is room for n parts.  TLS may return the last
\* data together with the end of the stream.
ReadUpTo(n) ==
    LET took == SubSeq(conn.in, 1, IF n < Len(conn.in) THEN n ELSE Len(conn.in))
        last == conn.tls /\ conn.ended = "eof" /\ Len(conn.in) <= n
    IN  IF conn.in # <<>>
        THEN [data : {took}, err : {"nil"} \cup IF last THEN {"EOF"} ELSE {}]
        ELSE [data : {<<>>},
              err  : {CASE conn.ended = "no" -> "timeout"
                        [] conn.ended = "eof" -> "EOF"
                        [] conn.ended = "reset" -> "error"}]

After(n) == [conn EXCEPT !.in = SubSeq(@, n + 1, Len(@))]

-----------------------------------------------------------------------------
(* Send                                                                      *)

Disconnect == conn' = NoConn /\ owed' = <<>>

KeepConn == UNCHANGED <<conn, owed>>

Return(kind, payload, e) ==
    /\ pc' = "idle"
    /\ res' = [kind |-> kind, payload |-> payload, err |-> e,
               ended |-> conn.ended # "no", of |-> <<req, tries>>]
    /\ tries' = 0
    /\ buf' = <<>> /\ over' = 0 /\ frame' = Unknown /\ got' = 0 /\ err' = "nil"

\* Send from its start, by a caller or by a redirect.
Enter ==
    /\ pc' = IF conn'.open THEN "alive" ELSE "dial"
    /\ buf' = <<>> /\ over' = 0 /\ frame' = Unknown /\ got' = 0 /\ err' = "nil"
    /\ tries' = tries + 1

Send ==
    /\ pc = "idle" /\ req < MaxRequests
    /\ req' = req + 1
    /\ res' = [res EXCEPT !.payload = <<>>]
    /\ KeepConn /\ Enter
    /\ UNCHANGED <<redirects, answer, faults>>

\* Only the end of the stream counts as dead.  A byte that has been read is the
\* first one of the answer; the rest of its part follows at once.
isAlive ==
    /\ pc = "alive"
    /\ \E d \in ReadUpTo(1) :
          IF d.err = "EOF"
          THEN pc' = "dial" /\ UNCHANGED <<conn, buf>>
          ELSE pc' = "write" /\ buf' = d.data /\ conn' = After(Len(d.data))
    /\ UNCHANGED <<owed, over, frame, got, err, redirects, res, req, tries, answer, faults>>

\* Mutant: a failed handshake is logged and forgotten.
HandshakeIgnored ==
    /\ pc = "handshake"
    /\ \/ /\ pc' = "write" /\ conn' = [conn EXCEPT !.tls = TRUE]
          /\ UNCHANGED <<owed, buf, over, frame, got, err, redirects, res, req, tries, answer, faults>>
       \/ /\ faults < MaxFaults /\ faults' = faults + 1
          /\ pc' = "write"
          /\ KeepConn
          /\ UNCHANGED <<buf, over, frame, got, err, redirects, res, req, tries, answer>>

\* Connect: Disconnect, then DialTimeout.
Dial ==
    /\ pc = "dial"
    /\ owed' = <<>>
    /\ \/ /\ conn' = [NoConn EXCEPT !.open = TRUE]
          /\ pc' = "handshake"
          /\ UNCHANGED <<buf, over, frame, got, err, redirects, res, req, tries, answer, faults>>
       \/ /\ faults < MaxFaults /\ faults' = faults + 1
          /\ conn' = NoConn
          /\ Return("521", <<>>, "error")
          /\ UNCHANGED <<redirects, req, answer>>

\* Connect: the handshake, which has no deadline.  When it fails c.conn stays,
\* without TLS.
Handshake ==
    /\ pc = "handshake"
    /\ \/ /\ pc' = "write" /\ conn' = [conn EXCEPT !.tls = TRUE]
          /\ UNCHANGED <<owed, buf, over, frame, got, err, redirects, res, req, tries, answer, faults>>
       \/ /\ faults < MaxFaults /\ faults' = faults + 1
          /\ Return("521", <<>>, "error")
          /\ KeepConn
          /\ UNCHANGED <<redirects, req, answer>>

\* A write after the server's end of the stream may still succeed.
Write ==
    /\ pc = "write"
    /\ \/ /\ conn.ended # "reset"
          /\ \E a \in ServerAnswers :
                /\ answer' = a
                /\ owed' = IF a = Silent THEN owed
                           ELSE owed \o Interim(a, <<req, tries>>) \o Final(a, <<req, tries>>)
          /\ pc' = "read"
          /\ UNCHANGED <<conn, buf, over, frame, got, err, redirects, res, req, tries, faults>>
       \/ /\ conn.ended # "no"
          /\ Disconnect
          /\ Return("524", <<>>, "error")
          /\ UNCHANGED <<redirects, req, answer, faults>>

-----------------------------------------------------------------------------
(* send: reading the answer                                                  *)

\* The first empty line in b.
FirstEmptyLine(b) == SelectInSeq(b, LAMBDA x : x.part \in {"interim", "head"})

\* b begins with a response title: Status finds a status in it.
HasTitle(b) == Len(b) > 2 /\ b[1].part = "H" /\ b[3].part \in {"interim", "head"}

StatusOf(b) ==
    IF ~HasTitle(b) THEN "none"
    ELSE IF b[3].part = "interim" THEN "1xx" ELSE b[3].answer.status

\* What the headers say.  In front of them, the rest of an earlier answer may hide them.
Framings(b) ==
    LET x == b[FirstEmptyLine(b)]
        f == IF x.part = "interim" THEN Unknown ELSE x.answer.frame
    IN  IF Head(b).part = "H" THEN {f} ELSE {f, Unknown}

\* Mutant: what follows the headers in the same read is counted with them.
BodyReadHeaders(b, n) ==
    IF frame # Unknown THEN got + n
    ELSE IF FirstEmptyLine(b) = 0 THEN got ELSE got + Len(b) - FirstEmptyLine(b) + 1

\* currentContentLength after n more parts, b being all of them.
BodyRead(b, n) ==
    IF frame # Unknown THEN got + n
    ELSE IF FirstEmptyLine(b) = 0 THEN got ELSE got + Len(b) - FirstEmptyLine(b)

\* The bytes of the last chunk: its own, or data or a header that reads like it.
HasChunkedSuffix(b) ==
    LET last == b[Len(b)]
    IN  \/ Len(b) > 1 /\ last.part = "end" /\ b[Len(b) - 1].part = "zero"
        \/ b # <<>> /\ last.part = "head" /\ last.answer.zero

\* Mutant: the end of the body is seen when something follows it.
CompleteLate(f, total, last) ==
    IF f = Chunked THEN HasChunkedSuffix(last) ELSE f >= 0 /\ total > f

Complete(f, total, last) ==
    IF f = Chunked THEN HasChunkedSuffix(last) ELSE f >= 0 /\ total >= f

WrongLength(f, total) == f >= 0 /\ total > f

\* Mutant: the interim answer is skipped, not removed.
SoakKeeps(b) == buf' = b

\* An interim answer makes room for what follows it, which is not looked at until
\* the next read has returned.
Soak(b) == buf' = SubSeq(b, FirstEmptyLine(b) + 1, Len(b))

\* After a read: stop, with the connection closed if it brought too much, or go on.
Loop(done, e, total, size) ==
    /\ pc' = IF done \/ e # "nil" \/ size >= MaxResponse THEN "finish" ELSE "read"
    /\ got' = IF frame' = Unknown THEN 0 ELSE total

\* The buffer has room: read into it.
ReadBuffer ==
    /\ pc = "read" /\ over = 0 /\ Len(buf) < BufLen
    /\ \E d \in ReadUpTo(BufLen - Len(buf)) :
       LET b == buf \o d.data
           total == BodyRead(b, Len(d.data))
           headers == frame = Unknown /\ FirstEmptyLine(b) # 0
           interim == headers /\ StatusOf(b) = "1xx"
       IN  \/ /\ interim /\ Soak(b)
              /\ conn' = After(Len(d.data))
              /\ UNCHANGED <<pc, owed, over, frame, got, err>>
           \/ /\ ~interim
              /\ \E f \in IF headers THEN Framings(b) ELSE {frame} :
                    LET bodyless == headers /\ f # Chunked /\ StatusOf(b) \in {"204", "304"}
                        done == bodyless \/ Complete(f, total, b)
                    IN  /\ frame' = IF bodyless THEN 0 ELSE f
                        /\ err' = IF ~done /\ d.err = "EOF" THEN "nil" ELSE d.err
                        /\ Loop(done, d.err, total, Len(b))
                        /\ IF ~bodyless /\ WrongLength(f, total) THEN Disconnect
                           ELSE conn' = After(Len(d.data)) /\ UNCHANGED owed
              /\ buf' = b /\ UNCHANGED over
    /\ UNCHANGED <<redirects, res, req, tries, answer, faults>>

\* The buffer is full: read into a chunk that is thrown away.
ReadChunk ==
    /\ pc = "read" /\ (over > 0 \/ Len(buf) = BufLen)
    /\ \E d \in ReadUpTo(ChunkLen) :
       LET total == got + Len(d.data)
           done == frame = Unknown \/ Complete(frame, total, d.data)
       IN  /\ over' = over + Len(d.data)
           /\ err' = d.err /\ UNCHANGED frame
           /\ Loop(done, d.err, total, Len(buf) + over')
           /\ IF frame = Unknown \/ WrongLength(frame, total) THEN Disconnect
              ELSE conn' = After(Len(d.data)) /\ UNCHANGED owed
    /\ UNCHANGED <<buf, redirects, res, req, tries, answer, faults>>

-----------------------------------------------------------------------------
(* send: what is returned                                                    *)

\* Mutant: an answer that did not come at all leaves the connection as it is.
NoAnswerKeeps ==
    /\ err # "nil" /\ buf = <<>>
    /\ KeepConn
    /\ Return("524", <<>>, err)
    /\ UNCHANGED redirects

NoAnswer ==
    /\ err # "nil" /\ buf = <<>>
    /\ Disconnect
    /\ Return("524", <<>>, err)
    /\ UNCHANGED redirects

IsHTTP == Len(buf) > 1 /\ buf[1].part = "H" /\ buf[2].part = "TTP"

UnknownAnswer ==
    /\ ~(err # "nil" /\ buf = <<>>) /\ ~IsHTTP
    /\ Disconnect
    /\ Return("520", <<>>, err)
    /\ UNCHANGED redirects

MayFollow == redirects < FollowRedirects

\* payload[9:12] is out of bounds; Send recovers and returns its zero values.
NoStatus ==
    /\ IsHTTP /\ MayFollow /\ Len(buf) = 2
    /\ KeepConn
    /\ Return("nil", <<>>, "nil")
    /\ UNCHANGED redirects

IsRedirect == IsHTTP /\ MayFollow /\ Len(buf) > 2 /\ buf[3].answer.status \in {"302", "304"}

Redirect ==
    /\ IsRedirect
    /\ redirects' = redirects + 1
    /\ KeepConn /\ Enter
    /\ UNCHANGED res

\* Mutant: the count goes down again only after a redirect was followed to its end.
AnsweredOnce ==
    /\ IsHTTP /\ ~(MayFollow /\ Len(buf) = 2) /\ ~IsRedirect
    /\ IF StatusOf(buf) = "400" THEN Disconnect ELSE KeepConn
    /\ Return("payload", buf, err)
    /\ redirects' = IF StatusOf(buf) = "302" THEN redirects ELSE 0

Answered ==
    /\ IsHTTP /\ ~(MayFollow /\ Len(buf) = 2) /\ ~IsRedirect
    /\ IF StatusOf(buf) = "400" THEN Disconnect ELSE KeepConn
    /\ Return("payload", buf, err)
    /\ redirects' = 0

Finish ==
    /\ pc = "finish"
    /\ NoAnswer \/ UnknownAnswer \/ NoStatus \/ Redirect \/ Answered
    /\ UNCHANGED <<req, answer, faults>>

-----------------------------------------------------------------------------
ClientStep ==
    isAlive \/ Dial \/ Handshake \/ Write \/ ReadBuffer \/ ReadChunk \/ Finish

Next == Send \/ ClientStep \/ Arrive \/ ServerEnds

Spec == NewHTTPClient /\ [][Next]_vars

(***************************************************************************)
(* A Send that has begun goes on: dial, writes and reads have deadlines,   *)
(* the handshake has none.  The server is never obliged to answer.         *)
(***************************************************************************)
FairSpec ==
    Spec /\ WF_vars(isAlive \/ Dial \/ Write \/ ReadBuffer \/ ReadChunk \/ Finish)

-----------------------------------------------------------------------------
(* Properties                                                                *)

(***************************************************************************)
(* An answer that Send returns is the one to its own request (to its last   *)
(* redirect, when it followed some), from its first byte on: whatever a     *)
(* timeout or a full buffer has left on the connection is never taken for   *)
(* the next answer.                                                        *)
(***************************************************************************)
OwnAnswer ==
    pc = "idle" /\ res.kind = "payload" =>
        IsPrefix(res.payload, Final(answer, res.of))

\* The server sends as much as it says.
WellFramed(a) ==
    IF a.status \in {"204", "304"} THEN a.body = <<>> ELSE a.frame >= 0 => Len(a.body) = a.frame

(***************************************************************************)
(* An answer with less than the server sent, as far as the buffer could    *)
(* hold it, comes with an error, unless the server ended the connection or  *)
(* the answer is cut right behind a header or data that reads like the      *)
(* last chunk.                                                             *)
(***************************************************************************)
TruncationReported ==
    pc = "idle" /\ res.kind = "payload" /\ res.err = "nil" /\ ~res.ended =>
        \/ Len(res.payload) >= BufLen
        \/ Len(res.payload) = Len(Final(answer, res.of))
        \/ answer.frame = Chunked /\ HasChunkedSuffix(res.payload)

(***************************************************************************)
(* A whole answer that fits into the buffer comes with an error only where *)
(* its end is hard to see: it has no length, or it follows an interim      *)
(* answer, after which the client waits for more than it needs, or the     *)
(* end of the stream came with its last part.                              *)
(***************************************************************************)
WholeIsNoError ==
    pc = "idle" /\ res.kind = "payload" /\ res.payload = Final(answer, res.of) =>
        \/ res.err = "nil"
        \/ answer.frame = Unknown /\ answer.status \notin {"204", "304"}
        \/ answer.interim
        \/ res.err = "EOF" /\ res.ended

(***************************************************************************)
(* The count of redirects is left over only by a Send that failed: the     *)
(* next request may then follow fewer.                                     *)
(***************************************************************************)
RedirectsReset ==
    pc = "idle" /\ redirects > 0 => res.kind \in {"nil", "520", "521", "524"}

(***************************************************************************)
(* A request goes out in clear text only after a Send that reported the    *)
(* failed handshake, or one that was cut off in such a request's answer:   *)
(* an answer that was read in full ends the connection.                    *)
(***************************************************************************)
ClearTextAfterFailure ==
    pc \in {"write", "read", "finish"} /\ conn.open /\ ~conn.tls =>
        /\ res.of[1] = req - 1
        /\ res.kind \in {"521", "nil"} \/ (res.kind = "payload" /\ res.err # "nil")

(***************************************************************************)
(* Every Send returns, however the server behaves, unless it waits for     *)
(* ever in a TLS handshake (http_client.go:167): the only call of Send     *)
(* that no deadline ends.                                                  *)
(***************************************************************************)
SendReturns == []<>(pc = "idle") \/ <>[](pc = "handshake")

(***************************************************************************)
(* The state a Send leaves to the next one: a connection, and a count of   *)
(* redirects that is zero unless it failed.                                *)
(***************************************************************************)
ClientInv ==
    /\ TypeOK
    /\ RedirectsReset
=============================================================================

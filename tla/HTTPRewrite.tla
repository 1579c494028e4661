---------------------------- MODULE HTTPRewrite ----------------------------
(***************************************************************************)
(* The way of one request: its packets arrive until endHint finds it       *)
(* complete, CopyMulty has the modifier edit it in its read buffer, and    *)
(* the HTTP output puts its own host and credentials into it.  The         *)
(* byte-level functions are checked against what they mean for a message   *)
(* made of fields.                                                         *)
(***************************************************************************)
EXTENDS HTTPModifier

CONSTANTS
    Message,   \* the messages: [method, url, headers, body, trailed]
    Config,    \* configurations of the modifier
    Room,      \* numbers of bytes that the read buffer has to spare
    Output     \* HTTP outputs: [baseURL, host, auth, original]

VARIABLES
    msg,      \* the message
    arrived,  \* how much of it has been captured
    phase,
    config,   \* the modifier's options
    room,     \* len(buf) - nr
    out,      \* the payload CopyMulty writes
    output,   \* the client of the output it is written to
    sent      \* the request HTTPClient sends

vars == <<msg, arrived, phase, config, room, out, output, sent>>

NoOutput == [baseURL |-> <<>>, host |-> <<>>, auth |-> <<>>, original |-> FALSE]

-----------------------------------------------------------------------------
(* Messages                                                                  *)

EncodeURL(u) ==
    u.base \o FlattenSeq([i \in DOMAIN u.params |->
        <<IF i = 1 THEN "?" ELSE "&">> \o u.params[i].name \o <<"=">> \o u.params[i].value])

EncodeHeaders(hs) ==
    FlattenSeq([i \in DOMAIN hs |-> hs[i].name \o <<":">> \o hs[i].pad \o hs[i].value \o CRLF])

Encode(m) ==
    <<m.method, " ">> \o EncodeURL(m.url) \o <<" ", "HTTP/1.1">> \o CRLF
    \o EncodeHeaders(m.headers) \o CRLF \o m.body

Whole == Encode(msg)
Captured == SubSeq(Whole, 1, arrived)

-----------------------------------------------------------------------------
Init ==
    /\ msg \in Message /\ arrived = 0 /\ phase = "assemble"
    /\ config = NoConfig /\ room = 0
    /\ out = <<>> /\ output = NoOutput /\ sent = <<>>

\* startHint for the first packet, endHint after each.
Arrive ==
    /\ phase = "assemble"
    /\ \E n \in arrived + 1 .. Len(Whole) :
          /\ arrived' = n
          /\ arrived > 0 \/ HasRequestTitle(SubSeq(Whole, 1, n))
          /\ \E o \in HasFullPayload(SubSeq(Whole, 1, n)) :
                phase' = CASE o = "full" -> "modify" [] o = "more" -> phase [] o = "panic" -> o
    /\ UNCHANGED <<msg, config, room, out, output, sent>>

\* All has arrived, but only the end of the connection or the expiry shows it; or
\* another input has read the message.
Dispatch ==
    /\ phase = "assemble" /\ arrived \in {0, Len(Whole)}
    /\ arrived' = Len(Whole) /\ phase' = "modify"
    /\ UNCHANGED <<msg, config, room, out, output, sent>>

\* What is in the read buffer after the edits that were made in it.
Buffer(p, stages) ==
    FoldLeft(LAMBDA b, s : s \o SubSeq(b, Len(s) + 1, Len(b)), p, stages)

\* Mutant: the buffer is taken for the result.
WrittenInPlace(p, stages, spare) ==
    LET outgrown == SelectInSeq(stages, LAMBDA s : Len(s) > Len(p) + spare)
    IN  IF outgrown = 0 THEN Last(stages)
        ELSE SubSeq(Buffer(p, SubSeq(stages, 1, outgrown - 1)), 1, Len(p))

\* An edit that outgrows the buffer moves the payload elsewhere; the buffer is
\* still written if the length comes out as it was.
Written(p, stages, spare) ==
    LET outgrown == SelectInSeq(stages, LAMBDA s : Len(s) > Len(p) + spare)
    IN  IF Len(Last(stages)) # Len(p) \/ outgrown = 0 THEN Last(stages)
        ELSE SubSeq(Buffer(p, SubSeq(stages, 1, outgrown - 1)), 1, Len(p))

Modify ==
    /\ phase = "modify"
    /\ config' \in Config /\ room' \in Room
    /\ \E stages \in {IF NewHTTPModifier(config') THEN Rewrite(config', Captured) ELSE <<Captured>>} :
          \/ /\ stages = <<>>
             /\ phase' = "dropped" /\ UNCHANGED out
          \/ /\ stages # <<>>
             /\ phase' = "written" /\ out' = Written(Captured, stages, room')
    /\ UNCHANGED <<msg, arrived, output, sent>>

\* Send sets the host, unless the output keeps the original one, and the credentials
\* that the output's address has.
Send(p, o) ==
    LET hosted == IF o.original THEN p ELSE SetHost(p, o.baseURL, o.host)
    IN  IF o.auth = <<>> THEN hosted ELSE SetHeader(hosted, <<"Authorization">>, o.auth)

\* sendRequest ignores what has no request title.
SendRequest ==
    /\ phase = "written"
    /\ output' \in Output
    /\ IF HasRequestTitle(out)
       THEN phase' = "sent" /\ sent' = Send(out, output')
       ELSE phase' = "ignored" /\ UNCHANGED sent
    /\ UNCHANGED <<msg, arrived, config, room, out>>

Next == Arrive \/ Dispatch \/ Modify \/ SendRequest

Spec == Init /\ [][Next]_vars

-----------------------------------------------------------------------------
(* What the edits mean                                                       *)

HeaderIndex(m, name) == SelectInSeq(m.headers, LAMBDA h : EqualFold(h.name, name))

HeaderOf(m, name) ==
    IF HeaderIndex(m, name) = 0 THEN <<>> ELSE m.headers[HeaderIndex(m, name)].value

WithHeader(m, h) ==
    LET i == HeaderIndex(m, h.name)
    IN  IF i = 0 THEN [m EXCEPT !.headers = <<[name |-> h.name, pad |-> <<" ">>, value |-> h.value]>> \o @]
        ELSE [m EXCEPT !.headers[i].value = h.value]

ParamIndex(m, name) == SelectInSeq(m.url.params, LAMBDA q : q.name = name)

WithParam(m, q) ==
    LET i == ParamIndex(m, q.name)
    IN  IF i = 0 THEN [m EXCEPT !.url.params = Append(@, q)]
        ELSE [m EXCEPT !.url.params[i].value = q.value]

WordsOf(m) == ToSet(EncodeURL(m.url))

WithURL(m, r) ==
    [m EXCEPT !.url.base = ReplaceAll(@, r.src, r.target),
              !.url.params = [i \in DOMAIN @ |-> [@[i] EXCEPT !.value = ReplaceAll(@, r.src, r.target)]]]

Edited(m, c) == FoldLeft(WithParam, FoldLeft(WithHeader, m, c.headers), c.params)

Kept(m, c) ==
    LET e == Edited(m, c)
        auth == HeaderOf(e, <<"Authorization">>)
        sampled(v, f) == v = <<>> \/ Hash[v] < f.percent
    IN  /\ c.methods = {} \/ m.method \in c.methods
        /\ c.allowURL = {} \/ c.allowURL \cap WordsOf(e) # {}
        /\ c.disallowURL \cap WordsOf(e) = {}
        /\ \A f \in c.allowHeader : f.regexp \in ToSet(HeaderOf(e, f.name))
        /\ \A f \in c.disallowHeader : f.regexp \notin ToSet(HeaderOf(e, f.name))
        /\ auth # <<>> /\ Head(auth) = "Basic" => c.basicAuth \subseteq ToSet(auth)
        /\ \A f \in c.headerHash : sampled(HeaderOf(e, f.name), f)
        /\ \A f \in c.paramHash :
              ParamIndex(e, f.name) # 0 => sampled(e.url.params[ParamIndex(e, f.name)].value, f)

Rewritten(m, c) ==
    LET url(e) ==
          LET i == SelectInSeq(c.rewriteURL, LAMBDA r : r.src \in WordsOf(e))
          IN  IF i = 0 THEN e ELSE WithURL(e, c.rewriteURL[i])
        rule(e, r) ==
          IF r.src \notin ToSet(HeaderOf(e, r.name)) THEN e
          ELSE WithHeader(e, [name |-> r.name, value |-> ReplaceAll(HeaderOf(e, r.name), r.src, r.target)])
    IN  FoldLeft(rule, url(Edited(m, c)), c.rewriteHeader)

\* c without its last edits.
Begun(c) ==
    {[c EXCEPT !.headers = SubSeq(@, 1, i), !.params = <<>>, !.rewriteURL = <<>>, !.rewriteHeader = <<>>] :
        i \in DOMAIN c.headers}
    \cup {[c EXCEPT !.params = SubSeq(@, 1, i), !.rewriteURL = <<>>, !.rewriteHeader = <<>>] :
        i \in DOMAIN c.params}
    \cup {[c EXCEPT !.rewriteHeader = SubSeq(@, 1, i)] : i \in 0 .. Len(c.rewriteHeader)}

\* A URL that names a host: the output's address, and the path that was behind the host.
WithHost(m, o) ==
    LET base == m.url.base
        path == SelectInSubSeq(base, 5, Len(base), LAMBDA x : x = "/")   \* behind http : / /
    IN  IF Head(base) # "http" THEN WithHeader(m, [name |-> <<"Host">>, value |-> o.host])
        ELSE [m EXCEPT !.url.base = o.baseURL \o
                IF path = 0 THEN <<"/">> \o SubSeq(base, 5, Len(base)) ELSE SubSeq(base, path, Len(base))]

Addressed(m, o) ==
    LET hosted == IF o.original THEN m ELSE WithHost(m, o)
    IN  IF o.auth = <<>> THEN hosted
        ELSE WithHeader(hosted, [name |-> <<"Authorization">>, value |-> o.auth])

-----------------------------------------------------------------------------
(* Properties                                                                *)

\* The message as far as it was captured.
Seen == [msg EXCEPT !.body = SubSeq(@, 1, Len(@) - (Len(Whole) - arrived))]

Known == msg.method \in Methods

\* A request is anywhere between capture and the server.
TypeOK ==
    /\ msg \in Message /\ arrived \in 0 .. Len(Whole)
    /\ phase \in {"assemble", "panic", "modify", "dropped", "written", "sent", "ignored"}
    /\ config \in Config \cup {NoConfig} /\ room \in Room \cup {0}
    /\ phase \in {"written", "sent", "ignored"} <=> out # <<>>
    /\ phase = "sent" <=> sent # <<>>
    /\ output \in Output \cup {NoOutput}

(***************************************************************************)
(* endHint sees the end of a message as soon as it is there, wherever its  *)
(* packets were cut, unless its trailer stands inside the last chunk.      *)
(***************************************************************************)
WholeIsFull ==
    phase = "assemble" /\ arrived = Len(Whole) => msg.trailed

(***************************************************************************)
(* endHint takes no message for complete before its end, except one whose  *)
(* length has a single digit; that one still has all of its headers.       *)
(***************************************************************************)
FullIsWhole ==
    phase = "modify" /\ arrived < Len(Whole) =>
        /\ arrived >= Len(Whole) - Len(msg.body)
        /\ Len(HeaderOf(msg, <<"Content-Length">>)) = 1

(***************************************************************************)
(* endHint panics only when a packet ends at most two bytes behind the     *)
(* carriage return of a chunk's size.                                      *)
(***************************************************************************)
PanicAtLineBreak ==
    phase = "panic" =>
        LET body == SubSeq(Captured, Len(Whole) - Len(msg.body) + 1, arrived)
        IN  arrived < Len(Whole) /\ \E i \in DOMAIN body : i + 2 >= Len(body) /\ body[i] = CR

(***************************************************************************)
(* Filters and edits do to the fields of a request what their options say, *)
(* and to a request with an unknown method nothing.  Two exceptions: a     *)
(* header rule after one whose header is missing is not applied, and edits *)
(* may be lost when the payload outgrows the read buffer on the way and    *)
(* comes out with the length it had.                                       *)
(***************************************************************************)
RewriteExact ==
    LET skipped == \E i, j \in DOMAIN config.rewriteHeader :
                      /\ i < j
                      /\ HeaderOf(Edited(msg, config), config.rewriteHeader[i].name) = <<>>
        lost == /\ Len(Encode(Rewritten(Seen, config))) = arrived
                /\ \E b \in Begun(config) : Len(Encode(Rewritten(Seen, b))) > arrived + room
    IN  /\ phase = "dropped" => Known /\ ~Kept(Seen, config)
        /\ phase = "written" =>
              IF ~Known THEN out = Captured
              ELSE /\ Kept(Seen, config)
                   /\ skipped \/ lost \/ out = Encode(Rewritten(Seen, config))

(***************************************************************************)
(* The request that is sent is the rewritten one with the output's host in *)
(* the place of its own, in its URL if there is one there, else in its     *)
(* Host header, and with the output's credentials; an output that keeps    *)
(* the original host sets none.  Nothing else changes, but a URL that ends *)
(* with its host comes out with that host as its path.                     *)
(***************************************************************************)
HostExact ==
    LET m == Rewritten(Seen, config)
    IN  phase = "sent" /\ out = Encode(m) => sent = Encode(Addressed(m, output))

(***************************************************************************)
(* The end of a message is seen where it is: not later, not earlier, and   *)
(* without a panic, up to the exceptions named above.                      *)
(***************************************************************************)
FramingExact ==
    /\ TypeOK
    /\ WholeIsFull
    /\ FullIsWhole
    /\ PanicAtLineBreak
=============================================================================

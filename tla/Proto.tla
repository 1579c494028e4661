------------------------------- MODULE Proto -------------------------------
(***************************************************************************)
(* proto.go and byteutils.go: HTTP payloads edited where they lie.  A      *)
(* payload is a sequence of bytes; a word that no function looks into is   *)
(* one byte.  Positions start at 1 and 0 is "not found".                   *)
(***************************************************************************)
EXTENDS Integers, SequencesExt

CONSTANT Lower   \* the words that are spelled differently: their lower case

CR == "CR"
LF == "LF"
CRLF == <<CR, LF>>
EmptyLine == CRLF \o CRLF
Blank == {" ", CR, LF}

-----------------------------------------------------------------------------
(* byteutils and bytes                                                       *)

Replace(a, from, to, new) == SubSeq(a, 1, from - 1) \o new \o SubSeq(a, to, Len(a))

Insert(a, i, b) == Replace(a, i, i, b)

Cut(a, from, to) == Replace(a, from, to, <<>>)

IndexByte(s, from, to, c) == SelectInSubSeq(s, from, to, LAMBDA x : x = c)

Index(s, t) ==
    LET at == {i \in 1 .. Len(s) - Len(t) + 1 : SubSeq(s, i, i + Len(t) - 1) = t}
    IN  IF at = {} THEN 0 ELSE Min(at)

EqualFold(s, t) ==
    LET fold(x) == IF x \in DOMAIN Lower THEN Lower[x] ELSE x
    IN  Len(s) = Len(t) /\ \A i \in DOMAIN s : fold(s[i]) = fold(t[i])

-----------------------------------------------------------------------------
(* Headers                                                                   *)

MIMEHeadersStartPos(p) == IF Index(p, CRLF) = 0 THEN 0 ELSE Index(p, CRLF) + 2

MIMEHeadersEndPos(p) == IF Index(p, EmptyLine) = 0 THEN 0 ELSE Index(p, EmptyLine) + 4

Body(p) == IF MIMEHeadersEndPos(p) = 0 THEN <<>> ELSE SubSeq(p, MIMEHeadersEndPos(p), Len(p))

NoHeader == [found |-> FALSE, hs |-> 0, he |-> 0, vs |-> 1, ve |-> 0]

\* The bounds of the value between a colon and the end of its line: blanks around
\* it are skipped, but only as long as something is left.
Trimmed(from, to, text) ==
    CASE from > to -> <<from, to>>
      [] from <= to /\ text = {} -> <<to, to>>
      [] OTHER -> <<Min(text), Max(text)>>

ValueBounds(p, from, to) == Trimmed(from, to, {i \in from .. to : p[i] \notin Blank})

\* A line with its first byte, its colon and its last byte, 0 if there is none.
Line(p, hs, he) ==
    [hs |-> hs, he |-> he, colon |-> IF he = 0 THEN 0 ELSE IndexByte(p, hs, he, ":")]

Lines(p, first) ==
    {Line(p, i, IndexByte(p, i, Len(p), LF)) :
        i \in {j \in first .. Len(p) : j = first \/ p[j - 1] = LF}}

FoundHeader(line, v) ==
    [found |-> TRUE, hs |-> line.hs, he |-> line.he, vs |-> v[1], ve |-> v[2]]

\* The lines are searched up to the first without a colon.
headerIn(p, name, lines) ==
    LET Named(l) == /\ \A k \in lines : k.hs <= l.hs => k.colon # 0
                    /\ EqualFold(SubSeq(p, l.hs, l.colon - 1), name)
        First(l) == \A k \in lines : k.hs < l.hs => ~Named(k)
    IN  IF \A l \in lines : ~Named(l) THEN NoHeader
        ELSE LET l == CHOOSE l \in lines : Named(l) /\ First(l)
             IN  FoundHeader(l, ValueBounds(p, l.colon + 1, l.he - 2))

header(p, name) ==
    IF Index(p, CRLF) = 0 THEN NoHeader
    ELSE headerIn(p, name, Lines(p, MIMEHeadersStartPos(p)))

ValueOf(p, h) == SubSeq(p, h.vs, h.ve)

Header(p, name) == ValueOf(p, header(p, name))

AddHeader(p, name, value) ==
    Insert(p, MIMEHeadersStartPos(p), name \o <<":", " ">> \o value \o CRLF)

SetHeaderAt(p, h, name, value) ==
    IF h.found THEN Replace(p, h.vs, h.ve + 1, value) ELSE AddHeader(p, name, value)

SetHeader(p, name, value) == SetHeaderAt(p, header(p, name), name, value)

DeleteHeaderAt(p, h) == IF h.found THEN Cut(p, h.hs, h.he + 1) ELSE p

DeleteHeader(p, name) == DeleteHeaderAt(p, header(p, name))

-----------------------------------------------------------------------------
(* The first line                                                            *)

Methods == {"CONNECT", "DELETE", "GET", "HEAD", "OPTIONS", "PATCH", "POST", "PUT", "TRACE"}
Versions == {"HTTP/1.0", "HTTP/1.1"}

Method(p) == SubSeq(p, 1, IndexByte(p, 1, Len(p), " ") - 1)

\* Two blanks, a known method and a known version.
HasRequestTitle(p) ==
    LET title == SubSeq(p, 1, Index(p, CRLF) - 1)
        blanks == {i \in DOMAIN title : title[i] = " "}
    IN  /\ \E i, j \in blanks : i < j /\ blanks = {i, j} /\ SubSeq(title, j + 1, Len(title)) \in {<<v>> : v \in Versions}
        /\ Method(p) \in {<<m>> : m \in Methods}

\* http.StatusText, for the statuses in use.
StatusText == [s \in {"200"} |-> <<"OK">>]

\* A known version, a known status and its text.
HasResponseTitle(p) ==
    LET title == SubSeq(p, 1, Index(p, CRLF) - 1)
    IN  /\ Len(title) > 4 /\ title[1] \in Versions /\ title[3] \in DOMAIN StatusText
        /\ SubSeq(title, 5, Len(title)) = StatusText[title[3]]

HasTitle(p) == HasRequestTitle(p) \/ HasResponseTitle(p)

Path(p) ==
    IF ~HasTitle(p) THEN <<>>
    ELSE LET start == IndexByte(p, 1, Len(p), " ") + 1
         IN  SubSeq(p, start, IndexByte(p, start, Len(p), " ") - 1)

SetPath(p, path) ==
    IF ~HasTitle(p) THEN <<>>
    ELSE LET start == IndexByte(p, 1, Len(p), " ") + 1
         IN  Replace(p, start, IndexByte(p, start, Len(p), " "), path)

\* Where the value of a parameter starts and ends: after "&" rather than "?".
PathParam(path, name) ==
    LET more == Index(path, <<"&">> \o name \o <<"=">>)
        only == Index(path, <<"?">> \o name \o <<"=">>)
        vs   == (IF more # 0 THEN more ELSE only) + Len(name) + 2
        next == IndexByte(path, vs, Len(path), "&")
    IN  IF more = 0 /\ only = 0 THEN [found |-> FALSE, vs |-> 1, ve |-> 1]
        ELSE [found |-> TRUE, vs |-> vs, ve |-> IF next = 0 THEN Len(path) + 1 ELSE next]

ParamValue(path, name) ==
    LET v == PathParam(path, name) IN SubSeq(path, v.vs, v.ve - 1)

SetPathParam(p, name, value) ==
    LET path == Path(p)
        v    == PathParam(path, name)
        mark == IF Contains(path, "?") THEN "&" ELSE "?"
    IN  SetPath(p, IF v.found THEN Replace(path, v.vs, v.ve, value)
                   ELSE path \o <<mark>> \o name \o <<"=">> \o value)

\* Mutant: the host of an absolute URL is kept when it is followed by a path.
SetHostHeader(p, url, host) == SetHeader(p, <<"Host">>, host)

\* Requests to a proxy carry the host in their path, which has a scheme then.
\* Without a slash behind the host, IndexByte's -1 makes hostEnd the slash in front
\* of it.
SetHost(p, url, host) ==
    LET path  == Path(p)
        start == IndexByte(path, 1, Len(path), ":") + 3
        slash == IndexByte(path, start, Len(path), "/")
    IN  IF path # <<>> /\ Head(path) = "http"
        THEN SetPath(p, Replace(path, 1, IF slash = 0 THEN start - 1 ELSE slash, url))
        ELSE SetHeader(p, <<"Host">>, host)

-----------------------------------------------------------------------------
(* Is the payload complete?                                                  *)

hexTable ==
    LET lower == <<"1", "2", "3", "4", "5", "6", "7", "8", "9", "a", "b", "c", "d", "e", "f">>
        upper == <<"A", "B", "C", "D", "E", "F">>
        At(s, d) == SelectInSeq(s, LAMBDA x : x = d)
    IN  [d \in {"0"} \cup ToSet(lower) \cup ToSet(upper) |->
            IF At(upper, d) # 0 THEN At(upper, d) + 9 ELSE At(lower, d)]

\* -1 when s is not a number; what the table does not hold counts as a zero.
atoI(s, base) ==
    FoldLeft(LAMBDA num, c :
                LET v == IF c \in DOMAIN hexTable THEN hexTable[c] ELSE 0
                IN  IF num = -1 \/ v >= base THEN -1 ELSE num * base + v,
             0, s)

Missing == -1   \* CheckChunked: data is missing or malformed
Beyond == -2    \* it slices beyond the capacity, or reads what lies there
Panic == -3     \* it slices beyond the length

\* A chunk of n bytes is followed by its CRLF and at least by the last chunk.
ChunkNeeds(n) == n + 7

\* The length of the chunk size behind e; below 0 without a carriage return.
SizeLen(buf, e) == IndexByte(buf, e + 1, Len(buf), CR) - e - 1

\* The offset behind the last chunk.
CheckChunked(buf) ==
    LET check[e \in 0 .. Len(buf) + 2] ==
          LET sz   == SizeLen(buf, e)
              semi == IndexByte(buf, e + 1, e + sz, ";")
              ext  == IF semi = 0 THEN sz ELSE semi - e - 1
              n    == atoI(SubSeq(buf, e + 1, e + ext), 16)
              data == e + sz + 2
              end  == data + n
          IN  IF sz < 1 \/ n = -1 THEN Missing
              ELSE IF n = 0
              THEN IF data + 2 > Len(buf) THEN Beyond
                   ELSE IF SubSeq(buf, data + 1, data + 2) = CRLF THEN data + 2 ELSE Missing
              ELSE IF data > Len(buf) THEN Panic
              ELSE IF Len(buf) - data < ChunkNeeds(n) \/ SubSeq(buf, end + 1, end + 2) # CRLF THEN Missing
              ELSE check[end + 2]
    IN  check[0]

\* Mutant: a payload is complete when its headers are.
LengthReachedAlways(p) == MIMEHeadersEndPos(p) # 0

\* A length of one digit is not looked at.
LengthReached(p) ==
    LET l == Header(p, <<"Content-Length">>)
    IN  IF Len(l) > 1 THEN atoI(l, 10) = Len(Body(p)) ELSE MIMEHeadersEndPos(p) # 0

\* The possible outcomes: it is complete, it is not, or a panic.
HasFullPayload(p) ==
    LET body == Body(p)
        end  == CheckChunked(body)
        done(b) == IF b THEN "full" ELSE "more"
        full == \/ Header(p, <<"Trailer">>) = <<>>
                \/ Len(body) > end /\ MIMEHeadersEndPos(SubSeq(body, end + 1, Len(body))) # 0
    IN  IF ~Contains(Header(p, <<"Transfer-Encoding">>), "chunked") THEN {done(LengthReached(p))}
        ELSE IF body = <<>> \/ end = Missing THEN {"more"}
        ELSE IF end = Beyond THEN {"more", "panic"}
        ELSE IF end = Panic THEN {"panic"}
        ELSE {done(full)}
=============================================================================

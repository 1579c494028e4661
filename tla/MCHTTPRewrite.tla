--------------------------- MODULE MCHTTPRewrite ---------------------------
(* Messages of every framing, and options that meet in one request.         *)
EXTENDS HTTPRewrite, TLC

MCLower == [X |-> "x"]

H(n, v) == [name |-> <<n>>, value |-> v]
U(b, ps) == [base |-> b, params |-> ps]
M(m, u, hs, b) ==
    [method |-> m, url |-> u, body |-> b, trailed |-> FALSE,
     headers |-> [i \in DOMAIN hs |-> [name  |-> hs[i].name, value |-> hs[i].value,
                                       pad   |-> IF hs[i].value = <<>> THEN <<>> ELSE <<" ">>]]]

Bs(n) == [i \in 1 .. n |-> "byte"]
Slash == U(<<"/", "p">>, <<>>)
Query == U(<<"/", "p">>, <<H("a", <<"1">>), H("b", <<"2">>)>>)
LastChunk == <<"0">> \o EmptyLine
Chunk(size, n) == size \o CRLF \o Bs(n) \o CRLF
TE == H("Transfer-Encoding", <<"chunked">>)
Trailer == H("Trailer", <<"T">>)

MCMessage ==
    {M("GET", Query, <<H("X", <<"v">>), H("Y", <<"w", "v", "v">>)>>, <<>>),
     M("GET", Slash, <<H("Host", <<"old">>), H("x", <<"v">>), H("X", <<"u">>)>>, <<>>),
     M("GET", Slash, <<H("Authorization", <<"Basic", "joe">>), H("Y", <<"v">>)>>, <<>>),
     M("GET", Slash, <<H("Authorization", <<"Basic", "ann">>)>>, <<>>),
     M("PURGE", Slash, <<H("X", <<"v">>)>>, <<>>),
     M("GET", U(<<"http", ":", "/", "/", "old", "/", "p">>, <<>>), <<H("X", <<"v">>)>>, <<>>),
     M("GET", U(<<"http", ":", "/", "/", "old">>, <<>>), <<H("X", <<"v">>)>>, <<>>),
     M("POST", Slash, <<H("Content-Length", <<"3">>)>>, Bs(3)),
     M("POST", Slash, <<H("Content-Length", <<"1", "1">>), H("X", <<>>), H("Y", <<" ">>)>>, Bs(11)),
     M("POST", Slash, <<TE>>, Chunk(<<"1">>, 1) \o Chunk(<<"2", ";", "ext">>, 2) \o LastChunk),
     M("POST", Slash, <<TE>>, Chunk(<<"1", "0">>, 16) \o Chunk(<<"0", "0", "0", "A">>, 10) \o LastChunk),
     M("POST", Slash, <<TE, Trailer>>, LastChunk \o <<"T", ":", "v">> \o CRLF \o CRLF),
     [M("POST", Slash, <<TE, Trailer>>, <<"0">> \o CRLF \o <<"T", ":", "v">> \o CRLF \o CRLF)
        EXCEPT !.trailed = TRUE]}

MCHash == [v \in {<<a>> : a \in {"v", "u", "new", "1", "2", "9", " "}} \cup {<<"w", "v", "v">>, <<"new", "new">>,
                   <<"new", "new", "new">>} |->
              IF v = <<"v">> \/ v = <<"1">> THEN 40 ELSE 50]

F(n, r) == [name |-> <<n>>, regexp |-> r]
P(n, k) == [name |-> <<n>>, percent |-> k]
R(s, t) == [src |-> s, target |-> t]
RH(n, s, t) == [name |-> <<n>>, src |-> s, target |-> t]

Filters ==
    {NoConfig,
     [NoConfig EXCEPT !.methods = {"GET"}],
     [NoConfig EXCEPT !.allowURL = {"a", "q"}],
     [NoConfig EXCEPT !.disallowURL = {"a"}],
     [NoConfig EXCEPT !.allowHeader = {F("X", "v"), F("Y", "w")}],
     [NoConfig EXCEPT !.allowHeader = {F("X", "new")}],
     [NoConfig EXCEPT !.disallowHeader = {F("X", "v")}],
     [NoConfig EXCEPT !.basicAuth = {"joe"}],
     [NoConfig EXCEPT !.headerHash = {P("X", 50)}],
     [NoConfig EXCEPT !.paramHash = {P("a", 50)}]}

MCConfig ==
    {[f EXCEPT !.headers = hs, !.params = ps, !.rewriteURL = us, !.rewriteHeader = rs] :
        f \in Filters,
        hs \in {<<>>, <<H("X", <<"new">>)>>, <<H("Z", <<"z">>)>>,
                \* longer by one, by two, then as long as before
                <<H("X", <<"new", "new">>), H("X", <<"new", "new", "new">>), H("Y", <<"z">>)>>},
        ps \in {<<>>, <<H("a", <<"9">>)>>, <<H("c", <<"3">>)>>},
        us \in {<<>>, <<R("q", "r"), R("p", "q")>>},
        rs \in {<<>>, <<RH("Y", "w", "v"), RH("X", "v", "u")>>}}

\* The second has credentials, the third keeps the original host, the fourth both.
To(url, auth, original) == [baseURL |-> url, host |-> <<"new">>, auth |-> auth, original |-> original]
Address == <<"http", ":", "/", "/", "new">>
Login == <<"http", ":", "/", "/", "me@", "new">>
MCOutput ==
    {To(Address, <<>>, FALSE), To(Login, <<"Basic", "me">>, FALSE),
     To(Address, <<>>, TRUE), To(Login, <<"Basic", "me">>, TRUE)}
=============================================================================

---------------------------- MODULE HTTPModifier ---------------------------
(***************************************************************************)
(* HTTPModifier (http_modifier.go): Rewrite drops a request that a filter  *)
(* excludes and edits the others.  A regular expression is the word it     *)
(* searches for, and its replacement another one.  Rewrite gives every     *)
(* version of the payload on the way, the last of which it returns, or     *)
(* none when the request is dropped.                                       *)
(***************************************************************************)
EXTENDS Proto

CONSTANT Hash   \* fnv32a of a value, modulo 100

Match(regexp, s) == Contains(s, regexp)

NoConfig ==
    [methods |-> {}, headers |-> <<>>, params |-> <<>>,
     allowURL |-> {}, disallowURL |-> {}, allowHeader |-> {}, disallowHeader |-> {},
     basicAuth |-> {}, headerHash |-> {}, paramHash |-> {},
     rewriteURL |-> <<>>, rewriteHeader |-> <<>>]

\* NewHTTPModifier: without an option there is no modifier.
NewHTTPModifier(c) == c # NoConfig

-----------------------------------------------------------------------------
(* Filters                                                                   *)

MethodAllowed(c, p) == c.methods = {} \/ Method(p) \in {<<m>> : m \in c.methods}

URLAllowed(c, p) ==
    /\ c.allowURL = {} \/ \E r \in c.allowURL : Match(r, Path(p))
    /\ \A r \in c.disallowURL : ~Match(r, Path(p))

HeadersAllowed(c, p) ==
    LET Matches(f, v) == v # <<>> /\ Match(f.regexp, v)
    IN  /\ \A f \in c.allowHeader : Matches(f, Header(p, f.name))
        /\ \A f \in c.disallowHeader : ~Matches(f, Header(p, f.name))

\* Credentials are looked at only if they are basic ones.
BasicAuthAllowed(c, p) ==
    LET value == Header(p, <<"Authorization">>)
    IN  value # <<>> /\ Head(value) = "Basic" => \A r \in c.basicAuth : Match(r, Tail(value))

\* A request without the header or the parameter is not limited.
HashAllowed(c, p) ==
    /\ \A f \in c.headerHash :
          LET v == Header(p, f.name) IN v # <<>> => Hash[v] < f.percent
    /\ \A f \in c.paramHash :
          PathParam(Path(p), f.name).found => Hash[ParamValue(Path(p), f.name)] < f.percent

-----------------------------------------------------------------------------
(* Rewriting                                                                 *)

SetHeaders(c, stages) ==
    FoldLeft(LAMBDA s, h : Append(s, SetHeader(Last(s), h.name, h.value)), stages, c.headers)

SetParams(c, stages) ==
    FoldLeft(LAMBDA s, h : Append(s, SetPathParam(Last(s), h.name, h.value)), stages, c.params)

\* The first rule that matches.
RewriteURL(c, stages) ==
    LET p == Last(stages)
        i == SelectInSeq(c.rewriteURL, LAMBDA r : Match(r.src, Path(p)))
    IN  IF i = 0 THEN stages
        ELSE LET r == c.rewriteURL[i]
             IN  Append(stages, SetPath(p, ReplaceAll(Path(p), r.src, r.target)))

\* The rules in front of the first one whose header is missing.
RewriteHeaders(c, stages) ==
    LET rule(s, r) ==
          LET v == Header(Last(s.stages), r.name)
          IN  IF s.done \/ v = <<>> THEN [s EXCEPT !.done = TRUE]
              ELSE IF ~Match(r.src, v) THEN s
              ELSE [s EXCEPT !.stages =
                       Append(@, SetHeader(Last(@), r.name, ReplaceAll(v, r.src, r.target)))]
    IN  FoldLeft(rule, [stages |-> stages, done |-> FALSE], c.rewriteHeader).stages

\* Headers and parameters are set before the filters look at them.
Rewrite(c, p) ==
    LET Allowed(e) == /\ MethodAllowed(c, p) /\ URLAllowed(c, e) /\ HeadersAllowed(c, e)
                      /\ BasicAuthAllowed(c, e) /\ HashAllowed(c, e)
        Continue(set) == IF Allowed(Last(set)) THEN RewriteHeaders(c, RewriteURL(c, set)) ELSE <<>>
    IN  IF HasRequestTitle(p) THEN Continue(SetParams(c, SetHeaders(c, <<p>>))) ELSE <<p>>
=============================================================================

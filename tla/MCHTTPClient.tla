---------------------------- MODULE MCHTTPClient ---------------------------
(* Answers of every framing and status that send tells apart.               *)
EXTENDS HTTPClient

A(s, f, b, i) == [status |-> s, frame |-> f, zero |-> FALSE, body |-> b, interim |-> i]
Body(n) == [j \in 1 .. n |-> "body"]

\* The second and its interim answer fit into the buffer; the third is longer than
\* the response the client accepts; the fifth has data, and the sixth a header, that
\* reads like the last chunk.
MCAnswer ==
    {A("200", 1, Body(1), FALSE), A("200", 0, <<>>, TRUE), A("200", 6, Body(6), FALSE),
     A("200", Chunked, <<>>, FALSE), A("200", Chunked, <<"zero", "end", "body">>, FALSE),
     [A("200", Chunked, Body(1), FALSE) EXCEPT !.zero = TRUE],
     A("200", Unknown, Body(1), FALSE), A("204", Unknown, <<>>, FALSE),
     A("302", 0, <<>>, FALSE), A("304", Unknown, <<>>, FALSE), A("400", 0, <<>>, FALSE)}
ASSUME \A a \in MCAnswer : WellFramed(a)
=============================================================================

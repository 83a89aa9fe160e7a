------------------------------ MODULE MCHandler ------------------------------
(* Instances of Handler for TLC.                                            *)
EXTENDS Handler, TLC

Ask(method, host, range) == [valid |-> TRUE, tls |-> FALSE, method |-> method, host |-> host,
                             range |-> range, encoding |-> FALSE]

Parts == {Header(<<0>>, <<1>>), Header(<<1>>, <<>>), Header(<<>>, <<2>>), Header(<<2>>, <<9>>),
           Header(<<9>>, <<1>>)}

\* Every way to be refused, HEAD, all of the body and parts of it.
Mixed == {Ask(m, "a", <<>>) : m \in {"GET", "HEAD", "POST"}}
           \cup {Ask("GET", "a", <<h>>) : h \in Parts \cup {Garbled}}
           \cup {Ask("GET", "other", <<>>), Ask("GET", "secure", <<>>),
                 [Ask("GET", "a", <<>>) EXCEPT !.valid = FALSE],
                 [Ask("GET", "secure", <<>>) EXCEPT !.tls = TRUE]}

\* With clients that take an encoded body, and one that does not.
Encoding == {[Ask("GET", "zip", <<>>) EXCEPT !.encoding = TRUE], Ask("GET", "zip", <<>>),
             [Ask("GET", "zip", <<Header(<<0>>, <<2>>)>>) EXCEPT !.encoding = TRUE],
             [Ask("HEAD", "zip", <<>>) EXCEPT !.encoding = TRUE]}
All1 == Mixed \cup Encoding

AskedFor == {Requested(q.range[1]) : q \in {x \in Requests : x.range # <<>>}}

\* Bodies without a length, empty, and up to three blocks.
Lengths == {-1, 0, 3}

\* "zip" encodes, "secure" redirects.
Config1 == [h \in Hosts |-> [HttpsRedirect |-> h = "secure", UploadBurst |-> 2,
                             CompressionMaxSize |-> IF h = "zip" THEN 9 ELSE 0]]
=============================================================================

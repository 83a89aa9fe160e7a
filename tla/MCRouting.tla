------------------------------ MODULE MCRouting ------------------------------
(* Instance of Routing for TLC.                                             *)
EXTENDS Routing, TLC

Plain  == [useHttps |-> FALSE]
Secure == [useHttps |-> TRUE]
To(origin) == [origin |-> origin, hostOverride |-> FALSE, ignoreQuery |-> FALSE,
               httpsRedirect |-> FALSE, httpsRedirectPort |-> 0]
Over(origin) == [To(origin) EXCEPT !.hostOverride = TRUE]

O == Host("o", 0)
P == Host("p", 0)
O80 == Host("o", 80)
P80 == Host("p", 80)

Site(origins, hosts, addresses) ==
  [origins |-> origins, hosts |-> hosts, addresses |-> addresses]

\* One origin under two schemes, and a redirect.
Schemes == Site(O :> Secure @@ O80 :> Plain,
                "a" :> To(O) @@ "b" :> [To(O80) EXCEPT !.ignoreQuery = TRUE]
                  @@ "r" :> [To(O) EXCEPT !.httpsRedirect = TRUE, !.httpsRedirectPort = 8443],
                {Host("a", 0), Host("b", 0), Host("r", 8080), Host("stranger", 0)})

\* One origin under two spellings.
Spelt == Site(P :> Plain @@ P80 :> Plain, "c" :> To(P) @@ "d" :> To(P80),
              {Host("c", 80), Host("d", 0)})

\* Two hosts that one origin is asked for by their own names.
Overriding == Site(O80 :> Plain, "a" :> Over(O80) @@ "d" :> Over(O80),
                   {Host("a", 0), Host("a", 80), Host("d", 0)})

\* Such a host that has the name of another one's origin, but not its port.
C == Host("c", 0)
Named == Site(Host("o", 8080) :> Plain @@ C :> Plain,
              "b" :> To(C) @@ "c" :> Over(Host("o", 8080)), {Host("b", 0), Host("c", 0)})

Configurations == {Schemes, Spelt, Overriding, Named}

Escaped == "/a/b" :> "/a/b" @@ "/a%2Fb" :> "/a/b" @@ "/" :> "/"
=============================================================================

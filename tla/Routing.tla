------------------------------- MODULE Routing -------------------------------
(***************************************************************************)
(* Which request is which entry of the cache: cdn/handler.go and writer.go *)
(* make an origin URL and a Host of a request, main.go looks up host and   *)
(* origin in the configuration, and store.go getURLs and getDataPath make  *)
(* the key and the data path of them, for Get and for the purges.          *)
(*                                                                         *)
(* A host is a name with a port, 0 if none is written.  The path of a URL  *)
(* is how it is written: every url.URL that the code makes keeps Path, what*)
(* is decoded of it, and leaves RawPath behind.  The SHA-256 of a key URL  *)
(* stands for the key URL.                                                 *)
(***************************************************************************)
EXTENDS Naturals

CONSTANTS Sites,      \* configurations, with what clients write in the Host header
          Paths,      \* the paths they send, as they escape them
          Rewritten,  \* Rewritten[p]: p decoded by url.Parse and encoded by URL.String
          Queries,    \* the queries they send, "" among them
          ListensTLS  \* the port at which the HTTPS server is reached

Host(name, port) == [name |-> name, port |-> port]
URL(scheme, host, path, query) ==
  [scheme |-> scheme, host |-> host, path |-> path, query |-> query]

\* What URL.String writes is read and written again as it is.
ASSUME PathAssumption == /\ Rewritten \in [Paths -> Paths]
                         /\ \A p \in Paths : Rewritten[Rewritten[p]] = Rewritten[p]

ASSUME QueryAssumption == "" \in Queries

\* Config.Validate: every host has an origin.
ASSUME SiteAssumption ==
  \A c \in Sites :
    /\ \A o \in DOMAIN c.origins : /\ o = Host(o.name, o.port) /\ o.port \in Nat
                                   /\ c.origins[o].useHttps \in BOOLEAN
    /\ \A a \in c.addresses : a = Host(a.name, a.port) /\ a.port \in Nat
    /\ \A h \in DOMAIN c.hosts : /\ c.hosts[h].origin \in DOMAIN c.origins
                                 /\ c.hosts[h].hostOverride \in BOOLEAN
                                 /\ c.hosts[h].ignoreQuery \in BOOLEAN
                                 /\ c.hosts[h].httpsRedirect \in BOOLEAN
                                 /\ c.hosts[h].httpsRedirectPort \in Nat

VARIABLES site,     \* the configuration; it never changes
          content,  \* content[p]: what the data at path p is; its domain: the paths there are
          last      \* what the last call was and what came of it

routingVars == <<site, content, last>>

Origins   == site.origins     \* Config.Origins: host -> [useHttps]
Hosts     == site.hosts       \* Config.Hosts: name -> origin and options
Addresses == site.addresses   \* what clients write in the Host header

Requests == [tls : BOOLEAN, host : Addresses, path : Paths, query : Queries]

-----------------------------------------------------------------------------
(* Handler and _Writer.                                                     *)

DefaultPort(scheme) == IF scheme = "http" THEN 80 ELSE 443

\* strings.TrimSuffix of ":80" or ":443".
Trimmed(scheme, host) == IF host.port = DefaultPort(scheme) THEN Host(host.name, 0) ELSE host

\* cdn.Handler.GetHostConfig knows hosts by their name alone.
Known(q)  == q.host.name \in DOMAIN Hosts
Config(q) == Hosts[q.host.name]

\* cdn.HostConfig.Origin.
OriginScheme(o) == IF Origins[o].useHttps THEN "https" ELSE "http"

Redirects(q) == ~q.tls /\ Config(q).httpsRedirect

Location(q) ==
  LET port == Config(q).httpsRedirectPort IN
  URL("https", Host(q.host.name, IF port = 443 THEN 0 ELSE port), Rewritten[q.path], q.query)

\* setStoreURL: where to ask ...
StoreURL(q) == LET o == Config(q).origin IN
               URL(OriginScheme(o), o, Rewritten[q.path],
                   IF Config(q).ignoreQuery THEN "" ELSE q.query)

\* Seeded fault: the origin's port is left out.
StoreHostPortless(q) == IF Config(q).hostOverride THEN <<Host(q.host.name, 0)>> ELSE <<>>

\* ... and for whom, if not for the origin itself.
StoreHost(q) == IF Config(q).hostOverride
                  THEN <<Host(q.host.name, Config(q).origin.port)>> ELSE <<>>

-----------------------------------------------------------------------------
(* Store.                                                                   *)

\* getURLs.
Base(url) == URL(url.scheme, Trimmed(url.scheme, url.host), Rewritten[url.path], url.query)

\* Seeded fault: the host is not part of the key.
KeyWithoutHost(url, host) == Base(url)

Key(url, host) ==
  URL(url.scheme, Trimmed(url.scheme, IF host = <<>> THEN url.host ELSE host[1]),
      Rewritten[url.path], url.query)

\* Seeded fault: data is kept under the host that is asked for.
DataPathAsked(url, host) == <<Key(url, host).host, Key(url, host)>>

DataPath(url, host) == <<Base(url).host, Key(url, host)>>

\* What startDownload asks the origin for: the connection, and the Host header.
Fetch(url, host) == [url |-> Base(url), header |-> Key(url, host).host]

\* Seeded fault: an origin is looked up by its name without any port.
LimitsOfPortless(url) == LET h == Host(url.host.name, 0) IN
                         IF h \in DOMAIN Origins THEN <<h>> ELSE <<>>

\* store.Config.GetHostConfig: the origin whose limits a download is given, if
\* there is one; the default limits otherwise.
LimitsOf(url) == IF Base(url).host \in DOMAIN Origins THEN <<Base(url).host>> ELSE <<>>

-----------------------------------------------------------------------------
Nothing == [call |-> "none"]

RoutingInit == site \in Sites /\ content = [p \in {} |-> Nothing] /\ last = Nothing

PathOf(q) == DataPath(StoreURL(q), StoreHost(q))

\* MISS and HIT.
Serve(q) ==
  LET p == PathOf(q)
      new == [fetched |-> Fetch(StoreURL(q), StoreHost(q)), limits |-> LimitsOf(StoreURL(q)),
              origin |-> Config(q).origin, path |-> p]
      had == p \in DOMAIN content IN
  /\ content' = IF had THEN content
                ELSE [x \in DOMAIN content \cup {p} |-> IF x = p THEN new ELSE content[x]]
  /\ last' = [call |-> "served", request |-> q, entry |-> IF had THEN content[p] ELSE new]

\* The handler's answer to a request.
Answer(q) ==
  \/ ~Known(q) /\ last' = [call |-> "forbidden", request |-> q] /\ UNCHANGED content
  \/ /\ Known(q) /\ Redirects(q)
     /\ last' = [call |-> "redirected", request |-> q, to |-> Location(q)]
     /\ UNCHANGED content
  \/ Known(q) /\ ~Redirects(q) /\ Serve(q)

Get == \E q \in Requests : Answer(q)

\* A client that is redirected follows, if it reaches the server.
Follow == /\ last.call = "redirected"
          /\ LET to == last.to.host IN
             IF ListensTLS = (IF to.port = 0 THEN 443 ELSE to.port)
               THEN Answer([tls |-> TRUE, host |-> to, path |-> last.to.path,
                            query |-> last.to.query])
               ELSE /\ last' = [call |-> "lost", request |-> last.request]
                    /\ UNCHANGED content

Without(S) == [p \in DOMAIN content \ S |-> content[p]]

\* Purge of one URL, with a Host or without, as the management server passes it;
\* whoever writes the URL may leave out the default port.
Purge == \E o \in DOMAIN Origins, path \in Paths, query \in Queries :
         \E host \in {<<>>} \cup {<<a>> : a \in Addresses} :
           \E spelt \in {o, Trimmed(OriginScheme(o), o)} :
             LET url == URL(OriginScheme(o), spelt, path, query) IN
             /\ content' = Without({DataPath(url, host)})
             /\ last' = [call |-> "purged", url |-> url, host |-> host]

\* The directory of a host.
InHost(host) == {p \in DOMAIN content : p[1] = host}

PurgeHost == \E o \in DOMAIN Origins :
               /\ content' = Without(InHost(o))
               /\ last' = [call |-> IF InHost(o) = {} THEN "notexists" ELSE "hostpurged",
                           host |-> o]

RoutingNext == (Get \/ Follow \/ Purge \/ PurgeHost) /\ UNCHANGED site

RoutingSpec == RoutingInit /\ [][RoutingNext]_routingVars

-----------------------------------------------------------------------------
(* Properties.                                                              *)

\* Hosts that are the same for a client of the scheme.
Port(scheme, host) == IF host.port = 0 THEN DefaultPort(scheme) ELSE host.port
Same(scheme, a, b) == a.name = b.name /\ Port(scheme, a) = Port(scheme, b)

\* What is served is what the request's own origin would answer to the request as
\* Go writes it: whatever else has been cached, two requests meet at one entry only
\* if they differ in no more than how the path is escaped, or in a query that is
\* ignored, and cutting off ports changes nobody's meaning.  The path is not the
\* request's own where escaping matters: /a%2Fb is asked for, kept and purged as
\* /a/b, also if the origin tells the two apart.  A client that is redirected is
\* sent to where the server listens, and to a host it knows.
OwnAnswer ==
  /\ last.call = "served" =>
       LET q == last.request
           o == Config(q).origin
           f == last.entry.fetched IN
       /\ f.url.scheme = OriginScheme(o)
       /\ Same(f.url.scheme, f.url.host, o)
       /\ f.url.path = Rewritten[q.path]
       /\ f.url.query = IF Config(q).ignoreQuery THEN "" ELSE q.query
       /\ Same(f.url.scheme, f.header,
               IF Config(q).hostOverride THEN Host(q.host.name, o.port) ELSE o)
  /\ last.call # "lost"
  /\ last.call = "redirected" => Known([tls |-> TRUE, host |-> last.to.host])

\* Data paths differ in their key, which is what the downloads map goes by.
KeysApart == \A p, r \in DOMAIN content : p[2] = r[2] => p = r

\* Written with the default port of its scheme: what its data is kept under is
\* another spelling.
Respelt(o) == Trimmed(OriginScheme(o), o) # o

\* A purge reaches what it names.  One of a URL reaches the entry of every request
\* that asks its origin for it, however the path is escaped and the default port is
\* written in the URL and in the configuration.  After PurgeHost of the name an origin has in the
\* configuration, and also when that says "host not exists" (mgmtapp.go 146),
\* nothing of that origin is cached, for whatever Host it was asked; unless the
\* name has the default port in it.
PurgeReaches ==
  /\ last.call = "purged" =>
       \A p \in DOMAIN content :
         LET f == content[p].fetched
             wanted == IF last.host = <<>> THEN last.url.host ELSE last.host[1] IN
         ~ /\ f.url.scheme = last.url.scheme
           /\ f.url.path = Rewritten[last.url.path] /\ f.url.query = last.url.query
           /\ Same(f.url.scheme, f.url.host, last.url.host)
           /\ Same(f.url.scheme, f.header, wanted)
  /\ last.call \in {"notexists", "hostpurged"} /\ ~Respelt(last.host) =>
       \A p \in DOMAIN content : content[p].origin # last.host

\* config.yaml 5, maxAge: what is served was kept by the limits of the request's
\* own origin, also if another host's request has fetched it; unless the name
\* has the default port in it.
LimitsAreOwn ==
  last.call = "served" /\ ~Respelt(Config(last.request).origin) =>
    last.entry.limits = <<Config(last.request).origin>>
=============================================================================

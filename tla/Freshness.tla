------------------------------ MODULE Freshness ------------------------------
(***************************************************************************)
(* How long an answer of the origin is kept: httputil/cachecontrol.go reads*)
(* its headers, store/utils.go httpExpires makes a time of them, and       *)
(* store.go startDownload sets it against the configured limits.  One data *)
(* path, whose entry is fetched, served as UPDATING while it is downloaded *)
(* and as HIT after that, and fetched again when it has expired.           *)
(*                                                                         *)
(* A duration is a signed integer of Go: products wrap at 2 * Half.        *)
(***************************************************************************)
EXTENDS Integers, Sequences

CONSTANTS Second,        \* time.Second
          Half,          \* 2^63: durations are -Half .. Half - 1
          Configs,       \* what HostConfig and Config may say
          Answers,       \* what the origin answers
          Horizon        \* how far time goes (a bound)

\* A directive of Cache-Control: val is what follows "=": none, a number of 64
\* bits, or anything else.
Directive(key, val) == [key |-> key, val |-> val]
Empty     == <<>>
Bad       == <<"bad">>
Number(n) == <<"number", n>>

Values    == {Empty, Bad} \cup {Number(n) : n \in -Half .. Half - 1}

ASSUME WordAssumption   == Second \in Nat \ {0} /\ Half \in Nat \ {0}
ASSUME ConfigAssumption ==
  /\ \A c \in Configs : /\ c.MaxSize \in Int
                        /\ {c.MaxAge, c.MaxAge404, c.MinContentAge} \subseteq -Half .. Half - 1
                        /\ c.MaxAgeOverride \in BOOLEAN
  /\ Horizon \in Nat
ASSUME AnswerAssumption ==
  \A a \in Answers : /\ a.status \in Int
                     /\ a.length \in Int             \* ContentLength, -1 if unknown
                     /\ a.control \in Seq([key : STRING, val : Values])
                     /\ a.expires \in Seq(Int)       \* <<>>, or the time of Expires

VARIABLES config,      \* the HostConfig of the origin, and Config.MinContentAge
          now,         \* time.Now
          entry,       \* the data directory: <<>>, or the entry in it
          downloading, \* a download of it is registered: Store.downloads
          outcome      \* what the last Get came to

vars == <<config, now, entry, downloading, outcome>>

-----------------------------------------------------------------------------
(* httputil.CacheControl.                                                   *)

\* What 64 bits keep of a product.
Wrap(x) == ((x + Half) % (2 * Half)) - Half

\* ParseCacheControl is a map: of directives with one name the last one stays.
Named(control, key) == {i \in DOMAIN control : control[i].key = key}
LastOf(S) == CHOOSE i \in S : \A j \in S : j <= i

\* timedDirective: a duration, or -1.
Timed(control, key) ==
  IF Named(control, key) = {} THEN -1
  ELSE LET val == control[LastOf(Named(control, key))].val IN
       IF val \in {Empty, Bad} THEN -1 ELSE Wrap(val[2] * Second)

NoCache(control) == Named(control, "no-cache") # {}

-----------------------------------------------------------------------------
(* httpExpires: <<>> is the zero time.                                      *)

\* Seeded fault: max-age=0 counts as none.
AgeLoose(control) == IF Timed(control, "max-age") <= 0 THEN Timed(control, "s-maxage")
                     ELSE Timed(control, "max-age")

Age(control) == IF Timed(control, "max-age") < 0 THEN Timed(control, "s-maxage")
                ELSE Timed(control, "max-age")

\* An Expires header that does not parse is the zero time, which is before now.
httpExpires(a) ==
  IF a.control # <<>>
    THEN IF NoCache(a.control) \/ Age(a.control) < 0 THEN <<>> ELSE <<now + Age(a.control)>>
    ELSE IF a.expires = <<>> THEN <<>>
         ELSE <<IF a.expires[1] < now THEN now ELSE a.expires[1]>>

-----------------------------------------------------------------------------
(* startDownload.                                                           *)

\* The time an answer is kept by the configuration alone.
Limit(a) == IF config.MaxAge404 > 0 /\ a.status = 404 THEN config.MaxAge404
            ELSE IF config.MaxAge > 0 THEN config.MaxAge ELSE 0

\* Seeded fault: the origin's time replaces the limit whichever is later.
ShortenedNever(a) == IF ~config.MaxAgeOverride /\ httpExpires(a) # <<>> THEN httpExpires(a)[1]
                     ELSE now + Limit(a)

\* Seeded fault: MaxAgeOverride is not looked at.
ShortenedAnyway(a) == IF httpExpires(a) # <<>> /\ httpExpires(a)[1] <= now + Limit(a)
                        THEN httpExpires(a)[1] ELSE now + Limit(a)

\* The origin may shorten it.
Shortened(a) == IF /\ ~config.MaxAgeOverride /\ httpExpires(a) # <<>>
                   /\ httpExpires(a)[1] <= now + Limit(a)
                  THEN httpExpires(a)[1] ELSE now + Limit(a)

\* MinContentAge is below both.
ExpiresAt(a) == IF config.MinContentAge > 0 /\ Shortened(a) < now + config.MinContentAge
                  THEN now + config.MinContentAge ELSE Shortened(a)

TooLarge(a) == config.MaxSize > 0 /\ a.length > config.MaxSize

\* Not to be kept: no plain answer with a length, or expired at once.
Dynamic(a) == \/ (a.status # 200 \/ a.length < 0) /\ a.status # 404
              \/ ExpiresAt(a) <= now

Entry(a) == [created |-> now, expires |-> ExpiresAt(a), answer |-> a]

-----------------------------------------------------------------------------
Init == /\ config \in Configs /\ now = 0
        /\ entry = <<>> /\ downloading = FALSE /\ outcome = "none"

Tick == /\ now < Horizon
        /\ now' = now + 1
        /\ outcome' = "none"
        /\ UNCHANGED <<config, entry, downloading>>

\* The goroutine of the download takes its registration back.
DownloadEnds == /\ downloading
                /\ downloading' = FALSE
                /\ outcome' = "none"
                /\ UNCHANGED <<config, now, entry>>

\* Purge, the cleaner, or the goroutine of a download that failed.
Removed == /\ entry # <<>>
           /\ entry' = <<>>
           /\ outcome' = "none"
           /\ UNCHANGED <<config, now, downloading>>

\* A registration without data is forgotten.
Updating == downloading /\ entry # <<>>
Fresh    == entry # <<>> /\ entry[1].expires > now

\* Get finds what is being downloaded, and does not look at its ExpiresAt.
GetUpdating == /\ Updating
               /\ outcome' = "updating"
               /\ UNCHANGED <<config, now, entry, downloading>>

\* Get finds an entry that has not expired.
GetHit == /\ ~Updating /\ Fresh
          /\ outcome' = "hit"
          /\ UNCHANGED <<config, now, entry, downloading>>

\* Get asks the origin.  What was there goes to trash, whatever the answer.
GetFetch == /\ ~Updating /\ ~Fresh
            /\ \E a \in Answers :
                 IF TooLarge(a) THEN outcome' = "toolarge" /\ entry' = <<>>
                 ELSE IF Dynamic(a) THEN outcome' = "dynamic" /\ entry' = <<>>
                 ELSE outcome' = "miss" /\ entry' = <<Entry(a)>>
            /\ downloading' = (entry' # <<>>)
            /\ UNCHANGED <<config, now>>

\* The origin does not answer: what is expired stays where it is, and is served.
GetFails == /\ ~Updating /\ ~Fresh
            /\ outcome' = IF entry = <<>> THEN "failed" ELSE "stale"
            /\ downloading' = FALSE
            /\ UNCHANGED <<config, now, entry>>

Next == Tick \/ DownloadEnds \/ Removed \/ GetUpdating \/ GetHit \/ GetFetch \/ GetFails

Spec == Init /\ [][Next]_vars

-----------------------------------------------------------------------------
(* Properties.                                                              *)

Longer(a, b)  == IF a >= b THEN a ELSE b
Shorter(a, b) == IF a <= b THEN a ELSE b

Outcomes == {"none", "updating", "hit", "miss", "dynamic", "toolarge", "failed", "stale"}

TypeOK == /\ config \in Configs
          /\ now \in 0 .. Horizon
          /\ downloading \in BOOLEAN /\ outcome \in Outcomes
          /\ \/ entry = <<>>
             \/ entry \in [{1} -> [created : 0 .. now, expires : 1 .. Horizon + Half,
                                   answer : Answers]]

\* What the origin says in true numbers: the last max-age if there is one that
\* is not negative.
Says(control, n) ==
  /\ ~NoCache(control)
  /\ Named(control, "max-age") # {}
  /\ control[LastOf(Named(control, "max-age"))].val = Number(n)
  /\ n >= 0

ObeysMaxAge(e) ==
  ~config.MaxAgeOverride =>
    \A n \in 0 .. Half - 1 :
      Says(e.answer.control, n) =>
        e.expires - e.created <= Longer(n * Second, config.MinContentAge)

\* Where MaxAgeOverride is off and the origin does not say no-cache, no entry
\* outlives the last max-age of its origin, unless the floor keeps it: a product
\* that wraps may only shorten its life.  Expires, s-maxage and what comes with
\* no-cache are only under the bound of AsConfigured.
WithinMaxAge == entry # <<>> => ObeysMaxAge(entry[1])

\* A HIT is never older than the limits allow, although Get reads the clock
\* again and compares with a time computed at another moment.  UPDATING and STALE
\* may be older: Get does not look at ExpiresAt for the one and serves the other
\* because it has passed.
HitsAreYoung ==
  [][outcome' = "hit" =>
       now - entry[1].created < Longer(Limit(entry[1].answer), config.MinContentAge)]_vars

LivesAsConfigured(e) ==
  LET limit == Limit(e.answer)
      life == e.expires - e.created
      Lives(age) == life = Longer(age, config.MinContentAge) IN
  /\ life > 0 /\ life <= Longer(limit, config.MinContentAge)
  /\ config.MaxAgeOverride => Lives(limit)
  /\ ~config.MaxAgeOverride =>
       \A n \in 0 .. Half - 1 :
         Says(e.answer.control, n) /\ n * Second < Half => Lives(Shorter(limit, n * Second))

\* The life of an entry is what origin and configuration make of it: never longer
\* than the limit or the floor, however the origin's numbers wrap; the limit, or the
\* floor, with MaxAgeOverride; the shorter of limit and max-age, or the floor, for a
\* plain max-age that does not wrap.  Nothing is kept that has no time left.
AsConfigured == entry # <<>> => LivesAsConfigured(entry[1])
=============================================================================

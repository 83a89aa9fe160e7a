----------------------------- MODULE EntryProofs -----------------------------
(***************************************************************************)
(* The entry of the cache that a request gets: how long it is kept         *)
(* (Freshness), for any configurations, any answers and any width of the   *)
(* integers, and whose it is (Routing), for any hosts and origins.         *)
(***************************************************************************)
EXTENDS Freshness, Routing, WellFoundedInduction, TLAPS

-----------------------------------------------------------------------------
(* Numbers.                                                                 *)

\* A set of numbers has a least element ...
LEMMA Minimum == ASSUME NEW S \in SUBSET Nat, S # {}
                 PROVE  \E m \in S : \A n \in S : m <= n
<1> DEFINE Less == OpToRel(<, Nat)
<1>1. \E m \in S : \A n \in S : ~ (<<n, m>> \in Less)
  BY NatLessThanWellFounded, WFMin, Zenon
<1>2. \A m, n \in Nat : n < m => <<n, m>> \in Less
  BY DEF OpToRel
<1> HIDE DEF Less
<1>3. PICK m \in S : \A n \in S : ~ (<<n, m>> \in Less)
  BY <1>1
<1>4. \A n \in S : ~ (n < m)
  BY <1>2, <1>3
<1>5. \A n \in S : m <= n
  BY <1>4
<1> QED
  BY <1>5

\* ... and one with a bound a greatest.
LEMMA Maximum == ASSUME NEW n \in Nat, NEW S \in SUBSET (1 .. n), S # {}
                 PROVE  \E m \in S : \A k \in S : k <= m
<1> DEFINE Bounds == {b \in Nat : \A k \in S : k <= b}
<1>1. n \in Bounds
  OBVIOUS
<1>2. PICK b \in Bounds : \A c \in Bounds : b <= c
  <2>1. Bounds \in SUBSET Nat /\ Bounds # {}
    BY <1>1
  <2> HIDE DEF Bounds
  <2> QED
    BY <2>1, Minimum
<1>3. b \in S
  <2> SUFFICES ASSUME b \notin S PROVE FALSE
    OBVIOUS
  <2>1. PICK k \in S : TRUE
    OBVIOUS
  <2>2. b \in Nat /\ b >= 1
    BY <2>1
  <2>3. ASSUME NEW j \in S PROVE j <= b - 1
    <3>1. j <= b /\ j # b /\ j \in Nat
      OBVIOUS
    <3> QED
      BY <3>1, <2>2
  <2>4. b - 1 \in Nat
    BY <2>2
  <2>5. b - 1 \in Bounds
    BY <2>3, <2>4
  <2>6. b <= b - 1
    BY <2>5, <1>2
  <2> QED
    BY <2>2, <2>6
<1> QED
  BY <1>3

\* What 64 bits keep is a duration, for a plain number never more than it, and the
\* number itself if it fits.
LEMMA Wraps == ASSUME NEW x \in Int
               PROVE  /\ Wrap(x) \in -Half .. Half - 1
                      /\ x >= 0 => Wrap(x) <= x
                      /\ x >= 0 /\ x < Half => Wrap(x) = x
<1> DEFINE y == x + Half
           b == 2 * Half
<1>1. b \in Int /\ b > 0 /\ y \in Int /\ Half \in Int /\ Half > 0
  BY WordAssumption
<1>2. y % b \in Int /\ y % b >= 0 /\ y % b < b
  <2> HIDE DEF y, b
  <2> QED
    BY <1>1
<1>3. y >= 0 => y % b <= y
  <2> HIDE DEF y, b
  <2> QED
    BY <1>1
<1>4. y >= 0 /\ y < b => y % b = y
  <2> HIDE DEF y, b
  <2> QED
    BY <1>1
<1>5. Wrap(x) = (y % b) - Half
  BY DEF Wrap
<1> DEFINE m == y % b
<1>6. m \in Int /\ m >= 0 /\ m < 2 * Half /\ (x + Half >= 0 => m <= x + Half)
      /\ (x + Half >= 0 /\ x + Half < 2 * Half => m = x + Half) /\ Wrap(x) = m - Half
  BY <1>2, <1>3, <1>4, <1>5
<1> HIDE DEF m
<1> QED
  BY <1>1, <1>6

-----------------------------------------------------------------------------
(* Freshness.                                                              *)

\* The last of some directives is one of them.
LEMMA LastIsOne == ASSUME NEW control \in Seq([key : STRING, val : Values]), NEW key,
                          Named(control, key) # {}
                   PROVE  LastOf(Named(control, key)) \in Named(control, key)
<1> DEFINE S == Named(control, key)
<1>1. Len(control) \in Nat /\ S \in SUBSET (1 .. Len(control)) /\ S # {}
  BY DEF Named
<1> HIDE DEF S
<1>2. \E m \in S : \A k \in S : k <= m
  BY <1>1, Maximum
<1>3. LastOf(S) \in S
  BY <1>2 DEF LastOf
<1> QED
  BY <1>3 DEF S

\* A directive says a duration, or -1.
LEMMA TimedType == ASSUME NEW control \in Seq([key : STRING, val : Values]), NEW key
                   PROVE  Timed(control, key) \in -Half .. Half - 1
<1>1. CASE Named(control, key) = {}
  BY <1>1, WordAssumption DEF Timed
<1>2. CASE Named(control, key) # {}
  <2> DEFINE i == LastOf(Named(control, key))
  <2>1. i \in DOMAIN control
    BY <1>2, LastIsOne DEF Named
  <2>2. control[i].val \in Values
    <3> DEFINE Directives == [key : STRING, val : Values]
    <3>1. control[i] \in Directives
      <4> HIDE DEF i, Directives
      <4>1. control \in Seq(Directives)
        BY DEF Directives
      <4> QED
        BY <2>1, <4>1
    <3> QED
      BY <3>1
  <2> DEFINE v == control[i].val
  <2>3. Timed(control, key) = IF v \in {Empty, Bad} THEN -1 ELSE Wrap(v[2] * Second)
    BY <1>2 DEF Timed
  <2> HIDE DEF v
  <2>4. CASE v \in {Empty, Bad}
    BY <2>3, <2>4, WordAssumption
  <2>5. ASSUME NEW n \in -Half .. Half - 1, v = Number(n), v \notin {Empty, Bad}
        PROVE  Timed(control, key) \in -Half .. Half - 1
    <3>1. Timed(control, key) = Wrap(n * Second)
      BY <2>3, <2>5 DEF Number
    <3>2. n * Second \in Int
      BY WordAssumption
    <3> QED
      BY <3>1, <3>2, Wraps
  <2> QED
    BY <2>2, <2>4, <2>5 DEF Values, v
<1> QED
  BY <1>1, <1>2

\* What max-age says is the product, as far as it fits.
LEMMA TimedSays == ASSUME NEW control \in Seq([key : STRING, val : Values]),
                          NEW n \in 0 .. Half - 1, Says(control, n)
                   PROVE  Timed(control, "max-age") = Wrap(n * Second)
<1> DEFINE v == control[LastOf(Named(control, "max-age"))].val
<1>1. v = Number(n) /\ Named(control, "max-age") # {}
  BY DEF Says
<1>2. v \notin {Empty, Bad} /\ v[2] = n
  <2> HIDE DEF v
  <2> QED
    BY <1>1 DEF Number, Empty, Bad
<1> QED
  BY <1>1, <1>2 DEF Timed
\* The time of an answer's headers, if it has one.
LEMMA HeaderTime ==
  ASSUME NEW a \in Answers, config \in Configs, now \in Nat
  PROVE  \/ httpExpires(a) = <<>>
         \/ \E t \in Int : /\ httpExpires(a) = <<t>>
                           /\ a.control # <<>> => t = now + Age(a.control) /\ Age(a.control) >= 0
<1>1. Age(a.control) \in Int
  <2>1. a.control \in Seq([key : STRING, val : Values])
    BY AnswerAssumption
  <2>2. /\ Timed(a.control, "max-age") \in -Half .. Half - 1
        /\ Timed(a.control, "s-maxage") \in -Half .. Half - 1
    BY <2>1, TimedType
  <2>3. Age(a.control) \in -Half .. Half - 1
    BY <2>2 DEF Age
  <2> QED
    BY <2>3, WordAssumption
<1>2. CASE a.control # <<>>
  BY <1>1, <1>2 DEF httpExpires
<1>3. CASE a.control = <<>>
  <2>1. a.expires # <<>> => a.expires[1] \in Int
    BY AnswerAssumption
  <2> QED
    BY <1>3, <2>1 DEF httpExpires
<1> QED
  BY <1>2, <1>3

\* ExpiresAt in terms of a life.
LEMMA LimitType == ASSUME NEW a \in Answers, config \in Configs
                   PROVE  /\ Limit(a) \in 0 .. Half - 1
                          /\ config.MinContentAge \in -Half .. Half - 1
                          /\ config.MaxAgeOverride \in BOOLEAN
BY WordAssumption, ConfigAssumption, AnswerAssumption DEF Limit

\* The origin may only shorten the life of an answer, and not at all with
\* MaxAgeOverride.
LEMMA ShortenedTime ==
  ASSUME NEW a \in Answers, config \in Configs, now \in Nat
  PROVE  /\ Shortened(a) \in Int
         /\ Shortened(a) <= now + Limit(a)
         /\ config.MaxAgeOverride => Shortened(a) = now + Limit(a)
<1>1. Limit(a) \in Nat /\ config.MaxAgeOverride \in BOOLEAN
  BY LimitType, WordAssumption
<1>2. CASE httpExpires(a) = <<>>
  BY <1>1, <1>2 DEF Shortened
<1>3. ASSUME NEW t \in Int, httpExpires(a) = <<t>> PROVE
         /\ Shortened(a) \in Int
         /\ Shortened(a) <= now + Limit(a)
         /\ config.MaxAgeOverride => Shortened(a) = now + Limit(a)
  <2>1. Shortened(a) = IF ~config.MaxAgeOverride /\ t <= now + Limit(a)
                         THEN t ELSE now + Limit(a)
    BY <1>3 DEF Shortened
  <2> QED
    BY <1>1, <2>1
<1> QED
  BY <1>2, <1>3, HeaderTime

\* What the origin says, when it is asked.
LEMMA ShortenedSays ==
  ASSUME NEW a \in Answers, config \in Configs, now \in Nat, ~config.MaxAgeOverride,
         NEW n \in 0 .. Half - 1, Says(a.control, n), Wrap(n * Second) >= 0
  PROVE  Shortened(a) = now + Shorter(Limit(a), Wrap(n * Second))
<1> DEFINE w == Wrap(n * Second)
<1>1. n * Second \in Int
  BY WordAssumption
<1>2. w \in Int /\ Limit(a) \in Nat
  BY <1>1, Wraps, LimitType, WordAssumption
<1>3. a.control # <<>> /\ ~NoCache(a.control)
  BY DEF Says, Named
<1>4. Timed(a.control, "max-age") = w
  BY TimedSays, AnswerAssumption
<1>5. Age(a.control) = w
  BY <1>2, <1>4 DEF Age
<1>6. httpExpires(a) = <<now + w>>
  BY <1>2, <1>3, <1>5 DEF httpExpires
<1>7. Shortened(a) = IF now + w <= now + Limit(a) THEN now + w ELSE now + Limit(a)
  BY <1>6 DEF Shortened
<1> HIDE DEF w
<1>8. Shortened(a) = now + Shorter(Limit(a), w)
  BY <1>2, <1>7 DEF Shorter
<1> QED
  BY <1>8 DEF w

\* What is kept lives for what is left of it then, or for the floor.
LEMMA Life ==
  ASSUME NEW a \in Answers, config \in Configs, now \in Nat, ~Dynamic(a)
  PROVE  /\ ExpiresAt(a) \in Int /\ ExpiresAt(a) > now
         /\ ExpiresAt(a) - now = Longer(Shortened(a) - now, config.MinContentAge)
<1>1. Shortened(a) \in Int /\ config.MinContentAge \in Int
  BY ShortenedTime, LimitType, WordAssumption
<1>2. ExpiresAt(a) \in Int
  BY <1>1 DEF ExpiresAt
<1>3. ExpiresAt(a) > now
  BY <1>2 DEF Dynamic
<1> QED
  BY <1>1, <1>2, <1>3 DEF ExpiresAt, Longer

\* What GetFetch keeps obeys max-age and lives as configured.
LEMMA EntryLives ==
  ASSUME NEW a \in Answers, config \in Configs, now \in Nat, ~Dynamic(a)
  PROVE  LET e == Entry(a) IN
         /\ e.created = now /\ e.answer = a /\ e.expires \in now + 1 .. now + Half - 1
         /\ LivesAsConfigured(e) /\ ObeysMaxAge(e)
<1> DEFINE e == Entry(a)
           min == config.MinContentAge
           limit == Limit(a)
           life == e.expires - e.created
<1>1. e.created = now /\ e.answer = a /\ e.expires = ExpiresAt(a)
  BY DEF Entry
<1>2. e.expires \in Int /\ life > 0 /\ life = Longer(Shortened(a) - now, min)
  BY <1>1, Life
<1>3. /\ limit \in 0 .. Half - 1 /\ min \in -Half .. Half - 1
      /\ Half \in Nat \ {0} /\ Second \in Nat \ {0}
  BY LimitType, WordAssumption
<1>4. Shortened(a) \in Int /\ Shortened(a) - now <= limit
  BY ShortenedTime, <1>3
<1> HIDE DEF e, min, limit
<1>5. life <= Longer(limit, min)
  BY <1>1, <1>2, <1>3, <1>4 DEF Longer
<1>6. e.expires \in now + 1 .. now + Half - 1
  BY <1>1, <1>2, <1>3, <1>5 DEF Longer
<1>7. config.MaxAgeOverride => life = Longer(limit, min)
  <2>1. config.MaxAgeOverride => Shortened(a) - now = limit
    BY ShortenedTime, <1>3 DEF limit
  <2> QED
    BY <1>2, <2>1
<1>8. ASSUME ~config.MaxAgeOverride, NEW n \in 0 .. Half - 1, Says(a.control, n)
      PROVE  /\ life <= Longer(n * Second, min)
             /\ n * Second < Half => life = Longer(Shorter(limit, n * Second), min)
  <2> DEFINE x == n * Second
             w == Wrap(x)
  <2>1. x \in Nat
    BY <1>3
  <2>2. w \in Int /\ w <= x /\ (x < Half => w = x)
    <3> HIDE DEF x
    <3> QED
      BY <2>1, Wraps
  <2>3. w >= 0 => Shortened(a) - now = Shorter(limit, w)
    <3>1. w >= 0 => Shortened(a) = now + Shorter(Limit(a), w)
      BY <1>8, ShortenedSays
    <3> HIDE DEF w
    <3> QED
      BY <2>2, <1>3, <1>4, <3>1 DEF Shorter, limit
  <2> HIDE DEF x, w
  <2>4. w < 0 => x >= Half
    BY <1>3, <2>1, <2>2
  <2>5. life <= Longer(x, min)
    BY <1>1, <1>2, <1>3, <1>5, <2>1, <2>2, <2>3, <2>4 DEF Longer, Shorter
  <2>6. x < Half => life = Longer(Shorter(limit, x), min)
    BY <1>2, <2>1, <2>2, <2>3
  <2> QED
    BY <2>5, <2>6 DEF x
<1>9. LivesAsConfigured(e)
  <2>1. e.answer = a /\ Limit(e.answer) = limit
    BY <1>1 DEF limit
  <2> QED
    BY <2>1, <1>2, <1>5, <1>7, <1>8 DEF LivesAsConfigured, min
<1>10. ObeysMaxAge(e)
  BY <1>1, <1>8 DEF ObeysMaxAge, min
<1> QED
  BY <1>1, <1>6, <1>9, <1>10 DEF e

\* The inductive invariant, which the entry's life is the whole of.
FreshIInv ==
  /\ config \in Configs
  /\ now \in 0 .. Horizon
  /\ downloading \in BOOLEAN /\ outcome \in Outcomes
  /\ \/ entry = <<>>
     \/ /\ entry = <<entry[1]>>
        /\ entry[1] \in [created : 0 .. now, expires : 1 .. Horizon + Half, answer : Answers]
        /\ LivesAsConfigured(entry[1]) /\ ObeysMaxAge(entry[1])

\* It implies the invariants of the run.
LEMMA FreshConsequences == FreshIInv => TypeOK /\ WithinMaxAge /\ AsConfigured
<1> SUFFICES ASSUME FreshIInv PROVE TypeOK /\ WithinMaxAge /\ AsConfigured
  OBVIOUS
<1> DEFINE R == [created : 0 .. now, expires : 1 .. Horizon + Half, answer : Answers]
<1>1. TypeOK
  <2>1. ASSUME entry = <<entry[1]>>, entry[1] \in R PROVE entry \in [{1} -> R]
    <3> DEFINE e == entry[1]
    <3>1. entry = <<e>> /\ e \in R
      BY <2>1
    <3> HIDE DEF e, R
    <3>2. <<e>> \in [1 .. 1 -> R] /\ 1 .. 1 = {1}
      BY <3>1
    <3> QED
      BY <3>1, <3>2
  <2> QED
    BY <2>1 DEF FreshIInv, TypeOK
<1>2. WithinMaxAge
  BY DEF FreshIInv, ObeysMaxAge, WithinMaxAge
<1>3. AsConfigured
  BY DEF FreshIInv, LivesAsConfigured, AsConfigured
<1> QED
  BY <1>1, <1>2, <1>3

\* It holds at first.
LEMMA FreshInit == Init => FreshIInv
<1> SUFFICES ASSUME Init PROVE FreshIInv
  OBVIOUS
<1>1. config \in Configs /\ now = 0 /\ entry = <<>> /\ downloading \in BOOLEAN
      /\ outcome \in Outcomes
  BY DEF Init, Outcomes
<1>2. now \in 0 .. Horizon
  BY <1>1, ConfigAssumption
<1> QED
  BY <1>1, <1>2 DEF FreshIInv

\* While the configuration stays, so does what an entry is kept by.
LEMMA EntryStays ==
  ASSUME FreshIInv, config' = config, entry' = entry, now' \in now .. Horizon,
         downloading' \in BOOLEAN, outcome' \in Outcomes
  PROVE  FreshIInv'
<1>1. now \in Nat /\ now' \in 0 .. Horizon
  BY DEF FreshIInv
<1>2. ASSUME entry # <<>>
      PROVE  entry[1] \in [created : 0 .. now', expires : 1 .. Horizon + Half, answer : Answers]
  <2>1. entry[1] \in [created : 0 .. now, expires : 1 .. Horizon + Half, answer : Answers]
    BY <1>2 DEF FreshIInv
  <2>2. 0 .. now \subseteq 0 .. now'
    BY <1>1, ConfigAssumption
  <2> HIDE DEF FreshIInv
  <2> QED
    BY <2>1, <2>2
<1>3. ASSUME entry # <<>> PROVE (LivesAsConfigured(entry[1]) /\ ObeysMaxAge(entry[1]))'
  BY <1>3 DEF FreshIInv, LivesAsConfigured, ObeysMaxAge, Limit
<1>4. entry # <<>> => entry = <<entry[1]>>
  BY DEF FreshIInv
<1>5. config' \in Configs
  BY DEF FreshIInv
<1> HIDE DEF FreshIInv
<1> QED
  BY <1>1, <1>2, <1>3, <1>4, <1>5 DEF FreshIInv

\* Every step preserves it.
LEMMA FreshStep == FreshIInv /\ [Next]_vars => FreshIInv'
<1> SUFFICES ASSUME FreshIInv, [Next]_vars PROVE FreshIInv'
  OBVIOUS
<1>1. now \in 0 .. Horizon /\ config \in Configs /\ outcome \in Outcomes /\ Horizon \in Nat
      /\ downloading \in BOOLEAN
  BY ConfigAssumption DEF FreshIInv
<1>2. CASE Tick
  BY <1>1, <1>2, EntryStays DEF Tick, Outcomes
<1>3. CASE GetHit
  BY <1>1, <1>3, EntryStays DEF GetHit, Outcomes
<1>4. CASE GetFails
  <2>1. downloading' \in BOOLEAN
    BY <1>4 DEF GetFails
  <2>2. UNCHANGED <<config, now, entry>> /\ outcome' \in Outcomes
    BY <1>4 DEF GetFails, Outcomes
  <2> QED
    BY <1>1, <2>1, <2>2, EntryStays
<1>5. CASE UNCHANGED vars
  BY <1>1, <1>5, EntryStays DEF vars
<1>6. ASSUME GetFetch, entry' = <<>>, outcome' \in Outcomes PROVE FreshIInv'
  <2>1. downloading' \in BOOLEAN
    BY <1>6 DEF GetFetch
  <2> QED
    BY <1>1, <1>6, <2>1 DEF GetFetch, FreshIInv
<1>7. ASSUME GetFetch, NEW a \in Answers, ~Dynamic(a), entry' = <<Entry(a)>>, outcome' = "miss"
      PROVE  FreshIInv'
  <2> DEFINE e == Entry(a)
  <2>1. e.created = now /\ e.answer = a /\ e.expires \in now + 1 .. now + Half - 1
        /\ LivesAsConfigured(e) /\ ObeysMaxAge(e)
    BY <1>1, <1>7, EntryLives
  <2>2. e \in [created : 0 .. now, expires : 1 .. Horizon + Half, answer : Answers]
    <3>1. e = [created |-> e.created, expires |-> e.expires, answer |-> e.answer]
      BY DEF Entry
    <3>2. e.created \in 0 .. now /\ e.expires \in 1 .. Horizon + Half
      BY <1>1, <2>1, WordAssumption
    <3> QED
      BY <2>1, <3>1, <3>2
  <2>3. entry' = <<e>> /\ entry'[1] = e
    BY <1>7
  <2>4. UNCHANGED <<config, now>> /\ downloading' \in BOOLEAN
    BY <1>7 DEF GetFetch
  <2>5. (LivesAsConfigured(entry[1]) /\ ObeysMaxAge(entry[1]))'
    <3> HIDE DEF e
    <3> QED
      BY <2>1, <2>3, <2>4 DEF LivesAsConfigured, ObeysMaxAge, Limit
  <2> HIDE DEF e
  <2> QED
    BY <1>1, <1>7, <2>2, <2>3, <2>4, <2>5 DEF FreshIInv, Outcomes
<1>8. CASE GetFetch
  BY <1>6, <1>7, <1>8 DEF GetFetch, Outcomes
<1>9. CASE DownloadEnds
  <2>1. downloading' \in BOOLEAN
    BY <1>9 DEF DownloadEnds
  <2>2. UNCHANGED <<config, now, entry>> /\ outcome' \in Outcomes
    BY <1>9 DEF DownloadEnds, Outcomes
  <2> QED
    BY <1>1, <2>1, <2>2, EntryStays
<1>10. CASE Removed
  BY <1>1, <1>10 DEF Removed, FreshIInv, Outcomes
<1>11. CASE GetUpdating
  BY <1>1, <1>11, EntryStays DEF GetUpdating, Outcomes
<1> QED
  BY <1>2, <1>3, <1>4, <1>5, <1>8, <1>9, <1>10, <1>11 DEF Next

\* The entry has its type at every time, for any configuration and any answers.
THEOREM FreshTypeCorrect == Spec => []TypeOK
BY FreshInit, FreshStep, FreshConsequences, PTL DEF Spec

\* WithinMaxAge: no entry outlives the max-age of its origin, for any width of the
\* integers and however the product wraps.
THEOREM MaxAgeObeyed == Spec => []WithinMaxAge
BY FreshInit, FreshStep, FreshConsequences, PTL DEF Spec

\* AsConfigured: the life of an entry is what configuration and origin make of it.
THEOREM LivesAsMeant == Spec => []AsConfigured
BY FreshInit, FreshStep, FreshConsequences, PTL DEF Spec

\* HitsAreYoung: no HIT is older than limit and floor allow.
THEOREM YoungHits == Spec => HitsAreYoung
<1> DEFINE Young == now - entry[1].created < Longer(Limit(entry[1].answer), config.MinContentAge)
<1>1. FreshIInv /\ [Next]_vars => [outcome' = "hit" => Young]_vars
  <2> SUFFICES ASSUME FreshIInv, Next, outcome' = "hit" PROVE Young
    OBVIOUS
  <2>1. Fresh
    BY DEF Next, Tick, DownloadEnds, Removed, GetUpdating, GetHit, GetFetch, GetFails
  <2>2. entry[1] \in [created : 0 .. now, expires : 1 .. Horizon + Half, answer : Answers]
        /\ entry[1].expires > now /\ LivesAsConfigured(entry[1])
        /\ config \in Configs /\ now \in Nat
    BY <2>1 DEF FreshIInv, Fresh
  <2> DEFINE e == entry[1]
             limit == Limit(e.answer)
             min == config.MinContentAge
  <2>3. limit \in Int /\ min \in Int
    BY <2>2, LimitType, WordAssumption
  <2>4. e.expires - e.created <= Longer(limit, min) /\ e.expires > now
        /\ e.expires \in Int /\ e.created \in Int
    BY <2>2 DEF LivesAsConfigured
  <2> HIDE DEF e, limit, min
  <2>5. now - e.created < Longer(limit, min)
    BY <2>2, <2>3, <2>4 DEF Longer
  <2> QED
    BY <2>5 DEF e, limit, min
<1>2. Init => FreshIInv
  BY FreshInit
<1>3. FreshIInv /\ [Next]_vars => FreshIInv'
  BY FreshStep
<1> QED
  BY <1>1, <1>2, <1>3, PTL DEF Spec, HitsAreYoung

-----------------------------------------------------------------------------
(* Routing.                                                                 *)

\* Every redirect is to the port at which the HTTPS server is reached: what the
\* httpsRedirectPort of the configuration is for.
RedirectsHome ==
  \A h \in DOMAIN Hosts :
    Hosts[h].httpsRedirect =>
      ListensTLS = IF Hosts[h].httpsRedirectPort = 0 THEN 443 ELSE Hosts[h].httpsRedirectPort

\* The Host an origin is asked for, for requests to h.
HeaderFor(h) == IF Hosts[h].hostOverride THEN Host(h, Hosts[h].origin.port) ELSE Hosts[h].origin

\* No host that is asked for by its own name is taken for the origin of another one:
\* nothing in the code makes sure of it, and KeysApart needs it.
NamesApart ==
  \A h, g \in DOMAIN Hosts :
    LET o == Hosts[h].origin
        u == Hosts[g].origin
        s == OriginScheme(o) IN
    /\ Hosts[h].hostOverride /\ ~Hosts[g].hostOverride
    /\ OriginScheme(u) = s /\ Trimmed(s, HeaderFor(h)) = Trimmed(s, u)
    => Trimmed(s, o) = Trimmed(s, u)

\* e is what a request to h has made at p.
MadeFor(h, p, e) ==
  /\ e.origin = Hosts[h].origin
  /\ p[2].scheme = OriginScheme(e.origin)
  /\ p[1] = Trimmed(p[2].scheme, e.origin)
  /\ p[2].host = Trimmed(p[2].scheme, HeaderFor(h))

\* The path tells what e was fetched with, and which limits it was given.
Kept(p, e) ==
  /\ p = <<p[1], URL(p[2].scheme, p[2].host, p[2].path, p[2].query)>>
  /\ e.fetched = [url |-> URL(p[2].scheme, p[1], p[2].path, p[2].query), header |-> p[2].host]
  /\ e.limits = IF p[1] \in DOMAIN Origins THEN <<p[1]>> ELSE <<>>
  /\ \E h \in DOMAIN Hosts : MadeFor(h, p, e)

\* Requests to hosts that are configured.
Askable == [tls : BOOLEAN, host : [name : DOMAIN Hosts, port : Nat], path : Paths,
            query : Queries]

\* What the last call leaves true.
Recorded ==
  /\ last.call = "served" =>
       last.request \in Askable /\ Kept(PathOf(last.request), last.entry)
  /\ last.call = "redirected" =>
       last.request \in Askable /\ Redirects(last.request) /\ last.to = Location(last.request)
  /\ last.call = "purged" =>
       /\ last.url = URL(last.url.scheme, last.url.host, last.url.path, last.url.query)
       /\ last.url.host = Host(last.url.host.name, last.url.host.port)
       /\ \/ last.host = <<>>
          \/ \E a : last.host = <<a>> /\ a = Host(a.name, a.port)
       /\ DataPath(last.url, last.host) \notin DOMAIN content
  /\ last.call \in {"notexists", "hostpurged"} =>
       last.host \in DOMAIN Origins /\ InHost(last.host) = {}

\* The inductive invariant.  Whose entry it is follows from its path alone.
RoutingIInv ==
  /\ site \in Sites
  /\ \A p \in DOMAIN content : Kept(p, content[p])
  /\ Recorded

-----------------------------------------------------------------------------
\* Cutting off a default port changes nobody's meaning, and hosts that mean the same
\* look the same then.
LEMMA TrimmedSame ==
  ASSUME NEW s, NEW a, NEW b, a = Host(a.name, a.port), b = Host(b.name, b.port)
  PROVE  /\ Same(s, Trimmed(s, a), a)
         /\ Same(s, a, b) <=> Trimmed(s, a) = Trimmed(s, b)
         /\ Trimmed(s, Trimmed(s, a)) = Trimmed(s, a)
         /\ Trimmed(s, a) = Host(Trimmed(s, a).name, Trimmed(s, a).port)
<1>1. Trimmed(s, a) = Host(a.name, IF a.port = DefaultPort(s) THEN 0 ELSE a.port)
  BY DEF Trimmed
<1>2. Trimmed(s, b) = Host(b.name, IF b.port = DefaultPort(s) THEN 0 ELSE b.port)
  BY DEF Trimmed
<1>3. DefaultPort(s) # 0
  BY DEF DefaultPort
<1> QED
  BY <1>1, <1>2, <1>3 DEF Same, Port, Host, Trimmed

\* What Validate makes sure of, for the configuration in use.
LEMMA SiteFacts ==
  ASSUME site \in Sites
  PROVE  /\ \A o \in DOMAIN Origins : o = Host(o.name, o.port) /\ o.port \in Nat
         /\ \A a \in Addresses : a = Host(a.name, a.port) /\ a.port \in Nat
         /\ \A h \in DOMAIN Hosts : /\ Hosts[h].origin \in DOMAIN Origins
                                    /\ HeaderFor(h) = Host(HeaderFor(h).name, HeaderFor(h).port)
                                    /\ Hosts[h].httpsRedirectPort \in Nat
<1>1. \A o \in DOMAIN Origins : o = Host(o.name, o.port) /\ o.port \in Nat
  BY SiteAssumption DEF Origins
<1>2. \A a \in Addresses : a = Host(a.name, a.port) /\ a.port \in Nat
  BY SiteAssumption DEF Addresses
<1>3. \A h \in DOMAIN Hosts : /\ Hosts[h].origin \in DOMAIN Origins
                              /\ Hosts[h].httpsRedirectPort \in Nat
  BY SiteAssumption DEF Origins, Hosts
<1>4. \A h \in DOMAIN Hosts : HeaderFor(h) = Host(HeaderFor(h).name, HeaderFor(h).port)
  BY <1>1, <1>3 DEF HeaderFor, Host
<1> QED
  BY <1>1, <1>2, <1>3, <1>4


\* Base and Key of a URL.
LEMMA BaseOf ==
  ASSUME NEW s, NEW host, NEW path, NEW query
  PROVE  Base(URL(s, host, path, query)) = URL(s, Trimmed(s, host), Rewritten[path], query)
BY DEF Base, URL

\* The same for a key, without a Host and with one.
LEMMA KeyOf ==
  ASSUME NEW s, NEW host, NEW path, NEW query
  PROVE  /\ Key(URL(s, host, path, query), <<>>) = URL(s, Trimmed(s, host), Rewritten[path], query)
         /\ \A g : Key(URL(s, host, path, query), <<g>>)
                    = URL(s, Trimmed(s, g), Rewritten[path], query)
<1>1. Key(URL(s, host, path, query), <<>>) = URL(s, Trimmed(s, host), Rewritten[path], query)
  BY DEF Key, URL
<1>2. ASSUME NEW g
      PROVE  Key(URL(s, host, path, query), <<g>>) = URL(s, Trimmed(s, g), Rewritten[path], query)
  <2>1. <<g>> # <<>> /\ <<g>>[1] = g
    OBVIOUS
  <2> QED
    BY <2>1 DEF Key, URL
<1> QED
  BY <1>1, <1>2

\* The origin of a request, what it is asked and for whom.
AskedAt(q)   == Hosts[q.host.name].origin
AskedPath(q) == Rewritten[Rewritten[q.path]]
AskedFor(q)  == IF Config(q).ignoreQuery THEN "" ELSE q.query
AskedBy(q)   == OriginScheme(AskedAt(q))

\* What getURLs makes of a request.
LEMMA Asked ==
  ASSUME NEW q
  PROVE  LET s == AskedBy(q)
             base == URL(s, Trimmed(s, AskedAt(q)), AskedPath(q), AskedFor(q))
             key == URL(s, Trimmed(s, HeaderFor(q.host.name)), AskedPath(q), AskedFor(q)) IN
         /\ Base(StoreURL(q)) = base
         /\ Key(StoreURL(q), StoreHost(q)) = key
         /\ PathOf(q) = <<base.host, key>>
<1> DEFINE s == AskedBy(q)
           o == AskedAt(q)
           path == AskedPath(q)
           query == AskedFor(q)
           base == URL(s, Trimmed(s, o), path, query)
           key == URL(s, Trimmed(s, HeaderFor(q.host.name)), path, query)
<1>1. StoreURL(q) = URL(s, o, Rewritten[q.path], query)
  BY DEF StoreURL, Config, AskedAt, AskedBy, AskedFor
<1>2. Base(StoreURL(q)) = base
  BY <1>1, BaseOf DEF AskedPath
<1>3. Key(StoreURL(q), StoreHost(q)) = key
  <2>1. CASE Hosts[q.host.name].hostOverride
    <3>1. StoreHost(q) = <<HeaderFor(q.host.name)>>
      BY <2>1 DEF StoreHost, HeaderFor, Config
    <3> QED
      BY <1>1, <3>1, KeyOf DEF AskedPath
  <2>2. CASE ~Hosts[q.host.name].hostOverride
    <3>1. StoreHost(q) = <<>> /\ HeaderFor(q.host.name) = o
      BY <2>2 DEF StoreHost, HeaderFor, Config, AskedAt
    <3> QED
      BY <1>1, <3>1, KeyOf DEF AskedPath
  <2> QED
    BY <2>1, <2>2
<1>4. PathOf(q) = <<base.host, key>>
  BY <1>2, <1>3 DEF PathOf, DataPath
<1> QED
  BY <1>2, <1>3, <1>4

\* What its data path consists of.
LEMMA PathParts ==
  ASSUME NEW q
  PROVE  LET p == PathOf(q)
             s == AskedBy(q) IN
         /\ p = <<p[1], p[2]>>
         /\ p[1] = Trimmed(s, AskedAt(q))
         /\ p[2] = URL(s, Trimmed(s, HeaderFor(q.host.name)), AskedPath(q), AskedFor(q))
         /\ p[2].scheme = s /\ p[2].path = AskedPath(q) /\ p[2].query = AskedFor(q)
         /\ p[2].host = Trimmed(s, HeaderFor(q.host.name))
<1> DEFINE p == PathOf(q)
           s == AskedBy(q)
           base == URL(s, Trimmed(s, AskedAt(q)), AskedPath(q), AskedFor(q))
           key == URL(s, Trimmed(s, HeaderFor(q.host.name)), AskedPath(q), AskedFor(q))
<1>1. p = <<base.host, key>>
  BY Asked
<1>2. base.host = Trimmed(s, AskedAt(q))
  BY DEF URL
<1>3. key.scheme = s /\ key.path = AskedPath(q) /\ key.query = AskedFor(q)
      /\ key.host = Trimmed(s, HeaderFor(q.host.name))
  BY DEF URL
<1>4. p[1] = base.host /\ p[2] = key
  <2> HIDE DEF base, key, p
  <2> QED
    BY <1>1
<1> HIDE DEF p
<1> QED
  BY <1>1, <1>2, <1>3, <1>4 DEF p

\* What Serve puts there.
Made(q) == [fetched |-> Fetch(StoreURL(q), StoreHost(q)), limits |-> LimitsOf(StoreURL(q)),
            origin |-> Config(q).origin, path |-> PathOf(q)]

\* The entry that a request makes.
LEMMA Makes == ASSUME NEW q \in Askable PROVE Kept(PathOf(q), Made(q))
<1> DEFINE p == PathOf(q)
           e == Made(q)
           h == q.host.name
           s == AskedBy(q)
<1>1. h \in DOMAIN Hosts
  BY DEF Askable
<1>2. /\ p = <<p[1], p[2]>>
      /\ p[1] = Trimmed(s, AskedAt(q))
      /\ p[2] = URL(s, p[2].host, p[2].path, p[2].query)
      /\ p[2].scheme = s
      /\ p[2].host = Trimmed(s, HeaderFor(q.host.name))
  BY PathParts
<1>3. /\ Base(StoreURL(q)) = URL(s, p[1], p[2].path, p[2].query)
      /\ Key(StoreURL(q), StoreHost(q)) = p[2]
  BY Asked, PathParts
<1>4. Base(StoreURL(q)).host = p[1]
  BY <1>3 DEF URL
<1>5. e.fetched = Fetch(StoreURL(q), StoreHost(q)) /\ e.limits = LimitsOf(StoreURL(q))
      /\ e.origin = AskedAt(q)
  BY DEF Made, AskedAt, Config
<1>6. MadeFor(h, p, e)
  <2> HIDE DEF p, e
  <2> QED
    BY <1>2, <1>5 DEF MadeFor, AskedBy, AskedAt
<1>7. e.fetched = [url |-> URL(p[2].scheme, p[1], p[2].path, p[2].query), header |-> p[2].host]
  <2> HIDE DEF p, e
  <2> QED
    BY <1>2, <1>3, <1>5 DEF Fetch
<1>8. e.limits = IF p[1] \in DOMAIN Origins THEN <<p[1]>> ELSE <<>>
  BY <1>4, <1>5 DEF LimitsOf
<1>9. Kept(p, e)
  <2> HIDE DEF p, e, h
  <2> QED
    BY <1>1, <1>2, <1>6, <1>7, <1>8 DEF Kept
<1> QED
  BY <1>9

-----------------------------------------------------------------------------
\* The configuration stays, and with it what an entry has to be.
LEMMA KeptStays == ASSUME site' = site, NEW p, NEW e, Kept(p, e)
                   PROVE  Kept(p, e)'
BY DEF Kept, MadeFor, HeaderFor, OriginScheme, Origins, Hosts

\* ... and what path a request has.
LEMMA PathStays == ASSUME site' = site, NEW q, last'.request = q
                   PROVE  PathOf(last.request)' = PathOf(q)
BY DEF PathOf, DataPath, Base, Key, StoreURL, StoreHost, Config, OriginScheme, Origins, Hosts

\* Recorded, call by call.
LEMMA RecordServed ==
  ASSUME site' = site, NEW q \in Askable, NEW e, Kept(PathOf(q), e),
         last' = [call |-> "served", request |-> q, entry |-> e]
  PROVE  Recorded'
<1>1. last'.call = "served" /\ last'.request = q /\ last'.entry = e
  OBVIOUS
<1>2. last'.request \in Askable'
  BY <1>1 DEF Askable, Hosts
<1>3. PathOf(last.request)' = PathOf(q)
  BY <1>1, PathStays
<1>4. Kept(PathOf(last.request), last.entry)'
  <2> DEFINE p == PathOf(q)
  <2>1. Kept(p, e)
    OBVIOUS
  <2>2. PathOf(last.request)' = p /\ last'.entry = e
    BY <1>1, <1>3
  <2> HIDE DEF p
  <2> QED
    BY <2>1, <2>2 DEF Kept, MadeFor, HeaderFor, OriginScheme, Origins, Hosts
<1> QED
  BY <1>1, <1>2, <1>4 DEF Recorded

\* A redirect is to a host of the configuration.
LEMMA RecordRedirected ==
  ASSUME site' = site, NEW q \in Askable, Redirects(q),
         last' = [call |-> "redirected", request |-> q, to |-> Location(q)]
  PROVE  Recorded'
<1>1. last'.call = "redirected" /\ last'.request = q /\ last'.to = Location(q)
  OBVIOUS
<1>2. last'.request \in Askable'
  BY <1>1 DEF Askable, Hosts
<1>3. Redirects(last.request)' /\ Location(last.request)' = Location(q)
  BY <1>1 DEF Redirects, Location, Config, Hosts
<1> QED
  BY <1>1, <1>2, <1>3 DEF Recorded

\* A purge of a URL leaves nothing at its path.
LEMMA RecordPurged ==
  ASSUME NEW s, NEW h, NEW path, NEW query, NEW host,
         DataPath(URL(s, h, path, query), host) \notin DOMAIN content',
         h = Host(h.name, h.port),
         host = <<>> \/ \E a : host = <<a>> /\ a = Host(a.name, a.port),
         last' = [call |-> "purged", url |-> URL(s, h, path, query), host |-> host]
  PROVE  Recorded'
<1>1. last'.call = "purged" /\ last'.url = URL(s, h, path, query) /\ last'.host = host
  OBVIOUS
<1>2. last'.url = URL(last'.url.scheme, last'.url.host, last'.url.path, last'.url.query)
      /\ last'.url.host = h
  BY <1>1 DEF URL
<1>3. DataPath(last.url, last.host)' = DataPath(URL(s, h, path, query), host)
  BY <1>1 DEF DataPath, Base, Key
<1> QED
  BY <1>1, <1>2, <1>3 DEF Recorded

\* A purge of a host leaves nothing in its directory.
LEMMA RecordPurgedHost ==
  ASSUME site' = site, NEW o \in DOMAIN Origins, InHost(o)' = {},
         last' = [call |-> IF InHost(o) = {} THEN "notexists" ELSE "hostpurged", host |-> o]
  PROVE  Recorded'
<1>1. last'.call \in {"notexists", "hostpurged"} /\ last'.host = o
  OBVIOUS
<1>2. last'.host \in (DOMAIN Origins)' /\ InHost(last.host)' = {}
  BY <1>1 DEF Origins, InHost
<1> QED
  BY <1>1, <1>2 DEF Recorded

\* The parts of the invariant make it, one step later.
LEMMA Recording ==
  ASSUME RoutingIInv, site' = site, Recorded',
         \A p \in DOMAIN content' : Kept(p, content'[p])
  PROVE  RoutingIInv'
<1>1. \A p \in DOMAIN content' : Kept(p, content[p])'
  BY KeptStays DEF Kept, MadeFor, HeaderFor, OriginScheme, Origins, Hosts
<1> QED
  BY <1>1 DEF RoutingIInv

\* MISS and HIT preserve it ...
LEMMA ServeStep ==
  ASSUME RoutingIInv, NEW q \in Askable, site' = site, Serve(q)
  PROVE  RoutingIInv'
<1> DEFINE p == PathOf(q)
<1>1. Kept(p, Made(q)) /\ \A x \in DOMAIN content : Kept(x, content[x])
  BY Makes DEF RoutingIInv
<1>2. CASE p \in DOMAIN content
  <2>1. content' = content /\ last' = [call |-> "served", request |-> q, entry |-> content[p]]
    BY <1>2 DEF Serve
  <2>2. Recorded'
    BY <1>1, <1>2, <2>1, RecordServed
  <2> QED
    BY <1>1, <2>1, <2>2, Recording
<1>3. CASE p \notin DOMAIN content
  <2>1. /\ content' = [x \in DOMAIN content \cup {p} |-> IF x = p THEN Made(q) ELSE content[x]]
        /\ last' = [call |-> "served", request |-> q, entry |-> Made(q)]
    BY <1>3 DEF Serve, Made
  <2>2. Recorded'
    BY <1>1, <2>1, RecordServed
  <2>3. \A x \in DOMAIN content' : Kept(x, content'[x])
    <3> HIDE DEF p
    <3> QED
      BY <1>1, <2>1
  <2> QED
    BY <2>2, <2>3, Recording
<1> QED
  BY <1>2, <1>3

\* ... and so does every answer.
LEMMA AnswerStep ==
  ASSUME RoutingIInv, site' = site, NEW q, Known(q) => q \in Askable, Answer(q)
  PROVE  RoutingIInv'
<1>1. CASE Known(q) /\ ~Redirects(q) /\ Serve(q)
  BY <1>1, ServeStep
<1>2. ASSUME UNCHANGED content, Recorded' PROVE RoutingIInv'
  BY <1>2, Recording DEF RoutingIInv
<1>3. CASE ~Known(q) /\ last' = [call |-> "forbidden", request |-> q] /\ UNCHANGED content
  <2>1. Recorded'
    BY <1>3 DEF Recorded
  <2> QED
    BY <1>2, <1>3, <2>1
<1>4. CASE /\ Known(q) /\ Redirects(q)
           /\ last' = [call |-> "redirected", request |-> q, to |-> Location(q)]
           /\ UNCHANGED content
  BY <1>2, <1>4, RecordRedirected
<1> QED
  BY <1>1, <1>3, <1>4 DEF Answer

\* A request a client writes, and one that a redirect leads to, are to a host of the
\* configuration or forbidden.
LEMMA Written == ASSUME site \in Sites, NEW q \in Requests, Known(q) PROVE q \in Askable
<1>1. q.host = Host(q.host.name, q.host.port) /\ q.host.port \in Nat
  BY SiteFacts DEF Requests
<1>2. q = [tls |-> q.tls, host |-> q.host, path |-> q.path, query |-> q.query]
      /\ q.tls \in BOOLEAN /\ q.path \in Paths
      /\ q.query \in Queries /\ q.host.name \in DOMAIN Hosts
  BY DEF Requests, Known
<1>3. q.host \in [name : DOMAIN Hosts, port : Nat]
  BY <1>1, <1>2 DEF Host
<1> QED
  BY <1>2, <1>3 DEF Askable

\* Location names a host of the configuration.
LEMMA Redirected ==
  ASSUME RoutingIInv, last.call = "redirected"
  PROVE  LET to == last.to.host
             port == Hosts[last.request.host.name].httpsRedirectPort IN
         /\ to.name \in DOMAIN Hosts
         /\ Hosts[to.name].httpsRedirect /\ port = Hosts[to.name].httpsRedirectPort
         /\ to.port = IF port = 443 THEN 0 ELSE port
         /\ [tls |-> TRUE, host |-> to, path |-> last.to.path, query |-> last.to.query] \in Askable
<1> DEFINE q == last.request
           h == q.host.name
           port == Hosts[h].httpsRedirectPort
<1>1. q \in Askable /\ Redirects(q) /\ last.to = Location(q) /\ site \in Sites
  BY DEF RoutingIInv, Recorded
<1>2. h \in DOMAIN Hosts /\ q.query \in Queries /\ Rewritten[q.path] \in Paths
  BY <1>1, PathAssumption DEF Askable
<1>3. port \in Nat /\ Hosts[h].httpsRedirect
  BY <1>1, <1>2, SiteFacts DEF Redirects, Config
<1>4. last.to.host = Host(h, IF port = 443 THEN 0 ELSE port) /\ last.to.query = q.query
      /\ last.to.path = Rewritten[q.path]
  BY <1>1 DEF Location, Config, URL
<1> HIDE DEF q, h, port
<1>5. last.to.host.name = h /\ last.to.host.port = (IF port = 443 THEN 0 ELSE port)
      /\ last.to.host \in [name : DOMAIN Hosts, port : Nat]
  BY <1>2, <1>3, <1>4 DEF Host
<1>6. [tls |-> TRUE, host |-> last.to.host, path |-> last.to.path,
       query |-> last.to.query] \in Askable
  BY <1>2, <1>4, <1>5 DEF Askable
<1> QED
  BY <1>2, <1>3, <1>5, <1>6 DEF q, h, port

\* It holds at first.
LEMMA RoutingInitIInv == RoutingInit => RoutingIInv
BY DEF RoutingInit, RoutingIInv, Recorded, Nothing

\* Requests, ...
LEMMA GetStep == ASSUME RoutingIInv, site' = site, Get PROVE RoutingIInv'
<1>1. PICK q \in Requests : Answer(q)
  BY DEF Get
<1>2. Known(q) => q \in Askable
  BY Written DEF RoutingIInv
<1> QED
  BY <1>1, <1>2, AnswerStep

\* ... redirected ones, ...
LEMMA FollowStep == ASSUME RoutingIInv, site' = site, Follow PROVE RoutingIInv'
<1> DEFINE q == [tls |-> TRUE, host |-> last.to.host, path |-> last.to.path,
                  query |-> last.to.query]
<1>1. q \in Askable
  BY Redirected DEF Follow
<1>2. CASE Answer(q)
  <2> HIDE DEF q
  <2> QED
    BY <1>1, <1>2, AnswerStep
<1>3. CASE last' = [call |-> "lost", request |-> last.request] /\ UNCHANGED content
  <2>1. Recorded'
    BY <1>3 DEF Recorded
  <2> QED
    BY <1>3, <2>1, Recording DEF RoutingIInv
<1> QED
  BY <1>2, <1>3 DEF Follow

\* ... purges of a URL ...
LEMMA PurgeStep == ASSUME RoutingIInv, site' = site, Purge PROVE RoutingIInv'
<1>1. PICK o \in DOMAIN Origins, path \in Paths, query \in Queries :
        \E host \in {<<>>} \cup {<<a>> : a \in Addresses},
           spelt \in {o, Trimmed(OriginScheme(o), o)} :
          /\ content' = Without({DataPath(URL(OriginScheme(o), spelt, path, query), host)})
          /\ last' = [call |-> "purged", url |-> URL(OriginScheme(o), spelt, path, query),
                      host |-> host]
  BY DEF Purge
<1>2. PICK host \in {<<>>} \cup {<<a>> : a \in Addresses},
           spelt \in {o, Trimmed(OriginScheme(o), o)} :
        /\ content' = Without({DataPath(URL(OriginScheme(o), spelt, path, query), host)})
        /\ last' = [call |-> "purged", url |-> URL(OriginScheme(o), spelt, path, query),
                    host |-> host]
  BY <1>1
<1>3. spelt = Host(spelt.name, spelt.port)
  <2>1. o = Host(o.name, o.port)
    BY SiteFacts DEF RoutingIInv
  <2> QED
    BY <2>1, TrimmedSame
<1>4. host = <<>> \/ \E a : host = <<a>> /\ a = Host(a.name, a.port)
  <2>1. \A a \in Addresses : a = Host(a.name, a.port)
    BY SiteFacts DEF RoutingIInv
  <2>2. host = <<>> \/ \E a \in Addresses : host = <<a>>
    OBVIOUS
  <2> QED
    BY <2>1, <2>2
<1>5. DataPath(URL(OriginScheme(o), spelt, path, query), host) \notin DOMAIN content'
  BY <1>2 DEF Without
<1>6. Recorded'
  BY <1>2, <1>3, <1>4, <1>5, RecordPurged
<1>7. \A p \in DOMAIN content' : Kept(p, content'[p])
  BY <1>2 DEF RoutingIInv, Without
<1> QED
  BY <1>6, <1>7, Recording

\* ... and of a host preserve it.
LEMMA PurgeHostStep == ASSUME RoutingIInv, site' = site, PurgeHost PROVE RoutingIInv'
<1>1. PICK o \in DOMAIN Origins :
        /\ content' = Without(InHost(o))
        /\ last' = [call |-> IF InHost(o) = {} THEN "notexists" ELSE "hostpurged", host |-> o]
  BY DEF PurgeHost
<1>2. InHost(o)' = {}
  BY <1>1 DEF Without, InHost
<1>3. Recorded'
  BY <1>1, <1>2, RecordPurgedHost
<1>4. \A p \in DOMAIN content' : Kept(p, content'[p])
  BY <1>1 DEF RoutingIInv, Without
<1> QED
  BY <1>3, <1>4, Recording

\* Every step preserves it.
LEMMA RoutingStep == RoutingIInv /\ [RoutingNext]_routingVars => RoutingIInv'
<1> SUFFICES ASSUME RoutingIInv, [RoutingNext]_routingVars PROVE RoutingIInv'
  OBVIOUS
<1>1. CASE UNCHANGED routingVars
  <2>1. site' = site /\ content' = content /\ last' = last /\ Recorded
    BY <1>1 DEF routingVars, RoutingIInv
  <2>2. ASSUME last.call = "served"
        PROVE  last'.request \in Askable' /\ Kept(PathOf(last.request), last.entry)'
    <3>1. last.request \in Askable /\ Kept(PathOf(last.request), last.entry)
      BY <2>1, <2>2 DEF Recorded
    <3>2. PathOf(last.request)' = PathOf(last.request)
      BY <2>1 DEF PathOf, DataPath, Base, Key, StoreURL, StoreHost, Config, OriginScheme, Origins,
                  Hosts
    <3>3. Kept(PathOf(last.request), last.entry)'
      <4> DEFINE p == PathOf(last.request)
      <4>1. Kept(p, last.entry) /\ p' = p
        BY <3>1, <3>2
      <4>2. Kept(p, last.entry)'
        <5> HIDE DEF p
        <5> QED
          BY <2>1, <4>1 DEF Kept, MadeFor, HeaderFor, OriginScheme, Origins, Hosts
      <4> QED
        BY <4>2
    <3> QED
      BY <2>1, <3>1, <3>3 DEF Askable, Hosts
  <2>3. ASSUME last.call = "redirected"
        PROVE  (last.request \in Askable /\ Redirects(last.request)
                  /\ last.to = Location(last.request))'
    BY <2>1, <2>3 DEF Recorded, Askable, Redirects, Location, Config, Hosts
  <2>4. DataPath(last.url, last.host)' = DataPath(last.url, last.host)
    BY <2>1 DEF DataPath, Base, Key
  <2>5. (DOMAIN Origins)' = DOMAIN Origins /\ InHost(last.host)' = InHost(last.host)
    BY <2>1 DEF Origins, InHost
  <2>6. Recorded'
    BY <2>1, <2>2, <2>3, <2>4, <2>5 DEF Recorded
  <2> QED
    BY <2>1, <2>6, Recording DEF RoutingIInv
<1>2. CASE RoutingNext
  BY <1>2, GetStep, FollowStep, PurgeStep, PurgeHostStep DEF RoutingNext
<1> QED
  BY <1>1, <1>2

-----------------------------------------------------------------------------
\* OwnAnswer follows, but for the redirects that are lost.
LEMMA OriginsOwn ==
  RoutingIInv /\ last.call # "lost" => OwnAnswer
<1> SUFFICES ASSUME RoutingIInv, last.call # "lost" PROVE OwnAnswer
  OBVIOUS
<1>1. ASSUME last.call = "served"
      PROVE  LET q == last.request
                 o == Config(q).origin
                 f == last.entry.fetched IN
             /\ f.url.scheme = OriginScheme(o)
             /\ Same(f.url.scheme, f.url.host, o)
             /\ f.url.path = Rewritten[q.path]
             /\ f.url.query = IF Config(q).ignoreQuery THEN "" ELSE q.query
             /\ Same(f.url.scheme, f.header,
                     IF Config(q).hostOverride THEN Host(q.host.name, o.port) ELSE o)
  <2> DEFINE q == last.request
             h == q.host.name
             o == AskedAt(q)
             s == AskedBy(q)
             p == PathOf(q)
             f == last.entry.fetched
  <2>1. q \in Askable /\ Kept(p, last.entry) /\ site \in Sites
    BY <1>1 DEF RoutingIInv, Recorded
  <2>2. /\ p[1] = Trimmed(s, o) /\ p[2].scheme = s
        /\ p[2].path = AskedPath(q) /\ p[2].query = AskedFor(q)
        /\ p[2].host = Trimmed(s, HeaderFor(h))
    BY PathParts
  <2>3. f = [url |-> URL(s, Trimmed(s, o), AskedPath(q), AskedFor(q)),
             header |-> Trimmed(s, HeaderFor(h))]
    <3> HIDE DEF p, q, s, o, h
    <3> QED
      BY <2>1, <2>2 DEF Kept
  <2>4. /\ o \in DOMAIN Origins /\ o = Host(o.name, o.port)
        /\ HeaderFor(h) = Host(HeaderFor(h).name, HeaderFor(h).port)
    <3>1. h \in DOMAIN Hosts
      BY <2>1 DEF Askable
    <3>2. o \in DOMAIN Origins
      BY <2>1, <3>1, SiteFacts DEF AskedAt
    <3>3. o = Host(o.name, o.port)
      BY <2>1, <3>2, SiteFacts
    <3> QED
      BY <2>1, <3>1, <3>2, <3>3, SiteFacts
  <2>5. Same(s, Trimmed(s, o), o) /\ Same(s, Trimmed(s, HeaderFor(h)), HeaderFor(h))
    <3> HIDE DEF o, h, s
    <3> QED
      BY <2>4, TrimmedSame
  <2>6. /\ f.url.scheme = s /\ f.url.host = Trimmed(s, o) /\ f.url.query = AskedFor(q)
        /\ f.url.path = AskedPath(q)
        /\ f.header = Trimmed(s, HeaderFor(h))
    <3> HIDE DEF p, q, s, o, h, f
    <3> QED
      BY <2>3 DEF URL
  <2>7. /\ o = Config(q).origin /\ s = OriginScheme(o)
        /\ AskedFor(q) = IF Config(q).ignoreQuery THEN "" ELSE q.query
        /\ HeaderFor(h) = IF Config(q).hostOverride THEN Host(q.host.name, o.port) ELSE o
    BY DEF AskedAt, AskedBy, AskedFor, HeaderFor, Config
  <2>8. AskedPath(q) = Rewritten[q.path]
    BY <2>1, PathAssumption DEF AskedPath, Askable
  <2> HIDE DEF o, s, h, p
  <2> QED
    BY <2>5, <2>6, <2>7, <2>8
<1>2. last.call = "redirected" => Known([tls |-> TRUE, host |-> last.to.host])
  BY Redirected DEF Known
<1> QED
  BY <1>1, <1>2 DEF OwnAnswer

\* LimitsAreOwn follows.
LEMMA LimitsOwn == RoutingIInv => LimitsAreOwn
<1> SUFFICES ASSUME RoutingIInv, last.call = "served", ~Respelt(Config(last.request).origin)
             PROVE  last.entry.limits = <<Config(last.request).origin>>
  BY DEF LimitsAreOwn
<1> DEFINE q == last.request
           o == AskedAt(q)
           p == PathOf(q)
<1>1. q \in Askable /\ Kept(p, last.entry) /\ site \in Sites
  BY DEF RoutingIInv, Recorded
<1>2. o = Config(q).origin /\ o \in DOMAIN Origins
  BY <1>1, SiteFacts DEF AskedAt, Config, Askable
<1>3. p[1] = Trimmed(OriginScheme(o), o)
  BY PathParts DEF AskedBy
<1>4. p[1] = o
  BY <1>2, <1>3 DEF Respelt
<1> HIDE DEF o, p
<1> QED
  BY <1>1, <1>2, <1>4 DEF Kept

\* The parts of a path that is in use.
LEMMA KeptParts ==
  ASSUME site \in Sites, NEW p, NEW e, Kept(p, e)
  PROVE  /\ p[1] = Trimmed(p[2].scheme, e.origin) /\ p[1] = Host(p[1].name, p[1].port)
         /\ Trimmed(p[2].scheme, p[1]) = p[1]
         /\ p[2].host = Host(p[2].host.name, p[2].host.port)
         /\ Trimmed(p[2].scheme, p[2].host) = p[2].host
         /\ p[2].scheme = OriginScheme(e.origin)
         /\ e.fetched.url.scheme = p[2].scheme /\ e.fetched.url.query = p[2].query
         /\ e.fetched.url.path = p[2].path
         /\ e.fetched.url.host = p[1] /\ e.fetched.header = p[2].host
<1>1. PICK h \in DOMAIN Hosts : MadeFor(h, p, e)
  BY DEF Kept
<1>2. /\ p[1] = Trimmed(p[2].scheme, e.origin) /\ p[2].host = Trimmed(p[2].scheme, HeaderFor(h))
      /\ e.origin = Hosts[h].origin /\ p[2].scheme = OriginScheme(e.origin)
  BY <1>1 DEF MadeFor
<1>3. e.origin = Host(e.origin.name, e.origin.port)
      /\ HeaderFor(h) = Host(HeaderFor(h).name, HeaderFor(h).port)
  BY <1>2, SiteFacts
<1>4. p[1] = Host(p[1].name, p[1].port) /\ Trimmed(p[2].scheme, p[1]) = p[1]
  BY <1>2, <1>3, TrimmedSame
<1>5. p[2].host = Host(p[2].host.name, p[2].host.port)
      /\ Trimmed(p[2].scheme, p[2].host) = p[2].host
  BY <1>2, <1>3, TrimmedSame
<1>6. /\ e.fetched.url.scheme = p[2].scheme /\ e.fetched.url.query = p[2].query
      /\ e.fetched.url.path = p[2].path
      /\ e.fetched.url.host = p[1] /\ e.fetched.header = p[2].host
  BY DEF Kept, URL
<1> QED
  BY <1>2, <1>4, <1>5, <1>6

\* PurgeReaches follows: what the purge names has the path that is purged.
LEMMA Reaches == RoutingIInv => PurgeReaches
<1> SUFFICES ASSUME RoutingIInv PROVE PurgeReaches
  OBVIOUS
<1> DEFINE wanted == IF last.host = <<>> THEN last.url.host ELSE last.host[1]
<1>1. ASSUME last.call = "purged", NEW p \in DOMAIN content,
             content[p].fetched.url.scheme = last.url.scheme,
             content[p].fetched.url.path = Rewritten[last.url.path],
             content[p].fetched.url.query = last.url.query,
             Same(content[p].fetched.url.scheme, content[p].fetched.url.host, last.url.host),
             Same(content[p].fetched.url.scheme, content[p].fetched.header, wanted)
      PROVE  FALSE
  <2> DEFINE url == last.url
             s == url.scheme
             path == Rewritten[url.path]
  <2>1. /\ url = URL(s, url.host, url.path, url.query)
        /\ url.host = Host(url.host.name, url.host.port)
        /\ \/ last.host = <<>>
           \/ \E a : last.host = <<a>> /\ a = Host(a.name, a.port)
        /\ DataPath(url, last.host) \notin DOMAIN content
        /\ Kept(p, content[p]) /\ site \in Sites
    BY <1>1 DEF RoutingIInv, Recorded
  <2>2. /\ p[1] = Host(p[1].name, p[1].port) /\ Trimmed(s, p[1]) = p[1]
        /\ p[2].host = Host(p[2].host.name, p[2].host.port) /\ Trimmed(s, p[2].host) = p[2].host
        /\ p[2].scheme = s /\ p[2].path = path /\ p[2].query = url.query
        /\ Same(s, p[1], url.host) /\ Same(s, p[2].host, wanted)
    BY <1>1, <2>1, KeptParts
  <2>3. p = <<p[1], URL(s, p[2].host, path, url.query)>>
    BY <2>1, <2>2 DEF Kept
  <2>4. p[1] = Trimmed(s, url.host)
    BY <2>1, <2>2, TrimmedSame
  <2>5. p[2].host = Trimmed(s, wanted)
    <3>1. wanted = Host(wanted.name, wanted.port)
      BY <2>1
    <3> HIDE DEF wanted
    <3> QED
      BY <2>2, <3>1, TrimmedSame
  <2>6. Base(url) = URL(s, p[1], path, url.query)
    <3>1. Base(URL(s, url.host, url.path, url.query))
            = URL(s, Trimmed(s, url.host), path, url.query)
      BY BaseOf
    <3> QED
      BY <2>1, <2>4, <3>1
  <2>7. Key(url, last.host) = URL(s, p[2].host, path, url.query)
    <3>1. CASE last.host = <<>>
      <4>1. Key(URL(s, url.host, url.path, url.query), <<>>)
              = URL(s, Trimmed(s, url.host), path, url.query)
        BY KeyOf
      <4> QED
        BY <2>1, <2>5, <3>1, <4>1
    <3>2. ASSUME NEW a, last.host = <<a>>
          PROVE  Key(url, last.host) = URL(s, p[2].host, path, url.query)
      <4>1. wanted = a
        BY <3>2
      <4>2. Key(URL(s, url.host, url.path, url.query), <<a>>)
              = URL(s, Trimmed(s, a), path, url.query)
        BY KeyOf
      <4> QED
        BY <2>1, <2>5, <3>2, <4>1, <4>2
    <3> QED
      BY <2>1, <3>1, <3>2
  <2>8. DataPath(url, last.host) = p
    <3>1. URL(s, p[1], path, url.query).host = p[1]
      BY DEF URL
    <3> QED
      BY <2>3, <2>6, <2>7, <3>1 DEF DataPath
  <2> QED
    BY <2>1, <2>8
<1>2. ASSUME last.call \in {"notexists", "hostpurged"}, ~Respelt(last.host),
             NEW p \in DOMAIN content, content[p].origin = last.host
      PROVE  FALSE
  <2>1. Kept(p, content[p]) /\ site \in Sites /\ InHost(last.host) = {}
    BY <1>2 DEF RoutingIInv, Recorded
  <2>2. p[1] = Trimmed(OriginScheme(last.host), last.host)
    BY <1>2, <2>1, KeptParts
  <2> QED
    BY <1>2, <2>1, <2>2 DEF Respelt, InHost
<1> QED
  BY <1>1, <1>2 DEF PurgeReaches

\* KeysApart follows, if names are apart.
LEMMA Apart == RoutingIInv /\ NamesApart => KeysApart
<1> SUFFICES ASSUME RoutingIInv, NamesApart, NEW p \in DOMAIN content, NEW r \in DOMAIN content,
                    p[2] = r[2]
             PROVE  p = r
  BY DEF KeysApart
<1>1. Kept(p, content[p]) /\ Kept(r, content[r]) /\ site \in Sites
  BY DEF RoutingIInv
<1>2. PICK h \in DOMAIN Hosts : MadeFor(h, p, content[p])
  BY <1>1 DEF Kept
<1>3. PICK g \in DOMAIN Hosts : MadeFor(g, r, content[r])
  BY <1>1 DEF Kept
<1> DEFINE s == p[2].scheme
           o == Hosts[h].origin
           u == Hosts[g].origin
<1>4. /\ s = OriginScheme(o) /\ s = OriginScheme(u)
      /\ p[1] = Trimmed(s, o) /\ r[1] = Trimmed(s, u)
      /\ Trimmed(s, HeaderFor(h)) = Trimmed(s, HeaderFor(g))
  BY <1>2, <1>3 DEF MadeFor
<1>5. Hosts[h].hostOverride \in BOOLEAN /\ Hosts[g].hostOverride \in BOOLEAN
  BY <1>1, SiteAssumption DEF Hosts
<1>6. p[1] = r[1]
  <2>1. CASE ~Hosts[h].hostOverride /\ ~Hosts[g].hostOverride
    BY <1>4, <2>1 DEF HeaderFor
  <2>2. CASE Hosts[h].hostOverride /\ Hosts[g].hostOverride
    <3>1. HeaderFor(h) = Host(h, o.port) /\ HeaderFor(g) = Host(g, u.port)
      BY <2>2 DEF HeaderFor
    <3>2. Trimmed(s, HeaderFor(h)).name = h /\ Trimmed(s, HeaderFor(g)).name = g
      BY <3>1 DEF Trimmed, Host
    <3> QED
      BY <1>4, <3>2
  <2>3. CASE Hosts[h].hostOverride /\ ~Hosts[g].hostOverride
    <3>1. HeaderFor(g) = u
      BY <2>3 DEF HeaderFor
    <3> QED
      BY <1>4, <2>3, <3>1 DEF NamesApart
  <2>4. CASE ~Hosts[h].hostOverride /\ Hosts[g].hostOverride
    <3>1. HeaderFor(h) = o
      BY <2>4 DEF HeaderFor
    <3> QED
      BY <1>4, <2>4, <3>1 DEF NamesApart
  <2> QED
    BY <1>5, <2>1, <2>2, <2>3, <2>4
<1> QED
  BY <1>1, <1>6 DEF Kept

\* What the hypotheses are about never changes.
LEMMA SiteStays == [RoutingNext]_routingVars => site' = site
BY DEF RoutingNext, routingVars

\* No redirect is lost, if it is to where the server listens.
LEMMA NeverLost ==
  RoutingIInv /\ RedirectsHome /\ last.call # "lost" /\ [RoutingNext]_routingVars
    => (last.call # "lost")'
<1> SUFFICES ASSUME RoutingIInv, RedirectsHome, last.call # "lost", [RoutingNext]_routingVars
             PROVE  (last.call # "lost")'
  OBVIOUS
<1>1. \A q : Answer(q) => (last.call # "lost")'
  BY DEF Answer, Serve
<1>2. CASE UNCHANGED routingVars
  BY <1>2 DEF routingVars
<1>3. CASE Get
  BY <1>1, <1>3 DEF Get
<1>4. CASE Purge
  BY <1>4 DEF Purge
<1>5. CASE PurgeHost
  BY <1>5 DEF PurgeHost
<1>6. CASE Follow
  <2> DEFINE to == last.to.host
             port == Hosts[to.name].httpsRedirectPort
  <2>1. /\ to.name \in DOMAIN Hosts /\ Hosts[to.name].httpsRedirect
        /\ to.port = IF port = 443 THEN 0 ELSE port
    BY <1>6, Redirected DEF Follow
  <2>2. ListensTLS = IF port = 0 THEN 443 ELSE port
    BY <2>1 DEF RedirectsHome
  <2>3. ListensTLS = IF to.port = 0 THEN 443 ELSE to.port
    <3> HIDE DEF to, port
    <3> QED
      BY <2>1, <2>2
  <2> QED
    BY <1>1, <1>6, <2>3 DEF Follow
<1> QED
  BY <1>2, <1>3, <1>4, <1>5, <1>6 DEF RoutingNext

\* OwnAnswer: whatever has been cached before, an answer is one of the request's own
\* origin, and redirects arrive if they are to the port of the server.
THEOREM OwnAnswers == RoutingSpec /\ RedirectsHome => []OwnAnswer
<1> DEFINE Inv == RoutingIInv /\ RedirectsHome /\ last.call # "lost"
<1>1. RoutingInit /\ RedirectsHome => Inv
  BY RoutingInitIInv DEF RoutingInit, Nothing
<1>2. Inv /\ [RoutingNext]_routingVars => Inv'
  <2>1. site' = site /\ RedirectsHome => RedirectsHome'
    BY DEF RedirectsHome, Hosts
  <2> QED
    BY <2>1, RoutingStep, SiteStays, NeverLost
<1>3. Inv => OwnAnswer
  BY OriginsOwn
<1> QED
  BY <1>1, <1>2, <1>3, PTL DEF RoutingSpec

\* KeysApart: two data paths never share a key in the downloads map, if names are
\* apart.
THEOREM DataApart == RoutingSpec /\ NamesApart => []KeysApart
<1> DEFINE Inv == RoutingIInv /\ NamesApart
<1>1. RoutingInit /\ NamesApart => Inv
  BY RoutingInitIInv
<1>2. Inv /\ [RoutingNext]_routingVars => Inv'
  <2>1. ASSUME site' = site, NamesApart PROVE NamesApart'
    <3>1. Hosts' = Hosts /\ Origins' = Origins
      BY <2>1 DEF Hosts, Origins
    <3>2. \A h : HeaderFor(h)' = HeaderFor(h)
      BY <3>1 DEF HeaderFor
    <3>3. \A o : OriginScheme(o)' = OriginScheme(o)
      BY <3>1 DEF OriginScheme
    <3> QED
      BY <2>1, <3>1, <3>2, <3>3 DEF NamesApart
  <2> QED
    BY <2>1, RoutingStep, SiteStays
<1>3. Inv => KeysApart
  BY Apart
<1> QED
  BY <1>1, <1>2, <1>3, PTL DEF RoutingSpec

\* PurgeReaches: a purge reaches every spelling of what it names.
THEOREM PurgesReach == RoutingSpec => []PurgeReaches
BY RoutingInitIInv, RoutingStep, Reaches, PTL DEF RoutingSpec

\* LimitsAreOwn: an entry is kept by the limits of the origin that it is served for.
THEOREM OwnLimits == RoutingSpec => []LimitsAreOwn
BY RoutingInitIInv, RoutingStep, LimitsOwn, PTL DEF RoutingSpec
=============================================================================

--------------------------- MODULE AuditTrailProofs ---------------------------
(***************************************************************************)
(* The audit trail, for any number of events, processes and watchers, any  *)
(* limits and any rules: the programs that read it (Watchers) and, at the  *)
(* end, the chain of hashes it is written as (AuditChain).                 *)
(*                                                                         *)
(* None of the properties is inductive. WatchedOnce and AnomaliesExplained *)
(* follow from FeedInv, CooldownKept from CooldownInv, IndexKeeps from     *)
(* IndexInv, and those of the chain from ChainInv.                         *)
(***************************************************************************)
EXTENDS Watchers, AuditChain, FiniteSetTheorems, WellFoundedInduction, TLAPS

\* The state the feeds work on keeps its type, and only what is recorded was analysed.
FeedTypes ==
    /\ now \in Nat /\ log \in Seq(Events) /\ program \in Deployments
    /\ feed \in [started : BOOLEAN, up : BOOLEAN, latestSeen : Nat \cup {-1}, seenIDs : SUBSET Ids]
    /\ wire \subseteq Ids /\ batch \in Seq(Ids) /\ auditor \in AuditorStates
    /\ handled \in [1..program.events -> Nat] /\ Len(log) <= program.events
    /\ \A i \in 1..program.events : handled[i] > 0 => i \in Ids

\* Timestamps differ, and events end in the order in which they are recorded.
LogInv ==
    /\ \A i, j \in Ids : log[i].ts = log[j].ts => i = j
    /\ \A i \in Ids : /\ log[i].ts + log[i].dur <= now
                      /\ log[i].kind.outcome = None => log[i].dur = 0
    /\ \A i, j \in Ids : i < j => log[i].ts + log[i].dur <= log[j].ts + log[j].dur

InBatch(i) == \E k \in 1..Len(batch) : batch[k] = i

\* What is read is handled once, and a second time only if it may come again.
BatchInv ==
    /\ \A j, k \in 1..Len(batch) : batch[j] = batch[k] => j = k
    /\ \A k \in 1..Len(batch) : handled[batch[k]] > 0 => batch[k] \in again
    /\ \A i \in Ids : handled[i] > 1 => i \in again

\* No later poll brings event i.
Behind(i) == i \in feed.seenIDs \/ log[i].ts < Truncate(feed.latestSeen)

\* What a poller has read lies behind it or may come again, and what lies behind it was
\* read, or is excused.
PollFeed ==
    /\ wire = {} /\ (~feed.started => feed.latestSeen = -1)
    /\ feed.latestSeen = -1 =>
         feed.seenIDs = {} /\ batch = <<>> /\ \A i \in Ids : handled[i] = 0
    /\ feed.latestSeen # -1 =>
         /\ \A i \in Ids : handled[i] > 0 \/ InBatch(i) => Behind(i) \/ i \in again
         /\ \A i \in Ids : Behind(i) => InBatch(i) \/ handled[i] > 0 \/ i \in excused

\* It reads in the order of the timestamps, less the second it reads again.
PollOrder ==
    /\ \A j, k \in 1..Len(batch) : j < k => log[batch[j]].ts < log[batch[k]].ts
    /\ \A k \in 1..Len(batch) : log[batch[k]].ts <= feed.latestSeen
    /\ auditor.lastEventTime \in Nat \cup {-1} /\ auditor.lastEventTime <= feed.latestSeen
    /\ auditor.lastEventTime # -1 =>
         \A k \in 1..Len(batch) : auditor.lastEventTime - Rules.skew <= log[batch[k]].ts
    /\ alarms = {}

\* What is on the wire was not read, and what is not was read, or is excused.
SocketFeed ==
    /\ \A i \in wire : handled[i] = 0 /\ ~InBatch(i)
    /\ \A i \in Ids \ wire : InBatch(i) \/ handled[i] > 0 \/ i \in excused

\* The last timestamp is that of an event that was analysed.
LastInv ==
    /\ auditor.lastEventTime = -1 \/ \E j \in Ids : handled[j] > 0 /\ auditor.lastEventTime = log[j].ts
    /\ alarms \subseteq overtaken

FeedInv ==
    /\ FeedTypes /\ LogInv /\ BatchInv /\ LastInv
    /\ program.mode = "poll" => PollFeed /\ PollOrder
    /\ program.mode = "socket" => SocketFeed

\* A POST that has ended.
EndedPosts == [made : Nat \cup {-1}, answered : Nat \cup {-1}]

\* The cooldown runs from the last answer: what is posted, and what has been.
CooldownInv ==
    /\ Rules.cooldown \in Nat /\ now \in Nat
    /\ last = -Rules.cooldown \/ \E p \in posts : p.answered # -1 /\ p.answered = last
    /\ posts \subseteq EndedPosts
    /\ \A p \in posts : p.made <= now /\ p.answered <= now
    /\ \A p \in posts : p.answered # -1 => p.made <= p.answered /\ p.answered <= last
    /\ post.made # {} => post.madeAt \in Nat
    /\ post.madeAt \in Nat \cup {-1}
    /\ post # Idle => now - last >= Rules.cooldown
    /\ post.madeAt # -1 => /\ post.madeAt <= now /\ post.madeAt - last >= Rules.cooldown
                           /\ \A p \in posts : p.made <= post.madeAt
    /\ CooldownKept

\* Bundles that are listed and that nothing happened to.
Safe == Listed \ (raced \cup harmed)

\* Appends in progress at once are raced; each has read everything that is safe; and while
\* two calls write the file, or one has written under the other, nothing is safe.
IndexInv ==
    /\ bundle \in [Bundles -> BundleStates] /\ index \subseteq Bundles
    /\ raced \subseteq Bundles /\ harmed \subseteq Bundles
    /\ \A a, d \in Appending : a # d => a \in raced
    /\ \A a \in Appending : Safe \subseteq bundle[a].entries
    /\ \A a, d \in Writing : a # d => Safe = {}
    /\ \A a \in Writing : bundle[a].over => a \in raced /\ Safe = {}
    /\ Writing = {} => Safe \subseteq index

-----------------------------------------------------------------------------
(* The poller's operators. *)

\* A set of subsets of a finite set has a smallest member: the induction that the lemmas
\* about finite sets of events rest on.
LEMMA Minimal ==
    ASSUME NEW S, IsFiniteSet(S), NEW C, C \subseteq SUBSET S, C # {}
    PROVE  \E X \in C : \A Y \in C : Y \subseteq X => Y = X
<1> DEFINE R == StrictSubsetOrdering(S)
<1>1. IsWellFoundedOn(R, SUBSET S)
  BY FS_StrictSubsetOrderingWellFounded, FS_FiniteSubsetsOfFinite
<1> HIDE DEF R
<1>2. PICK X \in C : \A Y \in C : ~(<<Y, X>> \in R)
  BY <1>1, WFMin
<1>3. ASSUME NEW Y \in C, Y \subseteq X, Y # X PROVE FALSE
  <2>1. <<Y, X>> \in (SUBSET S) \X (SUBSET S)
    OBVIOUS
  <2>2. <<Y, X>> \in R
    BY <1>3, <2>1 DEF R, StrictSubsetOrdering
  <2> QED BY <1>2, <2>2
<1> QED BY <1>2, <1>3

\* The trail is a finite list of events.
LEMMA LogFacts ==
    ASSUME log \in Seq(Events)
    PROVE  /\ Len(log) \in Nat /\ IsFiniteSet(Ids)
           /\ \A i \in Ids : log[i] \in Events
           /\ \A i \in Ids : log[i].ts \in Nat /\ log[i].dur \in Nat
<1>1. Len(log) \in Nat
  OBVIOUS
<1>2. IsFiniteSet(Ids)
  BY <1>1, FS_Interval DEF Ids
<1>3. \A i \in Ids : log[i] \in Events
  BY <1>1 DEF Ids
<1>4. \A e \in Events : e.ts \in Nat /\ e.dur \in Nat
  BY DEF Events
<1> QED BY <1>1, <1>2, <1>3, <1>4

\* Every non-empty finite set of events has one with the greatest timestamp.
LEMMA Greatest ==
    ASSUME \A i \in Ids : log[i].ts \in Int, NEW S \in SUBSET Ids, IsFiniteSet(S), S # {}
    PROVE  \E m \in S : \A i \in S : log[i].ts <= log[m].ts
<1> DEFINE Has(X) == \E m \in X : \A i \in X : log[i].ts <= log[m].ts
           C == {X \in SUBSET S : X # {} /\ ~Has(X)}
<1> SUFFICES ASSUME C # {} PROVE FALSE
  OBVIOUS
<1>1. PICK X \in C : \A Y \in C : Y \subseteq X => Y = X
  <2> HIDE DEF C
  <2>1. C \subseteq SUBSET S
    BY DEF C
  <2> QED BY <2>1, Minimal
<1>2. PICK x \in X : TRUE
  BY <1>1
<1>3. X \ {x} \subseteq X /\ X \ {x} # X /\ X \ {x} \in SUBSET S
  BY <1>1, <1>2
<1>4. X \ {x} = {} \/ Has(X \ {x})
  BY <1>1, <1>3
<1>5. CASE X \ {x} = {}
  <2>1. X = {x} /\ log[x].ts \in Int
    BY <1>1, <1>2, <1>5
  <2> QED BY <1>1, <2>1
<1>6. CASE Has(X \ {x})
  <2>1. PICK m \in X \ {x} : \A i \in X \ {x} : log[i].ts <= log[m].ts
    BY <1>6
  <2>2. \A i \in X : log[i].ts \in Int
    BY <1>1
  <2>3. CASE log[x].ts <= log[m].ts
    BY <1>1, <2>1, <2>3
  <2>4. CASE log[m].ts <= log[x].ts
    <3>1. \A i \in X : log[i].ts <= log[x].ts
      <4> TAKE i \in X
      <4>1. log[i].ts \in Int /\ log[x].ts \in Int /\ log[m].ts \in Int
        BY <1>2, <2>1, <2>2
      <4>2. i = x \/ log[i].ts <= log[m].ts
        BY <2>1
      <4> QED BY <2>4, <4>1, <4>2
    <3> QED BY <1>1, <1>2, <3>1
  <2> QED BY <2>1, <2>2, <2>3, <2>4
<1> QED BY <1>4, <1>5, <1>6

\* s lists the events of S in the order of their timestamps.
Sorted(s, S) ==
    /\ s \in [1..Cardinality(S) -> S]
    /\ \A j, k \in 1..Cardinality(S) : j < k => log[s[j]].ts < log[s[k]].ts

\* Every finite set of events can be listed in order: by taking its newest off.
LEMMA SortedExists ==
    ASSUME \A i \in Ids : log[i].ts \in Int, \A i, j \in Ids : log[i].ts = log[j].ts => i = j,
           NEW S \in SUBSET Ids, IsFiniteSet(S)
    PROVE  \E s : Sorted(s, S)
<1> DEFINE C == {X \in SUBSET S : ~\E s : Sorted(s, X)}
<1> SUFFICES ASSUME C # {} PROVE FALSE
  OBVIOUS
<1>1. PICK X \in C : \A Y \in C : Y \subseteq X => Y = X
  <2> HIDE DEF C
  <2>1. C \subseteq SUBSET S
    BY DEF C
  <2> QED BY <2>1, Minimal
<1>2. X \in SUBSET S /\ X \in SUBSET Ids /\ IsFiniteSet(X) /\ Cardinality(X) \in Nat
  BY <1>1, FS_Subset, FS_CardinalityType
<1>3. ~\E s : Sorted(s, X)
  BY <1>1
<1>4. X # {}
  <2> SUFFICES ASSUME X = {} PROVE FALSE
    OBVIOUS
  <2>1. Cardinality(X) = 0
    BY FS_EmptySet
  <2>2. Sorted([k \in 1..0 |-> k], X)
    BY <2>1 DEF Sorted
  <2> QED BY <1>3, <2>2
<1>5. PICK m \in X : \A i \in X : log[i].ts <= log[m].ts
  BY <1>2, <1>4, Greatest
<1> DEFINE Y == X \ {m}
           n == Cardinality(Y)
<1>6. IsFiniteSet(Y) /\ n \in Nat /\ Cardinality(X) = n + 1
  <2>1. IsFiniteSet(Y) /\ n = Cardinality(X) - 1
    BY <1>2, <1>5, FS_RemoveElement
  <2>2. n \in Nat
    BY <2>1, FS_CardinalityType
  <2> QED BY <1>2, <2>1, <2>2
<1>7. PICK s : Sorted(s, Y)
  <2>1. Y \subseteq X /\ Y # X /\ Y \in SUBSET S
    BY <1>2, <1>5
  <2> QED BY <1>1, <2>1
<1> DEFINE t == [k \in 1..(n + 1) |-> IF k = n + 1 THEN m ELSE s[k]]
<1>8. \A k \in 1..n : s[k] \in X /\ s[k] # m /\ log[s[k]].ts < log[m].ts
  <2> TAKE k \in 1..n
  <2>1. s[k] \in Y
    BY <1>7 DEF Sorted
  <2>2. s[k] \in X /\ s[k] # m
    BY <2>1
  <2>3. log[s[k]].ts <= log[m].ts /\ log[s[k]].ts # log[m].ts
    BY <1>2, <1>5, <2>2
  <2>4. log[s[k]].ts \in Int /\ log[m].ts \in Int
    BY <1>2, <1>5, <2>2
  <2> QED BY <2>2, <2>3, <2>4
<1>9. \A j, k \in 1..n : j < k => log[s[j]].ts < log[s[k]].ts
  BY <1>7 DEF Sorted
<1> HIDE DEF Y, n
<1>10. t \in [1..(n + 1) -> X]
  BY <1>5, <1>6, <1>8
<1>11. ASSUME NEW j \in 1..(n + 1), NEW k \in 1..(n + 1), j < k PROVE log[t[j]].ts < log[t[k]].ts
  <2>1. j \in 1..n /\ t[j] = s[j]
    BY <1>6, <1>11
  <2>2. CASE k = n + 1
    BY <1>8, <2>1, <2>2
  <2>3. CASE k # n + 1
    <3>1. k \in 1..n /\ t[k] = s[k]
      BY <1>6, <2>3
    <3> QED BY <1>9, <1>11, <2>1, <3>1
  <2> QED BY <2>2, <2>3
<1>12. Sorted(t, X)
  <2> HIDE DEF t
  <2> QED BY <1>6, <1>10, <1>11 DEF Sorted
<1> QED BY <1>3, <1>12

\* Chronological lists its events in order, each once.
LEMMA ChronologicalSorts ==
    ASSUME log \in Seq(Events), \A i, j \in Ids : log[i].ts = log[j].ts => i = j,
           NEW S \in SUBSET Ids
    PROVE  LET s == Chronological(S)
           IN /\ s \in Seq(S)
              /\ \A j, k \in 1..Len(s) : j < k => log[s[j]].ts < log[s[k]].ts
              /\ \A j, k \in 1..Len(s) : s[j] = s[k] => j = k
              /\ \A i \in S : \E k \in 1..Len(s) : s[k] = i
<1> DEFINE n == Cardinality(S)
           s == Chronological(S)
<1>1. \A i \in Ids : log[i] \in Events /\ log[i].ts \in Int
  BY LogFacts
<1>2. IsFiniteSet(S) /\ n \in Nat
  <2>1. IsFiniteSet(S)
    BY LogFacts, FS_Subset
  <2> QED BY <2>1, FS_CardinalityType
<1>3. PICK u : Sorted(u, S)
  BY <1>1, <1>2, SortedExists
<1>4. ASSUME NEW v, Sorted(v, S)
      PROVE  /\ v \in SetToSeqs(S)
             /\ \A j, k \in DOMAIN v : j < k => log[v[j]].ts < log[v[k]].ts
  <2>1. v \in [1..n -> S] /\ \A j, k \in 1..n : j < k => log[v[j]].ts < log[v[k]].ts
    BY <1>4 DEF Sorted
  <2>2. \A j, k \in 1..n : j # k => v[j] # v[k]
    <3> TAKE j, k \in 1..n
    <3> HAVE j # k
    <3>1. log[v[j]].ts \in Int /\ log[v[k]].ts \in Int
      BY <1>1, <2>1
    <3>2. log[v[j]].ts < log[v[k]].ts \/ log[v[k]].ts < log[v[j]].ts
      BY <1>2, <2>1
    <3> QED BY <3>1, <3>2
  <2> QED BY <2>1, <2>2 DEF SetToSeqs
<1>5. /\ s \in SetToSeqs(S)
      /\ \A j, k \in DOMAIN s : j < k => log[s[j]].ts < log[s[k]].ts
  <2>1. /\ u \in SetToSeqs(S)
        /\ \A j, k \in DOMAIN u : j < k => log[u[j]].ts < log[u[k]].ts
    BY <1>3, <1>4
  <2> QED BY <2>1 DEF Chronological
<1> HIDE DEF s
<1>6. s \in [1..n -> S] /\ \A j, k \in 1..n : j # k => s[j] # s[k]
  BY <1>5 DEF SetToSeqs
<1>7. s \in Seq(S) /\ Len(s) = n
  BY <1>2, <1>6
<1>8. s \in Injection(1..n, S)
  BY <1>6 DEF Injection, IsInjective
<1>9. Cardinality(1..n) = n
  BY <1>2, FS_Interval
<1>10. s \in Surjection(1..n, S)
  BY <1>2, <1>8, <1>9, FS_Injection
<1>11. \A i \in S : \E k \in 1..n : s[k] = i
  BY <1>10 DEF Surjection
<1> QED BY <1>5, <1>6, <1>7, <1>11 DEF s

\* Newest is the latest of the timestamps read and of latestSeen.
LEMMA NewestIs ==
    ASSUME log \in Seq(Events), NEW S \in SUBSET Ids, NEW t \in Nat \cup {-1}
    PROVE  /\ Newest(S, t) \in Nat \cup {-1} /\ t <= Newest(S, t)
           /\ \A i \in S : log[i].ts <= Newest(S, t)
           /\ S = {} => Newest(S, t) = t
<1> DEFINE T == {log[i].ts : i \in S} \cup {t}
<1>1. \A i \in Ids : log[i].ts \in Nat
  BY LogFacts
<1>2. T \subseteq Nat \cup {-1} /\ t \in T /\ \A i \in S : log[i].ts \in T
  BY <1>1
<1>3. \E x \in T : \A y \in T : y <= x
  <2>1. CASE S = {}
    BY <2>1
  <2>2. CASE S # {}
    <3>1. IsFiniteSet(S)
      BY LogFacts, FS_Subset
    <3>2. PICK m \in S : \A i \in S : log[i].ts <= log[m].ts
      BY <1>1, <2>2, <3>1, Greatest
    <3>3. log[m].ts \in Nat /\ log[m].ts \in T
      BY <1>1
    <3>4. CASE t <= log[m].ts
      BY <3>2, <3>3, <3>4
    <3>5. CASE log[m].ts <= t
      <4>1. \A i \in S : log[i].ts <= t
        BY <1>1, <3>2, <3>5
      <4> QED BY <4>1
    <3> QED BY <3>3, <3>4, <3>5
  <2> QED BY <2>1, <2>2
<1>4. Newest(S, t) = CHOOSE x \in T : \A y \in T : y <= x
  BY DEF Newest
<1>5. S = {} => T = {t}
  OBVIOUS
<1> HIDE DEF T
<1>6. Newest(S, t) \in T /\ \A y \in T : y <= Newest(S, t)
  BY <1>3, <1>4
<1>7. S = {} => Newest(S, t) = t
  BY <1>5, <1>6
<1>8. t <= Newest(S, t) /\ \A i \in S : log[i].ts <= Newest(S, t)
  BY <1>2, <1>6
<1> QED BY <1>2, <1>6, <1>7, <1>8
\* A timestamp is rounded down by less than a second.
LEMMA TruncateBounds ==
    ASSUME Configured, NEW t \in Int
    PROVE  Truncate(t) \in Int /\ Truncate(t) <= t /\ t - Rules.second < Truncate(t)
<1>1. Rules.second \in Nat /\ Rules.second > 0
  BY DEF Configured
<1>2. t % Rules.second \in 0..(Rules.second - 1)
  BY <1>1
<1> QED BY <1>1, <1>2 DEF Truncate

\* Rounding keeps the order.
LEMMA TruncateMonotone ==
    ASSUME Configured, NEW t \in Int, NEW u \in Int, t <= u
    PROVE  Truncate(t) <= Truncate(u)
<1> DEFINE s == Rules.second
           p == t \div s
           q == u \div s
<1>1. s \in Nat /\ s > 0
  BY DEF Configured
<1> HIDE DEF s
<1>2. p \in Int /\ q \in Int /\ t = s * p + (t % s) /\ u = s * q + (u % s)
  BY <1>1
<1>3. t % s \in 0..(s - 1) /\ u % s \in 0..(s - 1)
  BY <1>1
<1>4. Truncate(t) = s * p /\ Truncate(u) = s * q
  <2>1. Truncate(t) = t - (t % s) /\ Truncate(u) = u - (u % s)
    BY DEF Truncate, s
  <2>2. s * p \in Int /\ s * q \in Int /\ t % s \in Int /\ u % s \in Int
    BY <1>1, <1>2, <1>3
  <2> QED BY <1>2, <2>1, <2>2
<1> HIDE DEF p, q
<1>5. p <= q
  <2> SUFFICES ASSUME p >= q + 1 PROVE FALSE
    BY <1>2
  <2>1. s * p >= s * (q + 1)
    BY <1>1, <1>2
  <2>2. s * (q + 1) = s * q + s
    BY <1>1, <1>2
  <2> QED BY <1>1, <1>2, <1>3, <2>1, <2>2
<1>6. s * p <= s * q
  BY <1>1, <1>2, <1>5
<1> QED BY <1>4, <1>6

\* An event that is new enough is fetched unless too many newer ones crowd it out.
LEMMA QueryIs ==
    ASSUME log \in Seq(Events), NEW since \in Int, NEW limit \in Nat
    PROVE  /\ Query(since, limit) \subseteq {i \in Ids : log[i].ts >= since}
           /\ \A i \in Ids : log[i].ts >= since /\ i \notin Query(since, limit) => i \in Crowded(limit)
<1> DEFINE matching == {i \in Ids : log[i].ts >= since}
<1>1. Query(since, limit) = {i \in matching : Cardinality({j \in matching : log[j].ts > log[i].ts}) < limit}
  BY DEF Query
<1>2. ASSUME NEW i \in Ids, log[i].ts >= since, i \notin Query(since, limit) PROVE i \in Crowded(limit)
  <2> DEFINE M == {j \in matching : log[j].ts > log[i].ts}
             A == {j \in Ids : log[j].ts > log[i].ts}
  <2>1. ~(Cardinality(M) < limit)
    BY <1>1, <1>2
  <2>2. M \in SUBSET A /\ A \in SUBSET Ids
    OBVIOUS
  <2> HIDE DEF M
  <2>3. IsFiniteSet(A) /\ IsFiniteSet(M)
    BY <2>2, LogFacts, FS_Subset
  <2>4. Cardinality(M) \in Nat /\ Cardinality(A) \in Nat /\ Cardinality(M) <= Cardinality(A)
    BY <2>2, <2>3, FS_Subset, FS_CardinalityType
  <2>5. Cardinality(A) >= limit
    BY <2>1, <2>4
  <2> QED BY <2>5 DEF Crowded
<1> QED BY <1>1, <1>2

\* Before anything was recorded nothing is missed.
LEMMA FirstQuery ==
    ASSUME log \in Seq(Events), NEW limit \in Nat
    PROVE  Query(0, limit) \subseteq Ids /\ \A i \in Ids \ Query(0, limit) : i \in Crowded(limit)
<1>1. \A i \in Ids : log[i].ts >= 0
  BY LogFacts
<1> QED BY <1>1, QueryIs

-----------------------------------------------------------------------------
(* The steps of the trail and of the feeds. *)

\* What the parts of the invariant say of a state.
LEMMA FeedFacts ==
    ASSUME Configured, FeedInv
    PROVE  /\ Len(log) \in Nat /\ \A i \in Ids : log[i].ts \in Nat /\ log[i].dur \in Nat
           /\ program \in Deployments /\ program.events \in Nat
           /\ program.mode \in {"poll", "socket"} /\ program.name \in {"auditor", "secbot"}
           /\ program.kinds \subseteq EventKinds
           /\ \A i \in Ids : i \in 1..program.events /\ handled[i] \in Nat
           /\ feed.latestSeen \in Nat \cup {-1} /\ feed.seenIDs \subseteq Ids
           /\ feed.started \in BOOLEAN
           /\ Len(batch) \in Nat /\ \A k \in 1..Len(batch) : batch[k] \in Ids
<1>1. log \in Seq(Events) /\ program \in Deployments /\ Len(log) <= program.events
  BY DEF FeedInv, FeedTypes
<1>2. /\ program.events \in Nat /\ program.kinds \subseteq EventKinds
      /\ program.mode \in {"poll", "socket"} /\ program.name \in {"auditor", "secbot"}
  BY <1>1 DEF Configured
<1>3. Len(log) \in Nat /\ \A i \in Ids : log[i].ts \in Nat /\ log[i].dur \in Nat
  BY <1>1, LogFacts
<1>4. \A i \in Ids : i \in 1..program.events
  BY <1>1, <1>2, <1>3 DEF Ids
<1>5. \A i \in Ids : handled[i] \in Nat
  BY <1>4 DEF FeedInv, FeedTypes
<1>6. feed.latestSeen \in Nat \cup {-1} /\ feed.seenIDs \subseteq Ids /\ feed.started \in BOOLEAN
  BY DEF FeedInv, FeedTypes
<1>7. Len(batch) \in Nat /\ \A k \in 1..Len(batch) : batch[k] \in Ids
  BY DEF FeedInv, FeedTypes
<1> QED BY <1>1, <1>2, <1>3, <1>4, <1>5, <1>6, <1>7
\* Time passes, or a part of the system moves that the feeds do not see.
LEMMA FrameKeeps ==
    ASSUME FeedInv, now' \in Nat, now' >= now,
           UNCHANGED <<log, program, feedVars, watchVars>>
    PROVE  FeedInv'
<1>1. UNCHANGED <<log, program, feed, wire, batch, excused, again, auditor, handled, alarms, overtaken>>
  BY DEF feedVars, watchVars
<1>2. FeedTypes'
  BY <1>1 DEF FeedInv, FeedTypes, Ids
<1>3. LogInv'
  <2>1. \A i \in Ids : log[i].ts + log[i].dur <= now'
    <3>1. now \in Nat /\ \A i \in Ids : log[i].ts \in Nat /\ log[i].dur \in Nat
      BY LogFacts DEF FeedInv, FeedTypes
    <3> QED BY <3>1 DEF FeedInv, LogInv
  <2> QED BY <1>1, <2>1 DEF FeedInv, LogInv, Ids
<1>4. BatchInv' /\ LastInv'
  BY <1>1 DEF FeedInv, BatchInv, LastInv, Ids
<1>5. program'.mode = "poll" => PollFeed' /\ PollOrder'
  BY <1>1 DEF FeedInv, PollFeed, PollOrder, Behind, InBatch, Ids
<1>6. program'.mode = "socket" => SocketFeed'
  BY <1>1 DEF FeedInv, SocketFeed, InBatch, Ids
<1> QED BY <1>2, <1>3, <1>4, <1>5, <1>6 DEF FeedInv

\* An event is recorded: late to a poller, or heard by a socket, or nobody's.
LEMMA RecordKeeps ==
    ASSUME Configured, FeedInv, NEW kind \in program.kinds, NEW dur \in Durations, Record(kind, dur)
    PROVE  FeedInv'
<1> DEFINE new == Len(log) + 1
           e == [kind |-> kind, ts |-> now - dur, dur |-> dur]
           heard == program.mode = "socket" /\ feed.started /\ feed.up
           late == program.mode = "poll" /\ feed.latestSeen # -1 /\ now - dur < Truncate(feed.latestSeen)
<1>1. /\ Len(log) < program.events /\ dur <= now /\ (kind.outcome = None => dur = 0)
      /\ \A i \in Ids : log[i].ts # now - dur
      /\ log' = Append(log, e)
      /\ wire' = (IF heard THEN wire \cup {new} ELSE wire)
      /\ excused' = (IF late \/ (program.mode = "socket" /\ ~heard) THEN excused \cup {new} ELSE excused)
      /\ UNCHANGED <<now, program, feed, batch, again, auditor, handled, alarms, overtaken>>
  BY DEF Record, watchVars
<1>2. /\ log \in Seq(Events) /\ now \in Nat /\ dur \in Nat
      /\ feed \in [started : BOOLEAN, up : BOOLEAN, latestSeen : Nat \cup {-1}, seenIDs : SUBSET Ids]
      /\ wire \subseteq Ids /\ batch \in Seq(Ids) /\ handled \in [1..program.events -> Nat]
      /\ \A i \in 1..program.events : handled[i] > 0 => i \in Ids
  BY DEF FeedInv, FeedTypes, Configured
<1>3. e \in Events /\ e.ts = now - dur /\ e.dur = dur /\ e.kind = kind
  <2>1. now - dur \in Nat /\ kind \in EventKinds
    BY <1>1, <1>2, FeedFacts
  <2> QED BY <1>2, <2>1 DEF Events
<1> HIDE DEF e, heard, late
<1>4. /\ log' \in Seq(Events) /\ Len(log') = new /\ log'[new] = e
      /\ \A i \in Ids : log'[i] = log[i]
  BY <1>1, <1>2, <1>3 DEF Ids
<1>5. Ids' = Ids \cup {new} /\ new \notin Ids /\ new \in 1..program.events
  BY <1>1, <1>4, FeedFacts DEF Ids
<1>6. handled[new] = 0
  BY <1>2, <1>5
<1> HIDE DEF new
<1>7. FeedTypes'
  <2>1. feed' \in [started : BOOLEAN, up : BOOLEAN, latestSeen : Nat \cup {-1}, seenIDs : SUBSET Ids']
    BY <1>1, <1>2, <1>5
  <2>2. wire' \subseteq Ids'
    BY <1>1, <1>2, <1>5
  <2>3. batch' \in Seq(Ids')
    BY <1>1, <1>2, <1>5
  <2>4. Len(log') <= program'.events
    BY <1>1, <1>4, <1>5, FeedFacts
  <2>5. \A i \in 1..program'.events : handled'[i] > 0 => i \in Ids'
    BY <1>1, <1>2, <1>5
  <2> QED BY <1>1, <1>2, <1>4, <2>1, <2>2, <2>3, <2>4, <2>5 DEF FeedTypes, FeedInv
<1>8. LogInv'
  <2>1. \A i \in Ids : log[i].ts \in Nat /\ log[i].dur \in Nat /\ log[i].ts + log[i].dur <= now
    BY FeedFacts DEF FeedInv, LogInv
  <2>2. log'[new].ts + log'[new].dur = now /\ log'[new].kind = kind /\ log'[new].dur = dur
        /\ log'[new].ts = now - dur
    BY <1>2, <1>3, <1>4
  <2>3. \A i, j \in Ids' : log'[i].ts = log'[j].ts => i = j
    <3> TAKE i, j \in Ids'
    <3>1. CASE i \in Ids /\ j \in Ids
      BY <1>4, <3>1 DEF FeedInv, LogInv
    <3>2. CASE i \in Ids /\ j = new
      BY <1>1, <1>4, <2>2, <3>2
    <3>3. CASE i = new /\ j \in Ids
      BY <1>1, <1>4, <2>2, <3>3
    <3> QED BY <1>5, <3>1, <3>2, <3>3
  <2>4. \A i \in Ids' : /\ log'[i].ts + log'[i].dur <= now
                        /\ log'[i].kind.outcome = None => log'[i].dur = 0
    <3>1. \A i \in Ids : log[i].kind.outcome = None => log[i].dur = 0
      BY DEF FeedInv, LogInv
    <3>2. \A i \in Ids : /\ log'[i].ts + log'[i].dur <= now
                         /\ log'[i].kind.outcome = None => log'[i].dur = 0
      BY <1>4, <2>1, <3>1
    <3>3. /\ log'[new].ts + log'[new].dur <= now
          /\ log'[new].kind.outcome = None => log'[new].dur = 0
      BY <1>1, <1>2, <2>2
    <3> QED BY <1>5, <3>2, <3>3
  <2>5. ASSUME NEW i \in Ids', NEW j \in Ids', i < j
        PROVE  log'[i].ts + log'[i].dur <= log'[j].ts + log'[j].dur
    <3>1. i \in Ids
      BY <1>5, <2>5, FeedFacts DEF Ids, new
    <3>2. CASE j \in Ids
      BY <1>4, <2>5, <3>1, <3>2 DEF FeedInv, LogInv
    <3>3. CASE j = new
      BY <1>4, <2>1, <2>2, <3>1, <3>3
    <3> QED BY <1>5, <3>2, <3>3
  <2> QED BY <1>1, <2>3, <2>4, <2>5 DEF LogInv
<1>9. \A k \in 1..Len(batch) : batch[k] \in Ids /\ batch[k] # new
  BY <1>5, FeedFacts
<1>10. BatchInv'
  <2>1. \A i \in Ids' : handled[i] > 1 => i \in again
    BY <1>5, <1>6 DEF FeedInv, BatchInv
  <2> QED BY <1>1, <2>1 DEF FeedInv, BatchInv
<1>11. LastInv'
  BY <1>1, <1>4, <1>5 DEF FeedInv, LastInv
<1>12. ~InBatch(new) /\ \A i : InBatch(i)' <=> InBatch(i)
  BY <1>1, <1>9 DEF InBatch
<1>13. ASSUME program.mode = "poll" PROVE PollFeed' /\ PollOrder'
  <2>1. PollFeed /\ PollOrder
    BY <1>13 DEF FeedInv
  <2>2. \A i \in Ids : Behind(i)' <=> Behind(i)
    BY <1>1, <1>4 DEF Behind
  <2>3. \A i \in Ids' : i \notin Ids /\ feed.latestSeen # -1 /\ Behind(i)' => i \in excused'
    <3> TAKE i \in Ids'
    <3> HAVE i \notin Ids /\ feed.latestSeen # -1 /\ Behind(i)'
    <3>1. i = new /\ i \notin feed'.seenIDs
      BY <1>1, <1>5, FeedFacts
    <3>2. log'[new].ts < Truncate(feed.latestSeen)
      BY <1>1, <3>1 DEF Behind
    <3>3. late
      BY <1>3, <1>4, <1>13, <3>2 DEF late
    <3> QED BY <1>1, <3>1, <3>3
  <2>4. wire' = {}
    BY <1>1, <1>13, <2>1 DEF PollFeed, heard
  <2>5. excused \subseteq excused'
    BY <1>1
  <2>6. PollFeed'
    <3>1. /\ ~feed'.started => feed'.latestSeen = -1
          /\ feed'.latestSeen = -1 => feed'.seenIDs = {} /\ batch' = <<>> /\ \A i \in Ids' : handled'[i] = 0
      BY <1>1, <1>5, <1>6, <2>1 DEF PollFeed
    <3>2. ASSUME feed'.latestSeen # -1, NEW i \in Ids'
          PROVE  /\ handled'[i] > 0 \/ InBatch(i)' => Behind(i)' \/ i \in again'
                 /\ Behind(i)' => InBatch(i)' \/ handled'[i] > 0 \/ i \in excused'
      <4>1. CASE i \in Ids
        BY <1>1, <1>12, <2>1, <2>2, <2>5, <3>2, <4>1 DEF PollFeed
      <4>2. CASE i \notin Ids
        <5>1. i = new
          BY <1>5, <4>2
        <5>2. handled'[i] = 0 /\ ~InBatch(i)'
          BY <1>1, <1>6, <1>12, <5>1
        <5> QED BY <1>1, <2>3, <3>2, <4>2, <5>2
      <4> QED BY <4>1, <4>2
    <3> QED BY <2>4, <3>1, <3>2 DEF PollFeed
  <2>7. PollOrder'
    BY <1>1, <1>4, <1>9, <2>1 DEF PollOrder
  <2> QED BY <2>6, <2>7
<1>14. ASSUME program.mode = "socket" PROVE SocketFeed'
  <2>1. SocketFeed
    BY <1>14 DEF FeedInv
  <2>2. excused \subseteq excused' /\ wire' \subseteq wire \cup {new} /\ wire \subseteq wire'
    BY <1>1
  <2>3. new \in wire' \/ new \in excused'
    BY <1>1, <1>14
  <2> QED BY <1>1, <1>5, <1>6, <1>12, <2>1, <2>2, <2>3 DEF SocketFeed
<1> QED BY <1>1, <1>7, <1>8, <1>10, <1>11, <1>13, <1>14 DEF FeedInv
\* A step that leaves the trail and what was analysed alone keeps what is said of them.
LEMMA FetchKeeps ==
    ASSUME Configured, FeedInv,
           UNCHANGED <<now, log, program, wire, watchVars>>,
           feed' \in [started : BOOLEAN, up : BOOLEAN, latestSeen : Nat \cup {-1}, seenIDs : SUBSET Ids],
           batch' \in Seq(Ids), BatchInv', program.mode = "poll", PollFeed', PollOrder'
    PROVE  FeedInv'
<1>1. UNCHANGED <<now, log, program, wire, auditor, handled, alarms, overtaken>>
  BY DEF watchVars
<1>2. Ids' = Ids
  BY <1>1 DEF Ids
<1>3. FeedTypes'
  BY <1>1, <1>2 DEF FeedInv, FeedTypes
<1>4. LogInv'
  BY <1>1, <1>2 DEF FeedInv, LogInv
<1>5. LastInv'
  BY <1>1, <1>2 DEF FeedInv, LastInv
<1> QED BY <1>1, <1>3, <1>4, <1>5 DEF FeedInv

\* A sequence without members is empty.
LEMMA NoMember ==
    ASSUME NEW s \in Seq({}) PROVE s = <<>>
<1>1. \A k \in 1..Len(s) : FALSE
  OBVIOUS
<1>2. Len(s) = 0
  BY <1>1
<1> QED BY <1>2

\* The first fetch: what it does not bring was crowded out; secbot takes all for read.
LEMMA FirstFetchKeeps ==
    ASSUME Configured, FeedInv, FirstFetch PROVE FeedInv'
<1>1. /\ program.mode = "poll" /\ ~feed.started
      /\ UNCHANGED <<now, log, program, wire, again, auditor, handled, alarms, overtaken>>
  BY DEF FirstFetch, watchVars
<1>2. /\ PollFeed /\ PollOrder /\ log \in Seq(Events) /\ batch \in Seq(Ids)
      /\ feed \in [started : BOOLEAN, up : BOOLEAN, latestSeen : Nat \cup {-1}, seenIDs : SUBSET Ids]
  BY <1>1 DEF FeedInv, FeedTypes
<1>3. /\ feed.latestSeen = -1 /\ feed.seenIDs = {} /\ batch = <<>> /\ wire = {}
      /\ \A i \in Ids : handled[i] = 0
  BY <1>1, <1>2 DEF PollFeed
<1>4. auditor.lastEventTime = -1
  BY <1>2, <1>3 DEF PollOrder
<1>5. Ids' = Ids
  BY <1>1 DEF Ids
<1>6. ASSUME feed' = [feed EXCEPT !.started = TRUE], UNCHANGED <<batch, excused>> PROVE FeedInv'
  <2>1. /\ feed' \in [started : BOOLEAN, up : BOOLEAN, latestSeen : Nat \cup {-1}, seenIDs : SUBSET Ids]
        /\ feed'.latestSeen = -1 /\ feed'.seenIDs = {} /\ feed'.started
    BY <1>2, <1>3, <1>6
  <2>2. BatchInv'
    BY <1>1, <1>3, <1>5, <1>6 DEF BatchInv
  <2>3. PollFeed'
    BY <1>1, <1>3, <1>5, <1>6, <2>1 DEF PollFeed
  <2>4. PollOrder'
    BY <1>1, <1>2, <1>3, <1>5, <1>6, <2>1 DEF PollOrder
  <2> QED BY <1>1, <1>2, <1>6, <2>1, <2>2, <2>3, <2>4, FetchKeeps DEF watchVars
<1>7. ASSUME NEW ids, ids = Query(0, FirstLimit),
             feed' = [feed EXCEPT !.started = TRUE, !.seenIDs = ids, !.latestSeen = Newest(ids, -1)],
             batch' = (IF program.name = "auditor" THEN Chronological(ids) ELSE <<>>),
             excused' = (IF program.name = "auditor" THEN Crowded(FirstLimit) ELSE Ids)
      PROVE  FeedInv'
  <2> DEFINE s == Chronological(ids)
  <2>1. ids \in SUBSET Ids /\ \A i \in Ids \ ids : i \in Crowded(FirstLimit)
    <3>1. FirstLimit \in Nat
      BY DEF Configured
    <3> QED BY <1>2, <1>7, <3>1, FirstQuery
  <2>2. /\ s \in Seq(ids)
        /\ \A j, k \in 1..Len(s) : j < k => log[s[j]].ts < log[s[k]].ts
        /\ \A j, k \in 1..Len(s) : s[j] = s[k] => j = k
        /\ \A i \in ids : \E k \in 1..Len(s) : s[k] = i
    BY <1>2, <2>1, ChronologicalSorts DEF FeedInv, LogInv
  <2> HIDE DEF s
  <2>3. /\ Newest(ids, -1) \in Nat \cup {-1}
        /\ \A i \in ids : log[i].ts <= Newest(ids, -1)
    BY <1>2, <2>1, NewestIs
  <2>4. /\ feed' \in [started : BOOLEAN, up : BOOLEAN, latestSeen : Nat \cup {-1}, seenIDs : SUBSET Ids]
        /\ feed'.latestSeen = Newest(ids, -1) /\ feed'.seenIDs = ids /\ feed'.started
    BY <1>2, <1>7, <2>1, <2>3
  <2>5. batch' = s \/ batch' = <<>>
    BY <1>7 DEF s
  <2>6. /\ batch' \in Seq(Ids)
        /\ \A j, k \in 1..Len(batch') : batch'[j] = batch'[k] => j = k
        /\ \A j, k \in 1..Len(batch') : j < k => log[batch'[j]].ts < log[batch'[k]].ts
        /\ \A k \in 1..Len(batch') : batch'[k] \in ids
    <3>1. CASE batch' = <<>>
      BY <3>1
    <3>2. CASE batch' = s
      BY <2>1, <2>2, <3>2
    <3> QED BY <2>5, <3>1, <3>2
  <2>7. BatchInv'
    BY <1>1, <1>3, <1>5, <2>1, <2>6 DEF BatchInv
  <2>8. feed'.latestSeen = -1 => feed'.seenIDs = {} /\ batch' = <<>>
    <3> HAVE feed'.latestSeen = -1
    <3>1. ids = {}
      BY <1>2, <2>1, <2>3, <2>4, LogFacts
    <3> QED BY <2>2, <2>4, <2>5, <3>1, NoMember
  <2>9. \A i \in Ids : InBatch(i)' => i \in ids
    BY <2>6 DEF InBatch
  <2>10. \A i \in Ids : InBatch(i)' \/ i \in excused'
    <3>1. CASE program.name = "auditor"
      BY <1>7, <2>1, <2>2, <3>1 DEF InBatch, s
    <3>2. CASE program.name # "auditor"
      BY <1>7, <3>2
    <3> QED BY <3>1, <3>2
  <2>11. PollFeed'
    BY <1>1, <1>3, <1>5, <2>4, <2>8, <2>9, <2>10 DEF PollFeed, Behind
  <2>12. PollOrder'
    BY <1>1, <1>2, <1>4, <2>3, <2>4, <2>6 DEF PollOrder
  <2> QED BY <1>1, <2>4, <2>6, <2>7, <2>11, <2>12, FetchKeeps DEF watchVars
<1> QED BY <1>6, <1>7 DEF FirstFetch

\* A poll: what lay behind still does, and what newly does was brought or crowded out.
LEMMA PollKeeps ==
    ASSUME Configured, FeedInv, Poll PROVE FeedInv'
<1> DEFINE ids == Query(Since, PollLimit)
           latest == Newest(ids, feed.latestSeen)
           known == feed.seenIDs \cup ids
           fresh == ids \ feed.seenIDs
           s == Chronological(fresh)
<1>1. /\ program.mode = "poll" /\ feed.started /\ batch = <<>>
      /\ batch' = s
      /\ feed' = [feed EXCEPT !.latestSeen = latest, !.seenIDs = Remember(known)]
      /\ excused' = excused \cup Crowded(PollLimit) \cup Stale
      /\ again' = again \cup (IF Remember(known) = known THEN {}
                              ELSE {i \in known : log[i].ts >= Truncate(latest)})
      /\ UNCHANGED <<now, log, program, wire, auditor, handled, alarms, overtaken>>
  BY DEF Poll, watchVars
<1>2. /\ PollFeed /\ PollOrder /\ log \in Seq(Events) /\ now \in Nat
      /\ feed \in [started : BOOLEAN, up : BOOLEAN, latestSeen : Nat \cup {-1}, seenIDs : SUBSET Ids]
  BY <1>1 DEF FeedInv, FeedTypes
<1>3. Since \in Int /\ (feed.latestSeen # -1 => Since = Truncate(feed.latestSeen))
  <2>1. now - Rules.minute \in Int /\ feed.latestSeen \in Int
    BY <1>2 DEF Configured
  <2> QED BY <2>1, TruncateBounds DEF Since
<1>4. /\ ids \in SUBSET Ids /\ \A i \in ids : log[i].ts >= Since
      /\ \A i \in Ids : log[i].ts >= Since /\ i \notin ids => i \in Crowded(PollLimit)
  <2>1. PollLimit \in Nat
    BY DEF Configured
  <2> QED BY <1>2, <1>3, <2>1, QueryIs
<1> HIDE DEF ids
<1>5. /\ latest \in Nat \cup {-1} /\ feed.latestSeen <= latest
      /\ \A i \in ids : log[i].ts <= latest
  BY <1>2, <1>4, NewestIs
<1> HIDE DEF latest
<1>6. /\ s \in Seq(fresh)
      /\ \A j, k \in 1..Len(s) : j < k => log[s[j]].ts < log[s[k]].ts
      /\ \A j, k \in 1..Len(s) : s[j] = s[k] => j = k
      /\ \A i \in fresh : \E k \in 1..Len(s) : s[k] = i
  <2>1. fresh \in SUBSET Ids
    BY <1>4
  <2> QED BY <1>2, <2>1, ChronologicalSorts DEF FeedInv, LogInv
<1> HIDE DEF s
<1>7. Remember(known) = known \/ Remember(known) = {}
  BY DEF Remember
<1>8. /\ feed' \in [started : BOOLEAN, up : BOOLEAN, latestSeen : Nat \cup {-1}, seenIDs : SUBSET Ids]
      /\ feed'.latestSeen = latest /\ feed'.seenIDs = Remember(known) /\ feed'.started
  BY <1>1, <1>2, <1>4, <1>5, <1>7
<1>9. batch' \in Seq(Ids) /\ \A k \in 1..Len(batch') : batch'[k] \in fresh
  BY <1>1, <1>4, <1>6
<1>10. Ids' = Ids
  BY <1>1 DEF Ids
<1>11. \A i \in Ids : InBatch(i)' <=> i \in fresh
  BY <1>1, <1>6, <1>9 DEF InBatch
<1>12. \A i \in Ids : log[i].ts \in Nat /\ handled[i] \in Nat
  BY FeedFacts
<1>13. feed.latestSeen # -1 => Truncate(feed.latestSeen) <= Truncate(latest)
  BY <1>2, <1>5, TruncateMonotone
<1>14. \A i \in Ids : i \in known => Behind(i)' \/ i \in again'
  <2> TAKE i \in Ids
  <2> HAVE i \in known
  <2>1. CASE Remember(known) = known
    BY <1>8, <2>1 DEF Behind
  <2>2. CASE Remember(known) # known
    <3>1. Truncate(latest) \in Int
      BY <1>5, TruncateBounds
    <3>2. log[i].ts >= Truncate(latest) \/ log[i].ts < Truncate(latest)
      BY <1>12, <3>1
    <3> QED BY <1>1, <1>8, <2>2, <3>2 DEF Behind
  <2> QED BY <2>1, <2>2
<1>15. ASSUME NEW i \in Ids, handled[i] > 0 \/ i \in fresh PROVE Behind(i)' \/ i \in again'
  <2>1. CASE i \in known
    BY <1>14, <2>1
  <2>2. CASE i \notin known
    <3>1. handled[i] > 0 /\ feed.latestSeen # -1
      BY <1>2, <1>12, <1>15, <2>2 DEF PollFeed
    <3>2. CASE i \in again
      BY <1>1, <3>2
    <3>3. CASE log[i].ts < Truncate(feed.latestSeen)
      <4>1. Truncate(latest) \in Int /\ Truncate(feed.latestSeen) \in Int
        BY <1>2, <1>5, TruncateBounds
      <4>2. log[i].ts < Truncate(latest)
        BY <1>12, <1>13, <3>1, <3>3, <4>1
      <4> QED BY <1>1, <1>8, <4>2 DEF Behind
    <3> QED BY <1>2, <2>2, <3>1, <3>2, <3>3 DEF PollFeed, Behind
  <2> QED BY <2>1, <2>2
<1>16. ASSUME NEW i \in Ids, Behind(i)', i \notin fresh PROVE handled[i] > 0 \/ i \in excused'
  <2>1. CASE feed.latestSeen # -1 /\ Behind(i)
    <3>1. InBatch(i) \/ handled[i] > 0 \/ i \in excused
      BY <1>2, <2>1 DEF PollFeed
    <3>2. ~InBatch(i)
      BY <1>1 DEF InBatch
    <3> QED BY <1>1, <3>1, <3>2
  <2>2. CASE ~(feed.latestSeen # -1 /\ Behind(i))
    <3>1. i \notin ids
      BY <1>2, <1>16, <2>2 DEF PollFeed, Behind
    <3>2. CASE log[i].ts >= Since
      BY <1>1, <1>4, <3>1, <3>2
    <3>3. CASE log[i].ts < Since
      <4>1. feed.latestSeen = -1
        BY <1>3, <2>2, <3>3 DEF Behind
      <4>2. i \in Stale
        BY <3>3, <4>1 DEF Since, Stale
      <4> QED BY <1>1, <4>2
    <3> QED BY <1>3, <1>12, <3>2, <3>3
  <2> QED BY <2>1, <2>2
<1>17. latest = -1 => /\ feed'.seenIDs = {} /\ batch' = <<>> /\ \A i \in Ids : handled[i] = 0
  <2> HAVE latest = -1
  <2>1. feed.latestSeen = -1
    BY <1>2, <1>5
  <2>2. ids = {}
    BY <1>4, <1>5, <1>12
  <2>3. known = {} /\ fresh = {} /\ \A i \in Ids : handled[i] = 0
    BY <1>2, <2>1, <2>2 DEF PollFeed
  <2>4. feed'.seenIDs = {}
    BY <1>7, <1>8, <2>3
  <2>5. batch' = <<>>
    BY <1>1, <1>6, <2>3, NoMember
  <2> QED BY <2>3, <2>4, <2>5
<1>18. PollFeed'
  <2>1. wire' = {}
    BY <1>1, <1>2 DEF PollFeed
  <2> QED BY <1>1, <1>8, <1>10, <1>11, <1>15, <1>16, <1>17, <2>1 DEF PollFeed
<1>19. BatchInv'
  <2>1. \A k \in 1..Len(batch') : handled[batch'[k]] > 0 => batch'[k] \in again'
    <3> TAKE k \in 1..Len(batch')
    <3> HAVE handled[batch'[k]] > 0
    <3> DEFINE i == batch'[k]
    <3>1. i \in fresh /\ i \in Ids
      BY <1>4, <1>9
    <3> HIDE DEF i
    <3>2. handled[i] > 0 /\ handled[i] # 0
      BY <1>12, <3>1 DEF i
    <3>3. feed.latestSeen # -1 /\ (Behind(i) \/ i \in again)
      BY <1>2, <3>1, <3>2 DEF PollFeed
    <3>4. ~Behind(i)
      <4>1. log[i].ts >= Truncate(feed.latestSeen) /\ log[i].ts \in Int /\ Truncate(feed.latestSeen) \in Int
        BY <1>3, <1>4, <1>12, <3>1, <3>3
      <4> QED BY <3>1, <4>1 DEF Behind
    <3> QED BY <1>1, <3>3, <3>4 DEF i
  <2>2. \A i \in Ids : handled[i] > 1 => i \in again'
    BY <1>1 DEF FeedInv, BatchInv
  <2> QED BY <1>1, <1>6, <1>10, <2>1, <2>2 DEF BatchInv
<1>20. PollOrder'
  <2>1. /\ auditor.lastEventTime \in Nat \cup {-1} /\ auditor.lastEventTime <= feed.latestSeen
        /\ alarms = {}
    BY <1>2 DEF PollOrder
  <2>2. auditor.lastEventTime <= latest
    BY <1>2, <1>5, <2>1
  <2>3. ASSUME auditor.lastEventTime # -1, NEW k \in 1..Len(batch')
        PROVE  auditor.lastEventTime - Rules.skew <= log[batch'[k]].ts
    <3>1. feed.latestSeen # -1 /\ feed.latestSeen \in Int
      BY <1>2, <2>1, <2>3
    <3>2. batch'[k] \in ids /\ batch'[k] \in Ids
      BY <1>4, <1>9
    <3>3. log[batch'[k]].ts \in Nat /\ log[batch'[k]].ts >= Truncate(feed.latestSeen)
      BY <1>3, <1>4, <1>12, <3>1, <3>2
    <3>4. /\ Truncate(feed.latestSeen) \in Int /\ feed.latestSeen - Rules.second < Truncate(feed.latestSeen)
      BY <3>1, TruncateBounds
    <3>5. Rules.second \in Nat /\ Rules.skew \in Nat /\ Rules.second <= Rules.skew
      BY DEF Configured
    <3>6. auditor.lastEventTime \in Int /\ auditor.lastEventTime <= feed.latestSeen
      BY <2>1
    <3>7. feed.latestSeen - Rules.skew <= log[batch'[k]].ts
      BY <3>1, <3>3, <3>4, <3>5
    <3> QED BY <3>1, <3>3, <3>5, <3>6, <3>7
  <2>4. \A k \in 1..Len(batch') : log[batch'[k]].ts <= latest
    BY <1>5, <1>9
  <2> QED BY <1>1, <1>6, <1>8, <2>1, <2>2, <2>3, <2>4 DEF PollOrder
<1> QED BY <1>1, <1>8, <1>9, <1>18, <1>19, <1>20, FetchKeeps DEF watchVars
\* The steps of a socket.
LEMMA SocketKeeps ==
    ASSUME Configured, FeedInv, program.mode = "socket",
           UNCHANGED <<now, log, program, again, watchVars>>,
           feed' \in [started : BOOLEAN, up : BOOLEAN, latestSeen : Nat \cup {-1}, seenIDs : SUBSET Ids],
           wire' \subseteq Ids, batch' \in Seq(Ids), BatchInv', SocketFeed'
    PROVE  FeedInv'
<1>1. UNCHANGED <<now, log, program, auditor, handled, alarms, overtaken>>
  BY DEF watchVars
<1>2. Ids' = Ids
  BY <1>1 DEF Ids
<1>3. FeedTypes'
  BY <1>1, <1>2 DEF FeedInv, FeedTypes
<1>4. LogInv'
  BY <1>1, <1>2 DEF FeedInv, LogInv
<1>5. LastInv'
  BY <1>1, <1>2 DEF FeedInv, LastInv
<1> QED BY <1>1, <1>3, <1>4, <1>5 DEF FeedInv

\* What was on the wire of a connection that ends is excused.
LEMMA DisconnectedKeeps ==
    ASSUME Configured, FeedInv, program.mode = "socket", Disconnected,
           UNCHANGED <<now, log, program, batch, again, watchVars>>
    PROVE  FeedInv'
<1>1. /\ feed' = [feed EXCEPT !.started = FALSE, !.up = program.name = "secbot"]
      /\ excused' = excused \cup wire /\ wire' = {}
      /\ UNCHANGED <<log, batch, again, handled>>
  BY DEF Disconnected, watchVars
<1>2. /\ SocketFeed /\ batch \in Seq(Ids) /\ BatchInv
      /\ feed \in [started : BOOLEAN, up : BOOLEAN, latestSeen : Nat \cup {-1}, seenIDs : SUBSET Ids]
  BY DEF FeedInv, FeedTypes
<1>3. feed' \in [started : BOOLEAN, up : BOOLEAN, latestSeen : Nat \cup {-1}, seenIDs : SUBSET Ids]
  <2>1. (program.name = "secbot") \in BOOLEAN
    OBVIOUS
  <2> QED BY <1>1, <1>2, <2>1
<1>4. Ids' = Ids /\ \A i : InBatch(i)' <=> InBatch(i)
  BY <1>1 DEF Ids, InBatch
<1>5. BatchInv'
  BY <1>1, <1>2, <1>4 DEF BatchInv
<1>6. SocketFeed'
  BY <1>1, <1>2, <1>4 DEF SocketFeed
<1> QED BY <1>1, <1>2, <1>3, <1>5, <1>6, SocketKeeps

\* What was recorded before a connection is excused.
LEMMA ConnectKeeps ==
    ASSUME Configured, FeedInv, Connect PROVE FeedInv'
<1>1. /\ program.mode = "socket" /\ feed' = [feed EXCEPT !.started = TRUE]
      /\ excused' = excused \cup Ids
      /\ UNCHANGED <<now, log, program, wire, batch, again, watchVars>> /\ UNCHANGED handled
  BY DEF Connect, watchVars
<1>2. /\ SocketFeed /\ batch \in Seq(Ids) /\ BatchInv /\ wire \subseteq Ids
      /\ feed \in [started : BOOLEAN, up : BOOLEAN, latestSeen : Nat \cup {-1}, seenIDs : SUBSET Ids]
  BY <1>1 DEF FeedInv, FeedTypes
<1>3. feed' \in [started : BOOLEAN, up : BOOLEAN, latestSeen : Nat \cup {-1}, seenIDs : SUBSET Ids]
  BY <1>1, <1>2
<1>4. Ids' = Ids /\ \A i : InBatch(i)' <=> InBatch(i)
  BY <1>1 DEF Ids, InBatch
<1>5. BatchInv'
  BY <1>1, <1>2, <1>4 DEF BatchInv
<1>6. SocketFeed'
  BY <1>1, <1>2, <1>4 DEF SocketFeed
<1> QED BY <1>1, <1>2, <1>3, <1>5, <1>6, SocketKeeps

\* An event is taken off the wire.
LEMMA ReadKeeps ==
    ASSUME Configured, FeedInv, ReadSocket PROVE FeedInv'
<1>1. PICK i \in wire :
         /\ IF log[i].kind.big THEN Disconnected /\ UNCHANGED batch
            ELSE /\ batch' = Append(batch, i) /\ wire' = wire \ {i}
                 /\ UNCHANGED <<feed, excused>>
         /\ UNCHANGED <<now, log, program, again, watchVars>>
  BY DEF ReadSocket
<1>2. program.mode = "socket"
  BY <1>1, FeedFacts DEF FeedInv, PollFeed
<1>3. /\ SocketFeed /\ batch \in Seq(Ids) /\ BatchInv /\ wire \subseteq Ids
      /\ feed \in [started : BOOLEAN, up : BOOLEAN, latestSeen : Nat \cup {-1}, seenIDs : SUBSET Ids]
  BY <1>2 DEF FeedInv, FeedTypes
<1>4. CASE log[i].kind.big
  BY <1>1, <1>2, <1>4, DisconnectedKeeps
<1>5. CASE ~log[i].kind.big
  <2>1. /\ batch' = Append(batch, i) /\ wire' = wire \ {i}
        /\ UNCHANGED <<feed, excused, again, log, handled>>
    BY <1>1, <1>5 DEF watchVars
  <2>2. i \in Ids /\ handled[i] = 0 /\ ~InBatch(i)
    BY <1>3 DEF SocketFeed
  <2>3. /\ batch' \in Seq(Ids) /\ Len(batch') = Len(batch) + 1 /\ Len(batch) \in Nat
        /\ batch'[Len(batch) + 1] = i /\ \A k \in 1..Len(batch) : batch'[k] = batch[k]
    BY <1>3, <2>1, <2>2
  <2>4. \A d : InBatch(d)' <=> InBatch(d) \/ d = i
    BY <2>3 DEF InBatch
  <2>5. Ids' = Ids
    BY <2>1 DEF Ids
  <2>6. BatchInv'
    <3>1. \A k \in 1..Len(batch') : k \in 1..Len(batch) \/ k = Len(batch) + 1
      BY <2>3
    <3>2. \A k \in 1..Len(batch) : batch[k] # i
      BY <2>2 DEF InBatch
    <3>3. \A j, k \in 1..Len(batch') : batch'[j] = batch'[k] => j = k
      BY <1>3, <2>3, <3>1, <3>2 DEF BatchInv
    <3>4. \A k \in 1..Len(batch') : handled[batch'[k]] > 0 => batch'[k] \in again
      BY <1>3, <2>2, <2>3, <3>1 DEF BatchInv
    <3> QED BY <1>3, <2>1, <2>5, <3>3, <3>4 DEF BatchInv
  <2>7. SocketFeed'
    BY <1>3, <2>1, <2>4, <2>5 DEF SocketFeed
  <2> QED BY <1>1, <1>2, <1>3, <2>1, <2>3, <2>6, <2>7, SocketKeeps
<1> QED BY <1>4, <1>5
-----------------------------------------------------------------------------
(* What is analysed. *)

\* A rule raises alerts of its own type, and only on its condition.
LEMMA RaiseIs ==
    ASSUME NEW c, NEW type, NEW level, NEW x \in Raise(c, type, level)
    PROVE  c /\ x.type = type
  BY DEF Raise

\* A rule of two levels raises alerts of its own type.
LEMMA GradedIs ==
    ASSUME NEW c, NEW w, NEW type, NEW x \in Graded(c, w, type)
    PROVE  x.type = type
  BY RaiseIs DEF Graded

\* Counting an event keeps the state's type and the last timestamp.
LEMMA TrackTypes ==
    ASSUME NEW a \in AuditorStates, NEW e \in Events
    PROVE  trackEvent(a, e) \in AuditorStates /\ trackEvent(a, e).lastEventTime = a.lastEventTime
<1>1. /\ a.calls \in Nat /\ a.errors \in Nat /\ a.queries \in Seq(Nat) /\ a.lastEventTime \in Nat \cup {-1}
      /\ e.kind.query \in Nat
  BY DEF AuditorStates, Events, EventKinds
<1> DEFINE failed == e.kind.decision /\ e.kind.outcome = "error"
           n == IF e.kind.decision THEN a.calls + 1 ELSE a.calls
           m == IF failed THEN a.errors + 1 ELSE a.errors
           q == IF e.kind.type = "tool_execution" /\ e.kind.query # 0
                THEN Append(a.queries, e.kind.query) ELSE a.queries
<1>2. n \in Nat /\ m \in Nat /\ q \in Seq(Nat)
  BY <1>1
<1>3. trackEvent(a, e) = [a EXCEPT !.calls = n, !.errors = m, !.queries = q]
  BY DEF trackEvent
<1> HIDE DEF n, m, q
<1> QED BY <1>2, <1>3 DEF AuditorStates

\* Analysing an event makes its timestamp the last one.
LEMMA AnalyzeTypes ==
    ASSUME NEW a \in AuditorStates, NEW e \in Events, NEW t \in Nat
    PROVE  Analyze(a, e, t).state \in AuditorStates /\ Analyze(a, e, t).state.lastEventTime = e.ts
<1> DEFINE k == trackEvent(a, e)
           v == checkHighVolume(k, t)
<1>1. k \in AuditorStates
  BY TrackTypes
<1> HIDE DEF k
<1>2. v.state \in AuditorStates
  <2> DEFINE fresh == t - k.minuteStart >= Rules.minute
             count == IF fresh THEN 1 ELSE k.eventsThisMinute + 1
             start == IF fresh THEN t ELSE k.minuteStart
  <2>1. k.eventsThisMinute \in Nat /\ k.minuteStart \in Nat
    BY <1>1 DEF AuditorStates
  <2>2. count \in Nat /\ start \in Nat
    BY <2>1
  <2>3. v.state = [k EXCEPT !.eventsThisMinute = count, !.minuteStart = start]
    BY DEF checkHighVolume
  <2> HIDE DEF count, start
  <2> QED BY <1>1, <2>2, <2>3 DEF AuditorStates
<1>3. Analyze(a, e, t).state = [v.state EXCEPT !.lastEventTime = e.ts]
  BY DEF Analyze, k
<1> HIDE DEF v
<1>4. e.ts \in Nat
  BY DEF Events
<1> QED BY <1>2, <1>3, <1>4 DEF AuditorStates

\* Only a timestamp that runs backwards is reported as one that does.
LEMMA AnomalyIs ==
    ASSUME NEW a \in AuditorStates, NEW e \in Events, NEW t \in Nat,
           NEW x \in Analyze(a, e, t).alerts, x.type = "timestamp_anomaly"
    PROVE  a.lastEventTime # -1 /\ Backwards(a, e)
<1> DEFINE k == trackEvent(a, e)
           v == checkHighVolume(k, t)
<1>1. Analyze(a, e, t).alerts =
        UNION {checkLowConfidence(e.kind), checkCategoryMismatch(e.kind),
               checkHighErrorRate(k, e.kind), checkLongDuration(e),
               checkRepeatedQueries(k, e.kind), checkEmptyReasoning(e.kind),
               checkDangerousAction(e.kind), checkApprovalStatus(e.kind),
               v.alerts, checkOffHours(e), checkUnauthorizedDestructive(e.kind),
               checkTimestampGap(k, e), checkFabricationMismatch(e.kind)}
  BY DEF Analyze
<1>2. k.lastEventTime = a.lastEventTime
  BY TrackTypes
<1> HIDE DEF k
<1>3. x \notin checkLowConfidence(e.kind)
  BY GradedIs DEF checkLowConfidence
<1>4. x \notin checkCategoryMismatch(e.kind)
  BY RaiseIs DEF checkCategoryMismatch
<1>5. x \notin checkHighErrorRate(k, e.kind)
  BY GradedIs DEF checkHighErrorRate
<1>6. x \notin checkLongDuration(e)
  BY GradedIs DEF checkLongDuration
<1>7. x \notin checkRepeatedQueries(k, e.kind)
  BY DEF checkRepeatedQueries, Raise
<1>8. x \notin checkEmptyReasoning(e.kind)
  <2> DEFINE c == /\ e.kind.type \notin {"gateway_request", "tool_execution", "policy_decision"}
                  /\ e.kind.decision /\ ~e.kind.reasoned
  <2>1. checkEmptyReasoning(e.kind) = Raise(c, "no reasoning", "warning")
    BY DEF checkEmptyReasoning
  <2> HIDE DEF c
  <2>2. \A y \in Raise(c, "no reasoning", "warning") : y.type = "no reasoning"
    BY RaiseIs
  <2> QED BY <2>1, <2>2
<1>9. x \notin checkDangerousAction(e.kind)
  BY GradedIs DEF checkDangerousAction
<1>10. x \notin checkApprovalStatus(e.kind)
  BY GradedIs DEF checkApprovalStatus
<1>11. x \notin v.alerts
  BY RaiseIs DEF checkHighVolume
<1>12. x \notin checkOffHours(e)
  BY RaiseIs DEF checkOffHours
<1>13. x \notin checkUnauthorizedDestructive(e.kind)
  BY DEF checkUnauthorizedDestructive, Raise
<1>14. x \notin checkFabricationMismatch(e.kind)
  BY RaiseIs DEF checkFabricationMismatch
<1> HIDE DEF v
<1>15. x \in checkTimestampGap(k, e)
  BY <1>1, <1>3, <1>4, <1>5, <1>6, <1>7, <1>8, <1>9, <1>10, <1>11, <1>12, <1>13, <1>14
<1>16. k.lastEventTime # -1 /\ Backwards(k, e)
  <2>1. k.lastEventTime # -1
    BY <1>15 DEF checkTimestampGap
  <2>2. \/ x \in Raise(Backwards(k, e), "timestamp_anomaly", "critical")
        \/ x \in Raise(e.ts - k.lastEventTime > Rules.hour /\ Hour(e.ts) \in 8..18,
                       "timestamp_gap", "warning")
    BY <1>15, <2>1 DEF checkTimestampGap
  <2> QED BY <2>1, <2>2, RaiseIs
<1> QED BY <1>2, <1>16 DEF Backwards
\* The first of the batch is handled.
LEMMA HandledKeeps ==
    ASSUME Configured, FeedInv, NEW i \in Ids, Handled(i),
           UNCHANGED <<now, log, program, feed, wire, excused, again>>,
           \/ UNCHANGED <<auditor, alarms>>
           \/ /\ auditor' \in AuditorStates /\ auditor'.lastEventTime = log[i].ts
              /\ \/ alarms' = alarms
                 \/ /\ auditor.lastEventTime # -1 /\ Backwards(auditor, log[i])
                    /\ alarms' = alarms \cup {i}
    PROVE  FeedInv'
<1>1. /\ batch # <<>> /\ i = Head(batch) /\ batch' = Tail(batch)
      /\ handled' = [handled EXCEPT ![i] = handled[i] + 1]
      /\ overtaken' = IF \E j \in Ids : j > i /\ handled[j] > 0 THEN overtaken \cup {i} ELSE overtaken
  BY DEF Handled
<1>2. /\ log \in Seq(Events) /\ batch \in Seq(Ids) /\ handled \in [1..program.events -> Nat]
      /\ i \in 1..program.events /\ i \in Int
  BY FeedFacts DEF FeedInv, FeedTypes
<1>3. /\ Len(batch) \in Nat \ {0} /\ batch[1] = i /\ Len(batch') = Len(batch) - 1
      /\ batch' \in Seq(Ids) /\ \A k \in 1..Len(batch') : k + 1 \in 1..Len(batch) /\ batch'[k] = batch[k + 1]
  BY <1>1, <1>2
<1>4. /\ handled' \in [1..program.events -> Nat] /\ handled'[i] = handled[i] + 1
      /\ \A d \in 1..program.events : d # i => handled'[d] = handled[d]
      /\ handled[i] \in Nat
  BY <1>1, <1>2
<1>5. Ids' = Ids
  BY DEF Ids
<1>6. \A d \in Ids : d \in 1..program.events /\ handled[d] \in Nat /\ log[d].ts \in Nat /\ log[d].dur \in Nat
  BY FeedFacts
<1>7. \A j, k \in 1..Len(batch) : batch[j] = batch[k] => j = k
  BY DEF FeedInv, BatchInv
<1>8. \A k \in 1..Len(batch') : batch'[k] # i /\ batch'[k] \in Ids
  <2> TAKE k \in 1..Len(batch')
  <2>1. k + 1 # 1 /\ 1 \in 1..Len(batch) /\ k + 1 \in 1..Len(batch) /\ batch'[k] = batch[k + 1]
    BY <1>3
  <2> QED BY <1>2, <1>3, <1>7, <2>1
<1>9. InBatch(i) /\ \A d \in Ids : InBatch(d)' <=> InBatch(d) /\ d # i
  <2>1. InBatch(i)
    BY <1>3 DEF InBatch
  <2>2. \A d \in Ids : InBatch(d)' => InBatch(d) /\ d # i
    BY <1>3, <1>8 DEF InBatch
  <2>3. ASSUME NEW d \in Ids, InBatch(d), d # i PROVE InBatch(d)'
    <3>1. PICK k \in 1..Len(batch) : batch[k] = d
      BY <2>3 DEF InBatch
    <3>2. k # 1 /\ k - 1 \in 1..Len(batch') /\ (k - 1) + 1 = k
      BY <1>3, <2>3, <3>1
    <3> QED BY <1>3, <3>1, <3>2 DEF InBatch
  <2> QED BY <2>1, <2>2, <2>3
<1>10. FeedTypes'
  <2>1. auditor' \in AuditorStates
    BY DEF FeedInv, FeedTypes
  <2>2. \A d \in 1..program.events : handled'[d] > 0 => d \in Ids
    BY <1>4 DEF FeedInv, FeedTypes
  <2> QED BY <1>3, <1>4, <1>5, <2>1, <2>2 DEF FeedInv, FeedTypes
<1>11. LogInv'
  BY <1>5 DEF FeedInv, LogInv
<1>12. BatchInv'
  <2>1. \A j, k \in 1..Len(batch') : batch'[j] = batch'[k] => j = k
    <3> TAKE j, k \in 1..Len(batch')
    <3> HAVE batch'[j] = batch'[k]
    <3>1. j + 1 = k + 1
      BY <1>3, <1>7
    <3> QED BY <1>3, <3>1
  <2>2. \A k \in 1..Len(batch') : handled'[batch'[k]] > 0 => batch'[k] \in again
    <3> TAKE k \in 1..Len(batch')
    <3>1. handled'[batch'[k]] = handled[batch'[k]]
      BY <1>4, <1>6, <1>8
    <3>2. k + 1 \in 1..Len(batch) /\ batch'[k] = batch[k + 1]
      BY <1>3
    <3> QED BY <3>1, <3>2 DEF FeedInv, BatchInv
  <2>3. ASSUME NEW d \in Ids, handled'[d] > 1 PROVE d \in again
    <3>1. CASE d = i
      <4>1. handled[i] > 0
        BY <1>4, <2>3, <3>1
      <4>2. 1 \in 1..Len(batch)
        BY <1>3
      <4> QED BY <1>3, <3>1, <4>1, <4>2 DEF FeedInv, BatchInv
    <3>2. CASE d # i
      BY <1>4, <1>6, <2>3, <3>2 DEF FeedInv, BatchInv
    <3> QED BY <3>1, <3>2
  <2> QED BY <1>5, <2>1, <2>2, <2>3 DEF BatchInv
<1>13. \A d \in Ids : handled[d] > 0 => handled'[d] > 0
  BY <1>4, <1>6
<1>14. handled'[i] > 0
  BY <1>4
<1>15. ASSUME auditor.lastEventTime # -1, Backwards(auditor, log[i]) PROVE i \in overtaken'
  <2>1. PICK j \in Ids : handled[j] > 0 /\ auditor.lastEventTime = log[j].ts
    BY <1>15 DEF FeedInv, LastInv
  <2>2. j > i
    <3> SUFFICES ASSUME ~(j > i) PROVE FALSE
      OBVIOUS
    <3>1. i \in Int /\ j \in Int
      BY <1>6
    <3>2. log[j].ts + log[j].dur <= log[i].ts + log[i].dur
      <4>1. CASE i = j
        BY <1>6, <4>1
      <4>2. CASE j < i
        BY <4>2 DEF FeedInv, LogInv
      <4> QED BY <3>1, <4>1, <4>2
    <3>3. Rules.skew \in Nat
      BY DEF Configured
    <3>4. (log[i].ts - log[j].ts) + log[i].dur >= -Rules.skew
      BY <1>6, <3>2, <3>3
    <3>5. log[i].ts - log[j].ts < -Rules.skew /\ log[i].kind.outcome = None
      BY <1>15, <2>1, <3>4 DEF Backwards
    <3>6. log[i].dur = 0
      BY <3>5 DEF FeedInv, LogInv
    <3> QED BY <1>6, <3>3, <3>4, <3>5, <3>6
  <2> QED BY <1>1, <2>1, <2>2
<1>16. LastInv'
  <2>1. alarms' \subseteq overtaken'
    <3>1. alarms \subseteq overtaken /\ overtaken \subseteq overtaken'
      BY <1>1 DEF FeedInv, LastInv
    <3> QED BY <1>15, <3>1
  <2>2. auditor'.lastEventTime = -1 \/ \E j \in Ids : handled'[j] > 0 /\ auditor'.lastEventTime = log[j].ts
    BY <1>13, <1>14 DEF FeedInv, LastInv
  <2> QED BY <1>5, <2>1, <2>2 DEF LastInv
<1>17. ASSUME program.mode = "poll" PROVE PollFeed' /\ PollOrder'
  <2>1. PollFeed /\ PollOrder /\ feed.latestSeen # -1 /\ feed.latestSeen \in Nat
    BY <1>1, <1>17, FeedFacts DEF FeedInv, PollFeed
  <2>2. \A d \in Ids : Behind(d)' <=> Behind(d)
    BY DEF Behind
  <2>3. \A d \in Ids : handled'[d] > 0 \/ InBatch(d)' => handled[d] > 0 \/ InBatch(d)
    BY <1>4, <1>6, <1>9
  <2>4. \A d \in Ids : InBatch(d) \/ handled[d] > 0 => InBatch(d)' \/ handled'[d] > 0
    BY <1>9, <1>13, <1>14
  <2>5. PollFeed'
    BY <1>5, <2>1, <2>2, <2>3, <2>4 DEF PollFeed
  <2>6. 1 \in 1..Len(batch) /\ log[i].ts \in Nat /\ Rules.skew \in Nat
    BY <1>3, <1>6 DEF Configured
  <2>7. ~(auditor.lastEventTime # -1 /\ Backwards(auditor, log[i]))
    <3> SUFFICES ASSUME auditor.lastEventTime # -1, Backwards(auditor, log[i]) PROVE FALSE
      OBVIOUS
    <3>1. auditor.lastEventTime \in Nat /\ auditor.lastEventTime - Rules.skew <= log[i].ts
      BY <1>3, <2>1, <2>6 DEF PollOrder
    <3>2. log[i].ts - auditor.lastEventTime < -Rules.skew
      BY DEF Backwards
    <3> QED BY <2>6, <3>1, <3>2
  <2>8. alarms' = {}
    BY <2>1, <2>7 DEF PollOrder
  <2>9. \A k \in 1..Len(batch') : /\ log[i].ts < log[batch'[k]].ts /\ log[batch'[k]].ts <= feed.latestSeen
                                  /\ log[batch'[k]].ts \in Nat
    <3> TAKE k \in 1..Len(batch')
    <3>1. k + 1 \in 1..Len(batch) /\ batch'[k] = batch[k + 1] /\ 1 < k + 1
      BY <1>3
    <3> QED BY <1>3, <1>6, <1>8, <2>1, <2>6, <3>1 DEF PollOrder
  <2>10. \A j, k \in 1..Len(batch') : j < k => log[batch'[j]].ts < log[batch'[k]].ts
    <3> TAKE j, k \in 1..Len(batch')
    <3> HAVE j < k
    <3>1. /\ j + 1 \in 1..Len(batch) /\ batch'[j] = batch[j + 1]
          /\ k + 1 \in 1..Len(batch) /\ batch'[k] = batch[k + 1]
      BY <1>3
    <3>2. j + 1 < k + 1
      BY <1>3
    <3> QED BY <2>1, <3>1, <3>2 DEF PollOrder
  <2>11. /\ auditor'.lastEventTime \in Nat \cup {-1} /\ auditor'.lastEventTime <= feed.latestSeen
         /\ auditor'.lastEventTime # -1 =>
              \A k \in 1..Len(batch') : auditor'.lastEventTime - Rules.skew <= log[batch'[k]].ts
    <3>1. CASE UNCHANGED <<auditor, alarms>>
      <4>1. auditor.lastEventTime # -1 =>
              auditor.lastEventTime \in Nat /\ auditor.lastEventTime - Rules.skew <= log[i].ts
        BY <1>3, <2>1, <2>6 DEF PollOrder
      <4>2. auditor.lastEventTime \in Nat \cup {-1} /\ auditor.lastEventTime <= feed.latestSeen
        BY <2>1 DEF PollOrder
      <4> QED BY <2>6, <2>9, <3>1, <4>1, <4>2
    <3>2. CASE auditor'.lastEventTime = log[i].ts
      <4>1. log[i].ts <= feed.latestSeen
        BY <1>3, <2>1, <2>6 DEF PollOrder
      <4> QED BY <2>6, <2>9, <3>2, <4>1
    <3> QED BY <3>1, <3>2
  <2>12. PollOrder'
    BY <2>8, <2>9, <2>10, <2>11 DEF PollOrder
  <2> QED BY <2>5, <2>12
<1>18. ASSUME program.mode = "socket" PROVE SocketFeed'
  <2>1. SocketFeed
    BY <1>18 DEF FeedInv
  <2>2. i \notin wire
    BY <1>9, <2>1 DEF SocketFeed
  <2>3. wire \subseteq Ids
    BY DEF FeedInv, FeedTypes
  <2>4. \A d \in wire : handled'[d] = 0 /\ ~InBatch(d)'
    BY <1>4, <1>6, <1>9, <2>1, <2>2, <2>3 DEF SocketFeed
  <2>5. \A d \in Ids : InBatch(d) \/ handled[d] > 0 => InBatch(d)' \/ handled'[d] > 0
    BY <1>9, <1>13, <1>14
  <2> QED BY <1>5, <2>1, <2>4, <2>5 DEF SocketFeed
<1> QED BY <1>10, <1>11, <1>12, <1>16, <1>17, <1>18 DEF FeedInv
\* The auditor analyses an event.
LEMMA AnalyzeKeeps ==
    ASSUME Configured, FeedInv, analyzeNext PROVE FeedInv'
<1>1. PICK i \in Ids :
        /\ Handled(i)
        /\ auditor' = Analyze(auditor, log[i], now).state
        /\ alarms' = IF \E a \in Analyze(auditor, log[i], now).alerts : a.type = "timestamp_anomaly"
                     THEN alarms \cup {i} ELSE alarms
        /\ UNCHANGED <<now, log, program, feed, wire, excused, again>>
  BY DEF analyzeNext
<1>2. auditor \in AuditorStates /\ log[i] \in Events /\ now \in Nat
  BY LogFacts DEF FeedInv, FeedTypes
<1>3. auditor' \in AuditorStates /\ auditor'.lastEventTime = log[i].ts
  BY <1>1, <1>2, AnalyzeTypes
<1>4. \/ alarms' = alarms
      \/ /\ auditor.lastEventTime # -1 /\ Backwards(auditor, log[i]) /\ alarms' = alarms \cup {i}
  BY <1>1, <1>2, AnomalyIs
<1> QED BY <1>1, <1>3, <1>4, HandledKeeps

\* The invariant of the feeds holds at the start.
LEMMA FeedInit ==
    ASSUME Configured, Init PROVE FeedInv
<1>1. /\ now = 0 /\ log = <<>> /\ program \in Deployments
      /\ feed = [started |-> FALSE, up |-> TRUE, latestSeen |-> -1, seenIDs |-> {}]
      /\ wire = {} /\ batch = <<>> /\ auditor = NewAuditor(0)
      /\ handled = [i \in 1..program.events |-> 0] /\ alarms = {} /\ overtaken = {}
  BY DEF Init
<1>2. Ids = {} /\ program.events \in Nat
  BY <1>1 DEF Ids, Configured
<1>3. auditor \in AuditorStates /\ auditor.lastEventTime = -1
  BY <1>1 DEF NewAuditor, AuditorStates
<1>4. FeedTypes
  BY <1>1, <1>2, <1>3 DEF FeedTypes
<1>5. LogInv /\ BatchInv /\ LastInv /\ SocketFeed
  BY <1>1, <1>2, <1>3 DEF LogInv, BatchInv, LastInv, SocketFeed
<1>6. PollFeed /\ PollOrder
  BY <1>1, <1>2, <1>3 DEF PollFeed, PollOrder
<1> QED BY <1>4, <1>5, <1>6 DEF FeedInv

\* Every step keeps the invariant of the feeds.
LEMMA FeedStep ==
    ASSUME Configured, FeedInv, [Next]_vars PROVE FeedInv'
<1>1. now \in Nat
  BY DEF FeedInv, FeedTypes
<1>2. CASE Tick
  BY <1>1, <1>2, FrameKeeps DEF Tick
<1>3. CASE \E kind \in program.kinds, dur \in Durations : Record(kind, dur)
  BY <1>3, RecordKeeps
<1>4. CASE Disconnect
  BY <1>4, DisconnectedKeeps DEF Disconnect
<1>5. CASE processNext
  BY <1>5, HandledKeeps DEF processNext
<1>6. CASE (\E b \in Bundles : createIncident(b)) \/ postAnswered \/ postFailed \/ Agent
  <2>1. now' = now /\ UNCHANGED <<log, program, feedVars, watchVars>>
    BY <1>6 DEF createIncident, postAnswered, postFailed, Agent
  <2> QED BY <1>1, <2>1, FrameKeeps
<1>7. CASE UNCHANGED vars
  BY <1>1, <1>7, FrameKeeps DEF vars
<1> QED
  BY <1>2, <1>3, <1>4, <1>5, <1>6, <1>7, FirstFetchKeeps, PollKeeps, ConnectKeeps, ReadKeeps,
     AnalyzeKeeps DEF Next

\* The invariant of the feeds is one.
THEOREM FeedInvariance == Spec => []FeedInv
<1>1. Init => FeedInv
  BY FeedInit, RulesAssumption
<1>2. FeedInv /\ [Next]_vars => FeedInv'
  BY FeedStep, RulesAssumption
<1> QED BY <1>1, <1>2, PTL DEF Spec

\* The events of the batch are its range.
LEMMA InBatchIs ==
    ASSUME batch \in Seq(Ids), NEW i, InBatch(i) PROVE i \in Range(batch)
  BY DEF InBatch, Range

\* Whatever the limits of the fetches and of the set of known ids, polling and the socket
\* bring every event once, but for those that came too late, were crowded out or were lost
\* with a connection, and those of the last second read when the set was dropped
\* (runHTTPPollingMode, runSocketMode).
THEOREM Watched == Spec => []WatchedOnce
<1>1. ASSUME FeedInv PROVE WatchedOnce
  <2> SUFFICES ASSUME NEW i \in Ids
               PROVE  /\ Past(i) /\ i \notin Range(batch) => handled[i] > 0 \/ i \in excused
                      /\ handled[i] > 1 => i \in again
    BY DEF WatchedOnce
  <2>1. handled[i] > 1 => i \in again
    BY <1>1 DEF FeedInv, BatchInv
  <2>2. i \notin Range(batch) => ~InBatch(i)
    BY <1>1, InBatchIs DEF FeedInv, FeedTypes
  <2>3. ASSUME program.mode = "poll", Past(i) PROVE InBatch(i) \/ handled[i] > 0 \/ i \in excused
    <3>1. feed.latestSeen # -1 /\ Behind(i)
      BY <2>3 DEF Past, Since, Behind
    <3> QED BY <1>1, <2>3, <3>1 DEF FeedInv, PollFeed
  <2>4. ASSUME program.mode # "poll", Past(i) PROVE InBatch(i) \/ handled[i] > 0 \/ i \in excused
    <3>1. program.mode = "socket" /\ i \notin wire
      BY <1>1, <2>4, FeedFacts, RulesAssumption DEF Past
    <3> QED BY <1>1, <3>1 DEF FeedInv, SocketFeed
  <2> QED BY <2>1, <2>2, <2>3, <2>4
<1> QED BY <1>1, FeedInvariance, PTL

\* Whatever the durations of the requests, a timestamp is said to run backwards only for an
\* event that was overtaken on the socket, and never when polling: the skew tolerated is at
\* least the second that a poll reads again (checkTimestampGap).
THEOREM Anomalies == Spec => []AnomaliesExplained
<1>1. FeedInv => AnomaliesExplained
  BY DEF FeedInv, LastInv, PollOrder, AnomaliesExplained
<1> QED BY <1>1, FeedInvariance, PTL

-----------------------------------------------------------------------------
(* The cooldown. *)

\* The clock goes on, and nothing else does.
LEMMA TickCooldown ==
    ASSUME CooldownInv, now' \in Nat, now' >= now, UNCHANGED <<last, post, alerts, posts>>
    PROVE  CooldownInv'
<1>1. now \in Nat /\ Rules.cooldown \in Nat /\ last \in Int /\ posts \subseteq EndedPosts
  BY DEF CooldownInv, EndedPosts
<1>2. \A p \in posts : p.made \in Int /\ p.answered \in Int
  BY <1>1 DEF EndedPosts
<1>3. \A p \in posts : p.made <= now' /\ p.answered <= now'
  BY <1>1, <1>2 DEF CooldownInv
<1>4. post # Idle => now' - last >= Rules.cooldown
  BY <1>1 DEF CooldownInv
<1>5. post.madeAt # -1 => post.madeAt <= now'
  BY <1>1 DEF CooldownInv
<1>6. CooldownKept'
  BY DEF CooldownInv, CooldownKept
<1> QED BY <1>3, <1>4, <1>5, <1>6 DEF CooldownInv

\* An alert is passed over, only logged, or posted.
LEMMA AlertCooldown ==
    ASSUME CooldownInv, post = Idle, NEW i, NEW type, processAlert(i, type), UNCHANGED <<now, last, posts>>
    PROVE  CooldownInv'
<1>1. now \in Nat /\ Rules.cooldown \in Nat /\ last \in Int /\ posts \subseteq EndedPosts
  BY DEF CooldownInv, EndedPosts
<1>2. CASE type = None
  BY <1>1, <1>2, TickCooldown DEF processAlert
<1>3. CASE type # None
  <2> DEFINE fate == IF now - last < Rules.cooldown THEN "cooldown"
                     ELSE IF program.dryRun THEN "dry run" ELSE "posted"
  <2>1. /\ alerts' = alerts \cup {[event |-> i, at |-> now, fate |-> fate]}
        /\ post' = IF fate = "posted" THEN [Idle EXCEPT !.alert = i] ELSE post
    BY <1>3 DEF processAlert
  <2>2. post'.made = {} /\ post'.madeAt = -1
    <3>1. CASE fate = "posted"
      BY <2>1, <3>1 DEF Idle
    <3>2. CASE fate # "posted"
      BY <2>1, <3>2 DEF Idle
    <3> QED BY <3>1, <3>2
  <2>3. post' # Idle => now - last >= Rules.cooldown
    <3>1. fate = "posted" => ~(now - last < Rules.cooldown)
      OBVIOUS
    <3> HIDE DEF fate
    <3>2. fate # "posted" => post' = Idle
      BY <2>1
    <3> QED BY <1>1, <3>1, <3>2
  <2>4. fate = "cooldown" => now - last < Rules.cooldown
    OBVIOUS
  <2>5. ASSUME fate = "cooldown"
        PROVE  \E p \in posts : p.answered # -1 /\ now \in p.answered..(p.answered + Rules.cooldown - 1)
    <3>1. PICK p \in posts : p.answered # -1 /\ p.answered = last
      BY <1>1, <2>4, <2>5 DEF CooldownInv
    <3>2. p.answered \in Int /\ p.answered <= now
      BY <1>1, <3>1 DEF CooldownInv
    <3> QED BY <1>1, <2>4, <2>5, <3>1, <3>2
  <2>6. ASSUME NEW a \in alerts', a.fate = "cooldown"
        PROVE  \E p \in posts : p.answered # -1 /\ a.at \in p.answered..(p.answered + Rules.cooldown - 1)
    <3>1. CASE a \in alerts
      BY <2>6, <3>1 DEF CooldownInv, CooldownKept
    <3>2. CASE a = [event |-> i, at |-> now, fate |-> fate]
      <4>1. a.fate = fate /\ a.at = now
        BY <3>2
      <4> QED BY <2>5, <2>6, <4>1
    <3> QED BY <2>1, <3>1, <3>2
  <2> HIDE DEF fate
  <2>7. CooldownKept'
    BY <2>6 DEF CooldownInv, CooldownKept
  <2> QED BY <1>1, <2>2, <2>3, <2>7 DEF CooldownInv
<1> QED BY <1>2, <1>3

\* The agent begins the bundle.
LEMMA CreateCooldown ==
    ASSUME CooldownInv, NEW b, createIncident(b)
    PROVE  CooldownInv'
<1>1. /\ post # Idle /\ post' = [post EXCEPT !.made = {b}, !.madeAt = now]
      /\ UNCHANGED <<now, last, alerts, posts>>
  BY DEF createIncident
<1>2. now \in Nat /\ Rules.cooldown \in Nat /\ now - last >= Rules.cooldown
  BY <1>1 DEF CooldownInv
<1>3. post'.madeAt = now \/ post'.madeAt = post.madeAt
  BY <1>1
<1>4. post'.madeAt \in Nat \/ post'.made = post.made
  BY <1>1, <1>2
<1>5. CooldownKept'
  BY <1>1 DEF CooldownInv, CooldownKept
<1> QED BY <1>1, <1>2, <1>3, <1>4, <1>5 DEF CooldownInv

\* A POST ends: its bundle is the newest one, and an answer starts the cooldown.
LEMMA EndCooldown ==
    ASSUME CooldownInv, post # Idle, post' = Idle, NEW answer \in {-1, now},
           posts' = posts \cup {[made |-> post.madeAt, answered |-> answer]},
           last' = (IF answer = -1 THEN last ELSE now), UNCHANGED <<now, alerts>>
    PROVE  CooldownInv'
<1> DEFINE new == [made |-> post.madeAt, answered |-> answer]
<1>1. /\ now \in Nat /\ Rules.cooldown \in Nat /\ last \in Int /\ posts \subseteq EndedPosts
      /\ post.madeAt \in Nat \cup {-1} /\ now - last >= Rules.cooldown
  BY DEF CooldownInv, EndedPosts
<1>2. \A p \in posts : /\ p.made \in Int /\ p.answered \in Int /\ p.made <= now /\ p.answered <= now
                       /\ p.answered # -1 => p.made <= p.answered /\ p.answered <= last
  BY <1>1 DEF CooldownInv, EndedPosts
<1>3. new.made = post.madeAt /\ new.answered = answer /\ new \in EndedPosts
  BY <1>1 DEF EndedPosts
<1>4. new.made <= now /\ new.answered <= now
  BY <1>1, <1>3 DEF CooldownInv
<1>5. post'.made = {} /\ post'.madeAt = -1
  BY DEF Idle
<1>6. answer # -1 <=> answer = now
  BY <1>1
<1>7. (last' \in Int /\ last' >= last /\ last' <= now) \/ last' = last
  BY <1>1, <1>6
<1>8. answer # -1 => last' = now
  OBVIOUS
<1>9. last' = -Rules.cooldown \/ \E p \in posts' : p.answered # -1 /\ p.answered = last'
  <2>1. CASE answer = -1
    BY <2>1 DEF CooldownInv
  <2>2. CASE answer # -1
    BY <1>3, <1>6, <1>8, <2>2
  <2> QED BY <2>1, <2>2
<1>10. \A p \in posts' : p.made <= now /\ p.answered <= now
  BY <1>2, <1>3, <1>4
<1>11. \A p \in posts' : p.answered # -1 => p.made <= p.answered /\ p.answered <= last'
  <2>1. \A p \in posts : p.answered # -1 => p.made <= p.answered /\ p.answered <= last'
    BY <1>1, <1>2, <1>6
  <2>2. new.answered # -1 => new.made <= new.answered /\ new.answered <= last'
    BY <1>1, <1>3, <1>4, <1>6, <1>8
  <2> QED BY <2>1, <2>2
<1>12. ASSUME NEW p \in posts', NEW q \in posts',
              p.made # -1, p.made < q.made, q.made - p.made < Rules.cooldown
       PROVE  p.answered = -1
  <2>1. CASE p \in posts /\ q \in posts
    BY <1>12, <2>1 DEF CooldownInv, CooldownKept
  <2>2. CASE p \in posts /\ q = new
    <3>1. q.made = post.madeAt /\ p.made \in Int /\ p.made # -1 /\ p.made \in Nat
      BY <1>1, <1>3, <1>12, <2>2 DEF EndedPosts
    <3>2. post.madeAt # -1 /\ post.madeAt \in Nat
      BY <1>1, <1>12, <3>1
    <3>3. post.madeAt - last >= Rules.cooldown
      BY <3>2 DEF CooldownInv
    <3>4. p.answered # -1 => p.made <= last
      BY <1>1, <1>2, <2>2
    <3> QED BY <1>1, <1>12, <3>1, <3>2, <3>3, <3>4
  <2>3. CASE p = new /\ q \in posts
    <3>1. p.made = post.madeAt /\ post.madeAt # -1
      BY <1>3, <1>12, <2>3
    <3>2. q.made <= post.madeAt
      BY <2>3, <3>1 DEF CooldownInv
    <3> QED BY <1>1, <1>2, <1>12, <2>3, <3>1, <3>2
  <2>4. CASE p = new /\ q = new
    BY <1>1, <1>3, <1>12, <2>4
  <2> QED BY <2>1, <2>2, <2>3, <2>4
<1>13. CooldownKept'
  <2>1. ASSUME NEW a \in alerts', a.fate = "cooldown"
        PROVE  \E p \in posts' : p.answered # -1 /\ a.at \in p.answered..(p.answered + Rules.cooldown - 1)
    BY <2>1 DEF CooldownInv, CooldownKept
  <2> QED BY <1>12, <2>1 DEF CooldownKept
<1>14. posts' \subseteq EndedPosts
  BY <1>1, <1>3
<1> HIDE DEF new
<1> QED BY <1>1, <1>5, <1>9, <1>10, <1>11, <1>13, <1>14 DEF CooldownInv

\* The invariant of the cooldown holds at the start.
LEMMA InitCooldown ==
    ASSUME Configured, Init PROVE CooldownInv
<1>1. /\ now = 0 /\ last = -Rules.cooldown /\ post = Idle /\ alerts = {} /\ posts = {}
  BY DEF Init
<1>2. post.made = {} /\ post.madeAt = -1
  BY <1>1 DEF Idle
<1>3. Rules.cooldown \in Nat
  BY DEF Configured
<1> QED BY <1>1, <1>2, <1>3 DEF CooldownInv, CooldownKept

\* Every step keeps the invariant of the cooldown.
LEMMA StepCooldown ==
    ASSUME CooldownInv, [Next]_vars PROVE CooldownInv'
<1>0. now \in Nat
  BY DEF CooldownInv
<1>1. ASSUME UNCHANGED <<now, secbotVars>> PROVE CooldownInv'
  BY <1>0, <1>1, TickCooldown DEF secbotVars
<1>2. CASE Tick
  BY <1>0, <1>2, TickCooldown DEF Tick, secbotVars
<1>3. ASSUME NEW kind, NEW dur, Record(kind, dur) PROVE CooldownInv'
  BY <1>1, <1>3 DEF Record
<1>4. CASE FirstFetch
  BY <1>1, <1>4 DEF FirstFetch
<1>5. CASE Poll
  BY <1>1, <1>5 DEF Poll
<1>6. CASE Connect
  BY <1>1, <1>6 DEF Connect
<1>7. CASE Disconnect
  BY <1>1, <1>7 DEF Disconnect
<1>8. CASE ReadSocket
  BY <1>1, <1>8 DEF ReadSocket
<1>9. CASE analyzeNext
  BY <1>1, <1>9 DEF analyzeNext
<1>10. CASE processNext
  BY <1>10, AlertCooldown DEF processNext
<1>11. ASSUME NEW b, createIncident(b) PROVE CooldownInv'
  BY <1>11, CreateCooldown
<1>12. CASE postAnswered
  <2>1. now # -1
    BY <1>0
  <2> QED BY <1>12, <2>1, EndCooldown DEF postAnswered
<1>13. CASE postFailed
  BY <1>13, EndCooldown DEF postFailed
<1>14. CASE Agent
  BY <1>1, <1>14 DEF Agent
<1>15. CASE UNCHANGED vars
  BY <1>1, <1>15 DEF vars
<1> QED BY <1>2, <1>3, <1>4, <1>5, <1>6, <1>7, <1>8, <1>9, <1>10, <1>11, <1>12, <1>13, <1>14, <1>15 DEF Next

\* The cooldown is neither cut short nor drawn out: bundles begun within one are due to a
\* POST without an answer, and alerts are passed over only after one that had an answer
\* (processAlert).
THEOREM Cooldown == Spec => []CooldownKept
<1>1. Init => CooldownInv
  BY InitCooldown, RulesAssumption
<1>2. CooldownInv /\ [Next]_vars => CooldownInv'
  BY StepCooldown
<1>3. CooldownInv => CooldownKept
  BY DEF CooldownInv
<1> QED BY <1>1, <1>2, <1>3, PTL DEF Spec


-----------------------------------------------------------------------------
(* The index of the bundles. *)

\* A call goes on and nothing is listed by it: what was not safe is not.
LEMMA IndexFacts ==
    ASSUME IndexInv, NEW b \in Bundles, NEW x \in BundleStates, bundle' = [bundle EXCEPT ![b] = x],
           x.listed => bundle[b].listed, raced \subseteq raced', harmed \subseteq harmed'
    PROVE  /\ bundle' \in [Bundles -> BundleStates] /\ bundle'[b] = x
           /\ \A d \in Bundles : d # b => bundle'[d] = bundle[d]
           /\ Safe' \subseteq Safe /\ Listed' \subseteq Listed
           /\ \A d \in Bundles : d # b => (d \in Appending' <=> d \in Appending) /\ (d \in Writing' <=> d \in Writing)
           /\ b \in Appending' <=> x.pc \in {"truncate", "write"}
           /\ b \in Writing' <=> x.pc = "write"
           /\ Appending' \subseteq Bundles /\ Writing' \subseteq Bundles /\ Appending \subseteq Bundles
           /\ Writing \subseteq Appending
<1>1. bundle \in [Bundles -> BundleStates]
  BY DEF IndexInv
<1>2. /\ bundle' \in [Bundles -> BundleStates] /\ bundle'[b] = x
      /\ \A d \in Bundles : d # b => bundle'[d] = bundle[d]
  BY <1>1
<1>3. Listed' \subseteq Listed
  BY <1>2 DEF Listed
<1>4. Safe' \subseteq Safe
  BY <1>3 DEF Safe
<1> QED BY <1>2, <1>3, <1>4 DEF Appending, Writing

\* A call outside the append: it comes to it or leaves it.
LEMMA IndexAway ==
    ASSUME IndexInv, NEW b \in Bundles, NEW x \in BundleStates, bundle' = [bundle EXCEPT ![b] = x],
           x.listed => bundle[b].listed, x.pc \notin {"truncate", "write"}, bundle[b].pc # "write",
           UNCHANGED <<index, raced, harmed>>
    PROVE  IndexInv'
<1>1. /\ bundle' \in [Bundles -> BundleStates] /\ Safe' \subseteq Safe
      /\ Appending' \subseteq Appending /\ Writing' = Writing
      /\ \A d \in Appending' : bundle'[d] = bundle[d]
  <2>1. /\ bundle' \in [Bundles -> BundleStates] /\ Safe' \subseteq Safe
        /\ \A d \in Bundles : d # b => bundle'[d] = bundle[d]
        /\ \A d \in Bundles : d # b => (d \in Appending' <=> d \in Appending) /\ (d \in Writing' <=> d \in Writing)
        /\ Appending' \subseteq Bundles /\ Writing' \subseteq Bundles /\ Appending \subseteq Bundles
        /\ Writing \subseteq Appending /\ b \notin Appending' /\ b \notin Writing'
    BY IndexFacts
  <2>2. b \notin Writing
    BY DEF Writing
  <2> QED BY <2>1, <2>2
<1>2. Writing \subseteq Appending
  BY DEF Writing, Appending
<1>3. \A a \in Writing' : a \in Appending' /\ bundle'[a] = bundle[a]
  BY <1>1 DEF Writing, Appending
<1> QED BY <1>1, <1>2, <1>3 DEF IndexInv

\* So does a call that only moves.
LEMMA IndexMove ==
    ASSUME IndexInv, NEW b \in Bundles, NEW pc, Goto(b, pc),
           pc \in {"collect", "assemble", "append", "report", "done", "failed"},
           bundle[b].pc # "write", UNCHANGED <<index, raced, harmed>>
    PROVE  IndexInv'
<1> DEFINE x == [bundle[b] EXCEPT !.pc = pc]
<1>1. bundle \in [Bundles -> BundleStates] /\ bundle[b] \in BundleStates
  BY DEF IndexInv
<1>2. bundle' = [bundle EXCEPT ![b] = x]
  BY DEF Goto
<1>3. x \in BundleStates /\ x.pc = pc /\ x.listed = bundle[b].listed
  BY <1>1 DEF BundleStates
<1> HIDE DEF x
<1> QED BY <1>2, <1>3, IndexAway

\* A call that reads the file with nobody writing has everything that is safe; otherwise
\* nothing is. The calls it overlaps with are raced.
LEMMA IndexRead ==
    ASSUME IndexInv, NEW b \in Bundles, ReadIndex(b) PROVE IndexInv'
<1>1. bundle \in [Bundles -> BundleStates] /\ bundle[b] \in BundleStates /\ index \subseteq Bundles
      /\ raced \subseteq Bundles /\ harmed \subseteq Bundles
  BY DEF IndexInv
<1>2. PICK fails \in BOOLEAN :
        /\ bundle' = [bundle EXCEPT ![b].pc = "truncate", ![b].entries = IF fails THEN {} ELSE index]
        /\ HarmIf(fails \/ Writing # {})
  BY DEF ReadIndex
<1> DEFINE read == IF fails THEN {} ELSE index
<1> DEFINE x == [bundle[b] EXCEPT !.pc = "truncate", !.entries = read]
<1>3. /\ bundle[b].pc = "append" /\ bundle' = [bundle EXCEPT ![b] = x]
      /\ raced' = (IF Appending = {} THEN raced ELSE raced \cup Appending \cup {b}) /\ index' = index
  BY <1>2 DEF ReadIndex
<1>4. read \subseteq Bundles
  BY <1>1
<1>5. fails \/ Writing # {} => harmed' = harmed \cup Listed
  BY <1>2 DEF HarmIf
<1>6. harmed \subseteq harmed' /\ harmed' \subseteq Bundles /\ raced \subseteq raced' /\ raced' \subseteq Bundles
  BY <1>1, <1>2, <1>3 DEF HarmIf, Listed, Appending
<1>7. ~fails => read = index
  OBVIOUS
<1> HIDE DEF read
<1>8. x \in BundleStates /\ x.pc = "truncate" /\ x.entries = read /\ x.listed = bundle[b].listed
  BY <1>1, <1>4 DEF BundleStates
<1> HIDE DEF x
<1>9. /\ bundle' \in [Bundles -> BundleStates] /\ bundle'[b] = x
      /\ \A d \in Bundles : d # b => bundle'[d] = bundle[d]
      /\ Safe' \subseteq Safe /\ Listed' \subseteq Listed
      /\ \A d \in Bundles : d # b => (d \in Appending' <=> d \in Appending)
      /\ Appending' \subseteq Bundles /\ Writing \subseteq Appending
  BY <1>3, <1>6, <1>8, IndexFacts
<1>10. Writing' = Writing /\ b \notin Writing /\ b \notin Appending
  BY <1>3, <1>8, <1>9 DEF Writing, Appending
<1>11. fails \/ Writing # {} => Safe' = {}
  BY <1>5, <1>9 DEF Safe
<1>12. ASSUME NEW a \in Appending', NEW d \in Appending', a # d PROVE a \in raced'
  <2>1. CASE a = b
    BY <1>3, <1>9, <1>12, <2>1
  <2>2. CASE a # b
    BY <1>3, <1>9, <1>12, <2>2
  <2> QED BY <2>1, <2>2
<1>13. ASSUME NEW a \in Appending' PROVE Safe' \subseteq bundle'[a].entries
  <2>1. CASE a = b
    <3>1. CASE fails \/ Writing # {}
      BY <1>11, <3>1
    <3>2. CASE ~fails /\ Writing = {}
      BY <1>7, <1>8, <1>9, <2>1, <3>2 DEF IndexInv
    <3> QED BY <3>1, <3>2
  <2>2. CASE a # b
    BY <1>9, <1>13, <2>2 DEF IndexInv
  <2> QED BY <2>1, <2>2
<1>14. \A a \in Writing' : bundle'[a] = bundle[a]
  BY <1>9, <1>10 DEF Writing
<1> QED BY <1>3, <1>6, <1>9, <1>10, <1>12, <1>13, <1>14 DEF IndexInv

\* The file is truncated; the call remembers what it held. If another call is writing,
\* nothing is safe.
LEMMA IndexTruncated ==
    ASSUME IndexInv, NEW b \in Bundles, bundle[b].pc = "truncate",
           bundle' = [bundle EXCEPT ![b].pc = "write", ![b].over = FALSE], index' = {},
           HarmIf(Writing # {}), UNCHANGED raced
    PROVE  IndexInv'
<1> DEFINE x == [bundle[b] EXCEPT !.pc = "write", !.over = FALSE]
<1>1. bundle \in [Bundles -> BundleStates] /\ bundle[b] \in BundleStates
      /\ raced \subseteq Bundles /\ harmed \subseteq Bundles
  BY DEF IndexInv
<1>2. bundle' = [bundle EXCEPT ![b] = x]
  OBVIOUS
<1>3. x \in BundleStates /\ x.pc = "write" /\ x.entries = bundle[b].entries /\ x.listed = bundle[b].listed
      /\ ~x.over
  BY <1>1 DEF BundleStates
<1> HIDE DEF x
<1>4. harmed \subseteq harmed' /\ harmed' \subseteq Bundles /\ (Writing # {} => harmed' = harmed \cup Listed)
  BY <1>1 DEF HarmIf, Listed
<1>5. /\ bundle' \in [Bundles -> BundleStates] /\ bundle'[b] = x
      /\ \A d \in Bundles : d # b => bundle'[d] = bundle[d]
      /\ Safe' \subseteq Safe /\ Listed' \subseteq Listed /\ Appending \subseteq Bundles
      /\ \A d \in Bundles : d # b => (d \in Appending' <=> d \in Appending) /\ (d \in Writing' <=> d \in Writing)
      /\ Appending' \subseteq Bundles /\ Writing' \subseteq Bundles /\ b \in Appending' /\ b \in Writing'
  BY <1>2, <1>3, <1>4, IndexFacts
<1>6. b \in Appending /\ Appending' = Appending
  BY <1>5 DEF Appending
<1>7. Writing # {} => Safe' = {}
  BY <1>4, <1>5 DEF Safe
<1>8. \A a, d \in Writing' : a # d => Safe' = {}
  BY <1>5, <1>7
<1>9. ASSUME NEW a \in Writing', bundle'[a].over PROVE a \in raced' /\ Safe' = {}
  <2>1. a # b /\ a \in Writing /\ bundle'[a] = bundle[a]
    BY <1>3, <1>5, <1>9
  <2> QED BY <1>7, <1>9, <2>1 DEF IndexInv
<1>10. \A a \in Appending' : bundle'[a].entries = bundle[a].entries
  BY <1>3, <1>5
<1>11. \A a \in Appending' : Safe' \subseteq bundle'[a].entries
  BY <1>5, <1>6, <1>10 DEF IndexInv
<1>12. \A a, d \in Appending' : a # d => a \in raced'
  BY <1>6 DEF IndexInv
<1> QED BY <1>4, <1>5, <1>8, <1>9, <1>11, <1>12 DEF IndexInv

\* It cannot be opened: the call goes on without.
LEMMA IndexUnopened ==
    ASSUME IndexInv, NEW b \in Bundles, bundle[b].pc = "truncate",
           bundle' = [bundle EXCEPT ![b] = Returned("report", FALSE)], UNCHANGED <<index, raced, harmed>>
    PROVE  IndexInv'
<1> DEFINE x == Returned("report", FALSE)
<1>1. x \in BundleStates /\ x.pc = "report" /\ x.listed = FALSE /\ bundle' = [bundle EXCEPT ![b] = x]
  BY DEF Returned, BundleStates
<1> HIDE DEF x
<1> QED BY <1>1, IndexAway

\* The call leaves the file and the others that have it open are over what it wrote.
LEMMA IndexLeaves ==
    ASSUME IndexInv, NEW b \in Bundles, bundle[b].pc = "write", NEW listed \in BOOLEAN, Written(b, listed)
    PROVE  /\ bundle' \in [Bundles -> BundleStates]
           /\ bundle'[b] = Returned("report", listed) /\ Returned("report", listed).listed = listed
           /\ \A d \in Bundles : d # b => /\ bundle'[d].pc = bundle[d].pc /\ bundle'[d].listed = bundle[d].listed
                                         /\ bundle'[d].entries = bundle[d].entries
           /\ Appending' = Appending \ {b} /\ Writing' = Writing \ {b} /\ b \in Writing
           /\ Listed' \subseteq Listed \cup {b} /\ (~listed => Listed' \subseteq Listed)
<1>1. bundle \in [Bundles -> BundleStates]
  BY DEF IndexInv
<1> DEFINE r == Returned("report", listed)
<1>2. r \in BundleStates /\ r.pc = "report" /\ r.listed = listed
  BY DEF Returned, BundleStates
<1>3. bundle' = [u \in Bundles |-> CASE u = b -> r
                                   [] u # b /\ u \in Writing -> [bundle[u] EXCEPT !.over = TRUE]
                                   [] OTHER -> bundle[u]]
  BY DEF Written
<1> HIDE DEF r
<1>4. bundle'[b] = r
  BY <1>3
<1>5. ASSUME NEW d \in Bundles, d # b
      PROVE  /\ bundle'[d] \in BundleStates /\ bundle'[d].pc = bundle[d].pc /\ bundle'[d].listed = bundle[d].listed
             /\ bundle'[d].entries = bundle[d].entries
  <2>1. bundle[d] \in BundleStates
    BY <1>1
  <2>2. CASE d \in Writing
    <3>1. bundle'[d] = [bundle[d] EXCEPT !.over = TRUE]
      BY <1>3, <1>5, <2>2
    <3> QED BY <2>1, <3>1 DEF BundleStates
  <2>3. CASE d \notin Writing
    <3>1. bundle'[d] = bundle[d]
      BY <1>3, <1>5, <2>3
    <3> QED BY <2>1, <3>1
  <2> QED BY <2>2, <2>3
<1>6. ASSUME NEW d \in Bundles PROVE bundle'[d] \in BundleStates
  <2>1. CASE d = b
    BY <1>2, <1>4, <2>1
  <2>2. CASE d # b
    BY <1>5, <2>2
  <2> QED BY <2>1, <2>2
<1>7. bundle' \in [Bundles -> BundleStates]
  <2>1. DOMAIN bundle' = Bundles /\ bundle' = [d \in Bundles |-> bundle'[d]]
    BY <1>3
  <2> QED BY <1>6, <2>1
<1>8. Appending' = Appending \ {b} /\ Writing' = Writing \ {b} /\ b \in Writing
  BY <1>2, <1>4, <1>5 DEF Appending, Writing
<1>9. Listed' \subseteq Listed \cup {b} /\ (~listed => Listed' \subseteq Listed)
  BY <1>2, <1>4, <1>5 DEF Listed
<1>10. /\ r = Returned("report", listed) /\ r.listed = listed
       /\ \A d \in Bundles : d # b => /\ bundle'[d].pc = bundle[d].pc /\ bundle'[d].listed = bundle[d].listed
                                     /\ bundle'[d].entries = bundle[d].entries
  BY <1>2, <1>5 DEF r
<1> QED BY <1>4, <1>7, <1>8, <1>9, <1>10

\* The file is written with what the call read and its own bundle, or the write leaves it
\* unreadable. When another call has the file open the two are raced and nothing is safe.
LEMMA IndexWritten ==
    ASSUME IndexInv, NEW b \in Bundles, WriteIndex(b) PROVE IndexInv'
<1>1. /\ bundle \in [Bundles -> BundleStates] /\ bundle[b].pc = "write" /\ UNCHANGED raced
      /\ raced \subseteq Bundles /\ harmed \subseteq Bundles /\ bundle[b] \in BundleStates
      /\ b \in Appending /\ b \in Writing /\ Writing \subseteq Appending /\ Appending \subseteq Bundles
  BY DEF IndexInv, WriteIndex, Appending, Writing
<1>2. bundle[b].entries \subseteq Bundles /\ Safe \subseteq bundle[b].entries
  BY <1>1 DEF BundleStates, IndexInv
<1>3. CASE Written(b, FALSE) /\ index' = {} /\ HarmIf(TRUE)
  <2>1. /\ bundle' \in [Bundles -> BundleStates] /\ Appending' = Appending \ {b} /\ Listed' \subseteq Listed
        /\ Writing' = Writing \ {b}
    BY <1>1, <1>3, IndexLeaves
  <2>2. harmed' = harmed \cup Listed /\ Listed \subseteq Bundles
    BY <1>3 DEF HarmIf, Listed
  <2>3. Safe' = {}
    BY <2>1, <2>2 DEF Safe
  <2>4. \A a, d \in Appending' : a # d => a \in raced'
    BY <1>1, <2>1 DEF IndexInv
  <2>5. \A a \in Writing' : a \in raced'
    BY <1>1, <2>1 DEF IndexInv
  <2> QED BY <1>1, <1>3, <2>1, <2>2, <2>3, <2>4, <2>5 DEF IndexInv
<1>4. CASE Written(b, TRUE) /\ UNCHANGED harmed
           /\ (index' = Rewritten(b) \/ (bundle[b].over /\ index' = {}))
  <2>1. /\ bundle' \in [Bundles -> BundleStates] /\ Appending' = Appending \ {b} /\ Writing' = Writing \ {b}
        /\ \A d \in Bundles : d # b => bundle'[d].entries = bundle[d].entries
        /\ Listed' \subseteq Listed \cup {b}
    BY <1>1, <1>4, IndexLeaves
  <2>2. Safe' \subseteq Safe \cup {b}
    BY <1>1, <1>4, <2>1 DEF Safe
  <2>3. Appending # {b} => b \in raced
    BY <1>1 DEF IndexInv
  <2>4. b \in raced => Safe' \subseteq Safe
    BY <1>1, <2>2 DEF Safe
  <2>5. Writing' # {} => Safe' = {}
    <3> SUFFICES ASSUME Writing' # {} PROVE Safe' = {}
      OBVIOUS
    <3>1. PICK a \in Writing : a # b
      BY <2>1
    <3>2. Safe = {}
      BY <1>1, <3>1 DEF IndexInv
    <3>3. Appending # {b}
      BY <1>1, <3>1
    <3> QED BY <2>3, <2>4, <3>2, <3>3
  <2>6. \A a, d \in Appending' : a # d => a \in raced'
    BY <1>1, <2>1 DEF IndexInv
  <2>7. ASSUME NEW a \in Appending' PROVE Safe' \subseteq bundle'[a].entries
    <3>1. a \in Appending /\ a # b /\ a \in Bundles
      BY <1>1, <2>1, <2>7
    <3>2. Safe' \subseteq Safe
      BY <2>3, <2>4, <3>1
    <3> QED BY <2>1, <3>1, <3>2 DEF IndexInv
  <2>8. \A a \in Writing' : a \in raced' /\ Safe' = {}
    BY <1>1, <2>1, <2>5 DEF IndexInv
  <2>9. CASE index' = Rewritten(b)
    <3>1. index' \subseteq Bundles /\ Safe' \subseteq index'
      BY <1>2, <2>2, <2>9 DEF Rewritten
    <3> QED BY <1>1, <1>4, <2>1, <2>6, <2>7, <2>8, <3>1 DEF IndexInv
  <2>10. CASE bundle[b].over /\ index' = {}
    <3>1. Safe = {}
      BY <1>1, <2>10 DEF IndexInv
    <3>2. Safe' \subseteq index'
      <4>1. b \in raced
        BY <1>1, <2>10 DEF IndexInv
      <4> QED BY <2>4, <3>1, <4>1
    <3> QED BY <1>1, <1>4, <2>1, <2>6, <2>7, <2>8, <2>10, <3>2 DEF IndexInv
  <2> QED BY <1>4, <2>9, <2>10
<1> QED BY <1>3, <1>4 DEF WriteIndex

\* The agent dies; every call it had is gone, and nothing is safe if one was writing.
LEMMA IndexCrash ==
    ASSUME IndexInv, AgentCrash PROVE IndexInv'
<1>1. bundle \in [Bundles -> BundleStates] /\ raced \subseteq Bundles /\ harmed \subseteq Bundles
  BY DEF IndexInv
<1>2. /\ bundle' = [b \in Bundles |-> IF bundle[b].pc \in {"idle", "done"} THEN bundle[b]
                                     ELSE Returned("failed", bundle[b].listed)]
      /\ HarmIf(Writing # {}) /\ UNCHANGED <<index, raced>>
  BY DEF AgentCrash
<1>3. ASSUME NEW d \in Bundles
      PROVE  /\ bundle'[d] \in BundleStates /\ bundle'[d].listed = bundle[d].listed
             /\ bundle'[d].pc \in {"idle", "done", "failed"}
  <2>1. bundle[d] \in BundleStates /\ bundle[d].listed \in BOOLEAN
    BY <1>1 DEF BundleStates
  <2>2. CASE bundle[d].pc \in {"idle", "done"}
    BY <1>2, <2>1, <2>2
  <2>3. CASE bundle[d].pc \notin {"idle", "done"}
    <3>1. bundle'[d] = Returned("failed", bundle[d].listed)
      BY <1>2, <2>3
    <3> QED BY <2>1, <3>1 DEF Returned, BundleStates
  <2> QED BY <2>2, <2>3
<1>4. bundle' \in [Bundles -> BundleStates]
  BY <1>2, <1>3
<1>5. Appending' = {} /\ Writing' = {} /\ Listed' = Listed
  BY <1>3 DEF Appending, Writing, Listed
<1>6. harmed' \subseteq Bundles /\ Safe' \subseteq Safe /\ (Writing # {} => Safe' = {})
  BY <1>1, <1>2, <1>5 DEF HarmIf, Safe, Listed
<1>7. Safe' \subseteq index'
  BY <1>2, <1>6 DEF IndexInv
<1> QED BY <1>1, <1>2, <1>4, <1>5, <1>6, <1>7 DEF IndexInv

\* Every step of the agent keeps the invariant of the index.
LEMMA IndexAgent ==
    ASSUME IndexInv, AgentStep PROVE IndexInv'
<1>1. ASSUME NEW b \in Bundles, collectLayers(b) PROVE IndexInv'
  BY <1>1, IndexMove DEF collectLayers
<1>2. ASSUME NEW b \in Bundles, assembleTarball(b) PROVE IndexInv'
  BY <1>2, IndexMove DEF assembleTarball
<1>3. ASSUME NEW b \in Bundles, TruncateIndex(b) PROVE IndexInv'
  BY <1>3, IndexTruncated, IndexUnopened DEF TruncateIndex
<1>4. ASSUME NEW b \in Bundles, Report(b) PROVE IndexInv'
  BY <1>4, IndexMove DEF Report
<1> QED BY <1>1, <1>2, <1>3, <1>4, IndexRead, IndexWritten, IndexCrash DEF AgentStep

\* Every step keeps the invariant of the index.
LEMMA IndexStep ==
    ASSUME IndexInv, [Next]_vars PROVE IndexInv'
<1>1. ASSUME UNCHANGED incidentVars PROVE IndexInv'
  BY <1>1 DEF incidentVars, IndexInv, Appending, Writing, Listed, Safe
<1>2. ASSUME NEW b \in Bundles, createIncident(b) PROVE IndexInv'
  BY <1>2, IndexMove DEF createIncident, Begin
<1>3. CASE Agent
  BY <1>3, IndexAgent DEF Agent
<1>4. CASE Tick \/ Connect \/ Disconnect \/ ReadSocket \/ analyzeNext
  BY <1>1, <1>4 DEF Tick, Connect, Disconnect, ReadSocket, analyzeNext
<1>5. CASE FirstFetch \/ Poll
  BY <1>1, <1>5 DEF FirstFetch, Poll
<1>6. ASSUME NEW kind, NEW dur, Record(kind, dur) PROVE IndexInv'
  BY <1>1, <1>6 DEF Record
<1>7. CASE processNext \/ postAnswered \/ postFailed
  BY <1>1, <1>7 DEF processNext, postAnswered, postFailed
<1>8. CASE UNCHANGED vars
  BY <1>1, <1>8 DEF vars
<1> QED BY <1>2, <1>3, <1>4, <1>5, <1>6, <1>7, <1>8 DEF Next

\* The invariant of the index is one.
THEOREM IndexInvariance == Spec => []IndexInv
<1>1. ASSUME Init PROVE IndexInv
  <2>1. /\ bundle = [b \in Bundles |-> [pc |-> "idle", entries |-> {}, over |-> FALSE, listed |-> FALSE]]
        /\ index = {} /\ raced = {} /\ harmed = {}
    BY <1>1 DEF Init, IncidentsInit
  <2>2. /\ bundle \in [Bundles -> BundleStates]
        /\ \A b \in Bundles : bundle[b].pc = "idle" /\ bundle[b].listed = FALSE
    BY <2>1 DEF BundleStates
  <2>3. Appending = {} /\ Writing = {} /\ Safe = {}
    BY <2>2 DEF Appending, Writing, Safe, Listed
  <2> QED BY <2>1, <2>2, <2>3 DEF IndexInv
<1>2. IndexInv /\ [Next]_vars => IndexInv'
  BY IndexStep
<1> QED BY <1>1, <1>2, PTL DEF Spec

\* The index lists every bundle whose append succeeded, unless that append overlapped with
\* another or the whole list was lost while the bundle was on it: by a read that failed or
\* came while the file was truncated, by writes at once, by a write that failed, or by a
\* crash before the write (appendToIndex).
THEOREM Index == Spec => []IndexKeeps
<1>1. IndexInv => IndexKeeps
  BY DEF IndexInv, IndexKeeps, Safe
<1> QED BY <1>1, IndexInvariance, PTL

-----------------------------------------------------------------------------
(* Types. *)

\* The types that no other invariant states.
RestTypes ==
    /\ now <= program.until
    /\ excused \subseteq Ids /\ again \subseteq Ids /\ alarms \subseteq Ids /\ overtaken \subseteq Ids
    /\ tracker \in VolumeTrackers
    /\ last \in -Rules.cooldown..program.until

\* Counting an event keeps the type of secbot's tracker.
LEMMA VolumeTypes ==
    ASSUME NEW v \in VolumeTrackers, NEW t \in Nat PROVE recordAndCheck(v, t).state \in VolumeTrackers
<1> DEFINE w == IF t - v.minuteStart >= Rules.minute THEN NewVolumeTracker(t) ELSE v
           count == w.eventsThisMinute + 1
           high == count = Rules.volume + 1 /\ ~w.alerted
<1>1. w \in VolumeTrackers
  BY DEF NewVolumeTracker, VolumeTrackers
<1>2. recordAndCheck(v, t).state = [w EXCEPT !.eventsThisMinute = count, !.alerted = w.alerted \/ high]
  BY DEF recordAndCheck
<1> HIDE DEF w
<1>3. count \in Nat /\ w.alerted \in BOOLEAN
  BY <1>1 DEF VolumeTrackers
<1> HIDE DEF count, high
<1>4. (w.alerted \/ high) \in BOOLEAN
  OBVIOUS
<1> QED BY <1>1, <1>2, <1>3, <1>4 DEF VolumeTrackers

\* Every step keeps these types.
LEMMA RestStep ==
    ASSUME Configured, FeedInv, RestTypes, [Next]_vars PROVE RestTypes'
<1>1. /\ now \in Nat /\ log \in Seq(Events) /\ wire \subseteq Ids /\ Len(log) \in Nat
      /\ program.until \in Nat /\ program \in Deployments /\ Rules.cooldown \in Nat
  BY FeedFacts DEF FeedInv, FeedTypes, Configured
<1>2. ASSUME UNCHANGED <<now, log, program, feedVars, watchVars, tracker, last>> PROVE RestTypes'
  BY <1>2 DEF RestTypes, feedVars, watchVars, Ids
<1>3. CASE Tick
  <2>1. /\ now' = now + 1 /\ now < program.until
        /\ UNCHANGED <<log, program, excused, again, alarms, overtaken, tracker, last>>
    BY <1>3 DEF Tick, feedVars, watchVars, secbotVars
  <2>2. now' <= program'.until
    BY <1>1, <2>1
  <2> QED BY <2>1, <2>2 DEF RestTypes, Ids
<1>4. ASSUME NEW kind, NEW dur, Record(kind, dur) PROVE RestTypes'
  <2>1. /\ UNCHANGED <<now, program, again, alarms, overtaken, tracker, last>>
        /\ excused' \subseteq excused \cup {Len(log) + 1}
    BY <1>4 DEF Record, watchVars, secbotVars
  <2>2. Len(log') = Len(log) + 1
    BY <1>1, <1>4 DEF Record
  <2>3. Ids \subseteq Ids' /\ Len(log) + 1 \in Ids'
    BY <1>1, <2>2 DEF Ids
  <2> QED BY <2>1, <2>3 DEF RestTypes
<1>5. \A n : Crowded(n) \subseteq Ids
  BY DEF Crowded
<1>6. CASE FirstFetch
  <2>1. UNCHANGED <<now, log, program, again, alarms, overtaken, tracker, last>>
    BY <1>6 DEF FirstFetch, watchVars, secbotVars
  <2>2. excused' = Crowded(FirstLimit) \/ excused' = Ids \/ excused' = excused
    BY <1>6 DEF FirstFetch
  <2> QED BY <1>5, <2>1, <2>2 DEF RestTypes, Ids
<1>7. CASE Poll
  <2> DEFINE known == feed.seenIDs \cup Query(Since, PollLimit)
  <2>1. UNCHANGED <<now, log, program, alarms, overtaken, tracker, last>>
    BY <1>7 DEF Poll, watchVars, secbotVars
  <2>2. excused' = excused \cup Crowded(PollLimit) \cup Stale
    BY <1>7 DEF Poll
  <2>3. again' \subseteq again \cup known
    BY <1>7 DEF Poll
  <2>4. known \subseteq Ids /\ Stale \subseteq Ids
    BY FeedFacts DEF Query, Stale
  <2> HIDE DEF known
  <2> QED BY <1>5, <2>1, <2>2, <2>3, <2>4 DEF RestTypes, Ids
<1>8. CASE Connect \/ Disconnect \/ ReadSocket
  <2>1. UNCHANGED <<now, log, program, again, alarms, overtaken, tracker, last>>
    BY <1>8 DEF Connect, Disconnect, ReadSocket, watchVars, secbotVars
  <2>2. excused' = excused \cup Ids \/ excused' = excused \cup wire \/ excused' = excused
    BY <1>8 DEF Connect, Disconnect, ReadSocket, Disconnected
  <2> QED BY <1>1, <2>1, <2>2 DEF RestTypes, Ids
<1>9. CASE analyzeNext
  <2>1. PICK i \in Ids : Handled(i) /\ (alarms' = alarms \cup {i} \/ alarms' = alarms)
    BY <1>9 DEF analyzeNext
  <2>2. overtaken' = overtaken \cup {i} \/ overtaken' = overtaken
    BY <2>1 DEF Handled
  <2>3. UNCHANGED <<now, log, program, excused, again, tracker, last>>
    BY <1>9 DEF analyzeNext, secbotVars
  <2> QED BY <2>1, <2>2, <2>3 DEF RestTypes, Ids
<1>10. CASE processNext
  <2>1. PICK i \in Ids : Handled(i)
    BY <1>10 DEF processNext
  <2>2. overtaken' = overtaken \cup {i} \/ overtaken' = overtaken
    BY <2>1 DEF Handled
  <2>3. tracker' \in VolumeTrackers
    BY <1>1, <1>10, VolumeTypes DEF processNext, RestTypes
  <2>4. UNCHANGED <<now, log, program, excused, again, alarms, last>>
    BY <1>10 DEF processNext
  <2> QED BY <2>1, <2>2, <2>3, <2>4 DEF RestTypes, Ids
<1>11. CASE postAnswered
  <2>1. /\ last' = now
        /\ UNCHANGED <<now, log, program, excused, again, alarms, overtaken, tracker>>
    BY <1>11 DEF postAnswered, feedVars, watchVars
  <2>2. last' \in -Rules.cooldown..program.until
    BY <1>1, <2>1 DEF RestTypes
  <2> QED BY <2>1, <2>2 DEF RestTypes, Ids
<1>12. CASE (\E b \in Bundles : createIncident(b)) \/ postFailed \/ Agent \/ UNCHANGED vars
  BY <1>2, <1>12 DEF createIncident, postFailed, Agent, vars, secbotVars
<1> QED
  BY <1>3, <1>4, <1>6, <1>7, <1>8, <1>9, <1>10, <1>11, <1>12 DEF Next

\* The state of the watchers, of what they know of the trail and of the agent keeps its
\* type (the fields of Auditor and of volumeTracker, latestSeen, seenIDs, the index).
THEOREM WatchTypes == Spec => []TypeOK
<1>1. ASSUME Init PROVE RestTypes
  <2>1. program.until \in Nat /\ Rules.cooldown \in Nat
    BY <1>1, RulesAssumption DEF Init, Configured
  <2>2. tracker \in VolumeTrackers
    BY <1>1 DEF Init, NewVolumeTracker, VolumeTrackers
  <2>3. last \in -Rules.cooldown..program.until /\ now <= program.until
    BY <1>1, <2>1 DEF Init
  <2> QED BY <1>1, <2>2, <2>3 DEF Init, RestTypes
<1>2. RestTypes /\ FeedInv /\ [Next]_vars => RestTypes'
  BY RestStep, RulesAssumption
<1>3. ASSUME FeedInv, RestTypes, IndexInv PROVE TypeOK
  <2>1. now \in 0..program.until
    BY <1>3, RulesAssumption DEF FeedInv, FeedTypes, RestTypes, Configured
  <2> QED BY <1>3, <2>1 DEF FeedInv, FeedTypes, RestTypes, IndexInv, TypeOK
<1> QED BY <1>1, <1>2, <1>3, FeedInvariance, IndexInvariance, PTL DEF Spec

-----------------------------------------------------------------------------
(* The chain of hashes the trail is written as (AuditChain). *)

\* A recorder past Link holds its process's mutex, so the prev_hash it took is
\* still its process's lastHash when the INSERT runs.
LockInv ==
    \A g \in Recorders : rec[g] # IdleRecorder =>
        /\ hashMu[ProcessOf[g]] = g
        /\ rec[g].prev = lastHash[ProcessOf[g]]
        /\ rec[g].event \in EventIds

\* lastHash is the hash of a row of the table or the genesis hash, and that of
\* the newest row whenever its process wrote and knows that row.
HashInv ==
    \A p \in Processes :
        /\ \/ lastHash[p] = GenesisHash
           \/ \E j \in 1..Len(trail) : trail[j].hashed /\ lastHash[p] = HashOf(trail[j])
        /\ trail = <<>> => lastHash[p] = GenesisHash
        /\ trail # <<>> /\ trail[Len(trail)].by = p /\ trail[Len(trail)].acked
             /\ trail[Len(trail)].hashed => lastHash[p] = HashOf(trail[Len(trail)])

ChainInv ==
    /\ ChainConfigured /\ ChainTypeOK
    /\ LockInv /\ HashInv /\ BreaksExplained /\ NoDanglingLink

USE DEF ChainConfigured, listener, IdleRecorder, GenesisHash

\* Appending a row whose prev_hash is its process's lastHash keeps what the
\* two chain properties say of the table.
LEMMA AppendKeepsChain ==
    ASSUME ChainInv, NEW r \in Rows, r.hashed, r.by \in Processes, r.prev = lastHash[r.by],
           trail' = Append(trail, r)
    PROVE  BreaksExplained' /\ NoDanglingLink'
<1>1. /\ Len(trail') = Len(trail) + 1 /\ Len(trail) \in Nat
      /\ \A i \in 1..Len(trail) : trail'[i] = trail[i]
      /\ trail'[Len(trail) + 1] = r
    BY DEF ChainInv, ChainTypeOK
<1>2. BreaksExplained'
  <2>1. SUFFICES ASSUME NEW i \in 1..Len(trail'), ~Linked(trail', i)
                 PROVE  /\ i > 1
                        /\ \/ trail'[i - 1].by # trail'[i].by
                           \/ ~trail'[i - 1].acked
                           \/ ~trail'[i - 1].hashed
      BY DEF BreaksExplained
  <2>2. CASE i <= Len(trail)
    <3>1. i \in 1..Len(trail) /\ trail'[i] = trail[i] /\ (i > 1 => trail'[i - 1] = trail[i - 1])
        BY <1>1, <2>2
    <3>2. ~Linked(trail, i)
        BY <2>1, <3>1 DEF Linked
    <3> QED BY <3>1, <3>2 DEF ChainInv, BreaksExplained
  <2>3. CASE i = Len(trail) + 1
    <3>1. trail'[i] = r /\ (i > 1 => trail'[i - 1] = trail[Len(trail)])
        BY <1>1, <2>3
    <3>2. CASE i = 1
      <4>1. trail = <<>>
          BY <1>1, <2>3, <3>2 DEF ChainInv, ChainTypeOK
      <4> QED BY <2>1, <3>1, <3>2, <4>1 DEF ChainInv, HashInv, Linked
    <3>3. CASE i > 1
      <4>1. trail # <<>>
          BY <1>1, <2>3, <3>3
      <4> QED BY <2>1, <3>1, <3>3, <4>1 DEF ChainInv, HashInv, Linked
    <3> QED BY <3>2, <3>3, <1>1, <2>3
  <2> QED BY <1>1, <2>2, <2>3
<1>3. NoDanglingLink'
  <2>1. SUFFICES ASSUME NEW i \in 1..Len(trail'), trail'[i].hashed
                 PROVE  \/ trail'[i].prev = GenesisHash
                        \/ \E j \in 1..(i - 1) : trail'[j].hashed /\ trail'[i].prev = HashOf(trail'[j])
      BY DEF NoDanglingLink
  <2>2. CASE i <= Len(trail)
    <3>1. i \in 1..Len(trail) /\ trail'[i] = trail[i]
        BY <1>1, <2>2
    <3>2. \A j \in 1..(i - 1) : trail'[j] = trail[j]
        BY <1>1, <2>2
    <3> QED BY <2>1, <3>1, <3>2 DEF ChainInv, NoDanglingLink
  <2>3. CASE i = Len(trail) + 1
    <3>1. trail'[i] = r /\ i - 1 = Len(trail)
        BY <1>1, <2>3
    <3> QED BY <1>1, <3>1 DEF ChainInv, HashInv
  <2> QED BY <1>1, <2>2, <2>3
<1> QED BY <1>2, <1>3

\* A recorder's row is well typed and links to its process's lastHash.
LEMMA RowTyped ==
    ASSUME ChainInv, NEW g \in Recorders, rec[g] # IdleRecorder, NEW ack \in BOOLEAN
    PROVE  /\ RowOf(g, ack) \in Rows /\ RowOf(g, ack).hashed
           /\ RowOf(g, ack).by = ProcessOf[g] /\ ProcessOf[g] \in Processes
           /\ RowOf(g, ack).prev = lastHash[ProcessOf[g]]
           /\ RowOf(g, ack).acked = ack
           /\ HashOf(RowOf(g, ack)) = ComputeEventHash(rec[g].event, rec[g].prev)
           /\ HashOf(RowOf(g, ack)) \in Hashes
<1>1. rec[g].event \in EventIds /\ rec[g].prev \in Hashes
    BY DEF ChainInv, ChainTypeOK, LockInv
<1> QED BY <1>1 DEF RowOf, Rows, ChainInv, LockInv, HashOf, ComputeEventHash, Hashes

\* A step that leaves the table and its process's view alone keeps the chain.
LEMMA SameChain ==
    ASSUME ChainInv, UNCHANGED <<trail, lastHash>>
    PROVE  HashInv' /\ BreaksExplained' /\ NoDanglingLink'
BY DEF ChainInv, HashInv, BreaksExplained, NoDanglingLink, Linked, HashOf

\* Taking the lock and linking to lastHash keeps the invariant.
LEMMA LinkInv ==
    ASSUME ChainInv, NEW g \in Recorders, NEW e \in EventIds, Link(g, e)
    PROVE  ChainInv'
<1>1. ChainTypeOK'
    BY DEF ChainInv, ChainTypeOK, Link
<1>2. LockInv'
    BY DEF ChainInv, ChainTypeOK, LockInv, Link
<1>3. HashInv' /\ BreaksExplained' /\ NoDanglingLink'
    BY SameChain DEF Link
<1> QED BY <1>1, <1>2, <1>3 DEF ChainInv

\* An acknowledged INSERT keeps it: lastHash moves with the table.
LEMMA InsertInv ==
    ASSUME ChainInv, NEW g \in Recorders, Insert(g)
    PROVE  ChainInv'
<1> DEFINE r == RowOf(g, TRUE)
           p == ProcessOf[g]
<1>1. /\ r \in Rows /\ r.hashed /\ r.by = p /\ p \in Processes
      /\ r.prev = lastHash[p] /\ r.acked
      /\ HashOf(r) = ComputeEventHash(rec[g].event, rec[g].prev) /\ HashOf(r) \in Hashes
    BY RowTyped DEF Insert
<1>a. trail' = Append(trail, r) /\ lastHash' = [lastHash EXCEPT ![p] = HashOf(r)]
    BY <1>1 DEF Insert
<1> HIDE DEF r
<1>2. /\ trail' = Append(trail, r) /\ Len(trail') = Len(trail) + 1 /\ Len(trail) \in Nat
      /\ \A i \in 1..Len(trail) : trail'[i] = trail[i]
      /\ trail'[Len(trail) + 1] = r
      /\ lastHash' = [lastHash EXCEPT ![p] = HashOf(r)]
    BY <1>1, <1>a DEF ChainInv, ChainTypeOK
<1>3. ChainTypeOK'
  <2>1. trail' \in Seq(Rows)
      BY <1>1, <1>2 DEF ChainInv, ChainTypeOK
  <2>2. lastHash' \in [Processes -> Hashes]
      BY <1>1, <1>2 DEF ChainInv, ChainTypeOK
  <2>3. rec' \in [Recorders -> [event : EventIds \cup {Nobody}, prev : Hashes]]
      BY DEF Insert, Unlock, ChainInv, ChainTypeOK, Hashes
  <2>4. 1..Len(trail) \subseteq 1..Len(trail') /\ Len(trail) + 1 \in 1..Len(trail')
      BY <1>2
  <2>5. sending' \subseteq 1..Len(trail') /\ chainAlarms' \subseteq 1..Len(trail')
      BY <2>4 DEF Insert, ChainInv, ChainTypeOK
  <2>6. hashMu' \in [Processes -> Recorders \cup {Nobody}]
      BY DEF Insert, Unlock, ChainInv, ChainTypeOK
  <2> QED BY <2>1, <2>2, <2>3, <2>5, <2>6 DEF Insert, ChainInv, ChainTypeOK
<1>4. LockInv'
    BY <1>2 DEF Insert, Unlock, ChainInv, ChainTypeOK, LockInv
<1>5. HashInv'
  <2>1. SUFFICES ASSUME NEW q \in Processes
                 PROVE  /\ \/ lastHash'[q] = GenesisHash
                           \/ \E j \in 1..Len(trail') : trail'[j].hashed /\ lastHash'[q] = HashOf(trail'[j])
                        /\ trail' = <<>> => lastHash'[q] = GenesisHash
                        /\ trail' # <<>> /\ trail'[Len(trail')].by = q /\ trail'[Len(trail')].acked
                             /\ trail'[Len(trail')].hashed => lastHash'[q] = HashOf(trail'[Len(trail')])
      BY DEF HashInv
  <2>2. trail' # <<>> /\ trail'[Len(trail')] = r /\ Len(trail) + 1 \in 1..Len(trail')
      BY <1>2
  <2>3. CASE q = p
      BY <1>1, <1>2, <2>2, <2>3 DEF ChainInv, ChainTypeOK
  <2>4. CASE q # p
    <3>1. lastHash'[q] = lastHash[q]
        BY <1>2, <2>4 DEF ChainInv, ChainTypeOK
    <3>2. \/ lastHash[q] = GenesisHash
          \/ \E j \in 1..Len(trail) : trail[j].hashed /\ lastHash[q] = HashOf(trail[j])
        BY DEF ChainInv, HashInv
    <3>3. 1..Len(trail) \subseteq 1..Len(trail')
        BY <1>2
    <3> QED BY <1>1, <1>2, <2>2, <2>4, <3>1, <3>2, <3>3
  <2> QED BY <2>3, <2>4
<1>6. BreaksExplained' /\ NoDanglingLink'
    BY <1>1, <1>2, AppendKeepsChain
<1> QED BY <1>3, <1>4, <1>5, <1>6 DEF ChainInv

\* A failed INSERT changes neither side.
LEMMA InsertFailedInv ==
    ASSUME ChainInv, NEW g \in Recorders, InsertFailed(g)
    PROVE  ChainInv'
<1>1. ChainTypeOK'
    BY DEF ChainInv, ChainTypeOK, InsertFailed, Unlock, Hashes
<1>2. LockInv'
    BY DEF ChainInv, ChainTypeOK, LockInv, InsertFailed, Unlock
<1>3. HashInv' /\ BreaksExplained' /\ NoDanglingLink'
    BY SameChain DEF InsertFailed
<1> QED BY <1>1, <1>2, <1>3 DEF ChainInv

\* An INSERT whose acknowledgement is lost leaves lastHash behind, and the row
\* says so.
LEMMA InsertUnacknowledgedInv ==
    ASSUME ChainInv, NEW g \in Recorders, InsertUnacknowledged(g)
    PROVE  ChainInv'
<1> DEFINE r == RowOf(g, FALSE)
<1>1. /\ r \in Rows /\ r.hashed /\ r.by = ProcessOf[g] /\ ProcessOf[g] \in Processes
      /\ r.prev = lastHash[ProcessOf[g]] /\ ~r.acked
    BY RowTyped DEF InsertUnacknowledged
<1>a. trail' = Append(trail, r) /\ lastHash' = lastHash
    BY DEF InsertUnacknowledged
<1> HIDE DEF r
<1>2. /\ trail' = Append(trail, r) /\ Len(trail') = Len(trail) + 1 /\ Len(trail) \in Nat
      /\ \A i \in 1..Len(trail) : trail'[i] = trail[i]
      /\ trail'[Len(trail) + 1] = r
      /\ lastHash' = lastHash
    BY <1>1, <1>a DEF ChainInv, ChainTypeOK
<1>3. ChainTypeOK'
  <2>1. trail' \in Seq(Rows)
      BY <1>1, <1>2 DEF ChainInv, ChainTypeOK
  <2>2. rec' \in [Recorders -> [event : EventIds \cup {Nobody}, prev : Hashes]]
      BY DEF InsertUnacknowledged, Unlock, ChainInv, ChainTypeOK, Hashes
  <2>3. /\ sending' \subseteq 1..Len(trail') /\ chainAlarms' \subseteq 1..Len(trail')
        /\ hashMu' \in [Processes -> Recorders \cup {Nobody}] /\ lost' \in 0..MaxLost
      BY <1>2 DEF InsertUnacknowledged, Unlock, ChainInv, ChainTypeOK
  <2> QED BY <2>1, <2>2, <2>3 DEF InsertUnacknowledged, ChainInv, ChainTypeOK
<1>4. LockInv'
    BY <1>2 DEF InsertUnacknowledged, Unlock, ChainInv, ChainTypeOK, LockInv
<1>5. HashInv'
  <2>1. trail' # <<>> /\ trail'[Len(trail')] = r /\ 1..Len(trail) \subseteq 1..Len(trail')
      BY <1>2
  <2> QED BY <1>1, <1>2, <2>1 DEF ChainInv, HashInv
<1>6. BreaksExplained' /\ NoDanglingLink'
    BY <1>1, <1>2, AppendKeepsChain
<1> QED BY <1>3, <1>4, <1>5, <1>6 DEF ChainInv

\* A restarted process learns the newest row's hash from the table.
LEMMA RestartInv ==
    ASSUME ChainInv, NEW p \in Processes, Restart(p)
    PROVE  ChainInv'
<1>1. /\ initLastHash(trail) \in Hashes
      /\ \/ initLastHash(trail) = GenesisHash
         \/ \E j \in 1..Len(trail) : trail[j].hashed /\ initLastHash(trail) = HashOf(trail[j])
      /\ trail = <<>> => initLastHash(trail) = GenesisHash
      /\ trail # <<>> /\ trail[Len(trail)].hashed => initLastHash(trail) = HashOf(trail[Len(trail)])
  <2>1. trail # <<>> => Len(trail) \in 1..Len(trail) /\ trail[Len(trail)] \in Rows
      BY DEF ChainInv, ChainTypeOK
  <2>2. trail # <<>> => HashOf(trail[Len(trail)]) \in Hashes
      BY <2>1 DEF Rows, HashOf, ComputeEventHash, Hashes
  <2> QED BY <2>1, <2>2 DEF initLastHash, Hashes
<1>2. UNCHANGED trail /\ lastHash' = [lastHash EXCEPT ![p] = initLastHash(trail)]
    BY DEF Restart
<1>3. ChainTypeOK'
  <2>1. rec' \in [Recorders -> [event : EventIds \cup {Nobody}, prev : Hashes]]
      BY DEF Restart, ChainInv, ChainTypeOK, Hashes
  <2>2. sending' \subseteq 1..Len(trail') /\ connected' \in BOOLEAN /\ seen' \subseteq Hashes
      BY DEF Restart, CloseSocket, ChainInv, ChainTypeOK
  <2> QED BY <1>1, <2>1, <2>2 DEF Restart, ChainInv, ChainTypeOK
<1>4. LockInv'
    BY DEF Restart, ChainInv, ChainTypeOK, LockInv
<1>5. HashInv'
    BY <1>1, <1>2 DEF ChainInv, ChainTypeOK, HashInv
<1>6. BreaksExplained' /\ NoDanglingLink'
    BY <1>2 DEF ChainInv, BreaksExplained, NoDanglingLink, Linked, HashOf
<1> QED BY <1>3, <1>4, <1>5, <1>6 DEF ChainInv

\* The listener's side changes nothing the recorders rely on.
LEMMA ListenerInv ==
    ASSUME ChainInv, ConnectAuditor \/ (\E i \in sending : Send(i)) \/ SendFailed
    PROVE  ChainInv'
<1>1. UNCHANGED <<trail, lastHash, hashMu, rec, lost, restarts>>
    BY DEF ConnectAuditor, Send, checkChainIntegrity, SendFailed
<1>2. ChainTypeOK'
  <2>1. ASSUME NEW i \in sending, Send(i) PROVE ChainTypeOK'
    <3>1. trail[i] \in Rows
        BY DEF ChainInv, ChainTypeOK
    <3>2. HashOf(trail[i]) \in Hashes
        BY <3>1 DEF Rows, HashOf, ComputeEventHash, Hashes
    <3>3. seen' \subseteq Hashes /\ connected' = connected
        BY <2>1, <3>2 DEF Send, checkChainIntegrity
    <3>4. sending' \subseteq 1..Len(trail) /\ chainAlarms' \subseteq 1..Len(trail)
        BY <2>1 DEF Send, checkChainIntegrity, ChainInv, ChainTypeOK
    <3> QED BY <1>1, <3>3, <3>4 DEF ChainInv, ChainTypeOK
  <2>2. CASE ConnectAuditor \/ SendFailed
      BY <2>2 DEF ConnectAuditor, SendFailed, ChainInv, ChainTypeOK
  <2> QED BY <2>1, <2>2
<1>3. LockInv'
    BY <1>1 DEF ChainInv, LockInv
<1>4. HashInv' /\ BreaksExplained' /\ NoDanglingLink'
    BY <1>1, SameChain
<1> QED BY <1>2, <1>3, <1>4 DEF ChainInv

\* A table of legacy rows only satisfies the invariant.
LEMMA ChainInitInv == ChainInit => ChainInv
<1> SUFFICES ASSUME ChainInit PROVE ChainInv
    OBVIOUS
<1>1. PICK n \in LegacyCounts : trail = [i \in 1..n |-> LegacyRow]
    BY DEF ChainInit
<1>2. n \in Nat /\ LegacyRow \in Rows /\ ~LegacyRow.hashed
    BY ChainAssumption DEF LegacyRow, Rows, Hashes
<1>3. trail \in Seq(Rows) /\ Len(trail) = n /\ \A i \in 1..Len(trail) : ~trail[i].hashed
    BY <1>1, <1>2
<1>4. initLastHash(trail) = GenesisHash /\ GenesisHash \in Hashes
  <2>1. trail # <<>> => Len(trail) \in 1..Len(trail)
      BY <1>3
  <2> QED BY <1>3, <2>1 DEF initLastHash, Hashes
<1>5. ChainTypeOK
  <2>1. rec \in [Recorders -> [event : EventIds \cup {Nobody}, prev : Hashes]]
      BY <1>4 DEF ChainInit
  <2>2. lastHash \in [Processes -> Hashes] /\ hashMu \in [Processes -> Recorders \cup {Nobody}]
      BY <1>4 DEF ChainInit
  <2>3. sending \subseteq 1..Len(trail) /\ chainAlarms \subseteq 1..Len(trail) /\ seen \subseteq Hashes
      BY DEF ChainInit
  <2>4. lost = 0 /\ restarts = 0 /\ connected = FALSE
      BY DEF ChainInit
  <2>5. connected \in BOOLEAN
      BY <2>4
  <2>6. lost \in 0..MaxLost /\ restarts \in 0..MaxRestarts
      BY <2>4, ChainAssumption
  <2> QED BY <1>3, <2>1, <2>2, <2>3, <2>5, <2>6 DEF ChainTypeOK
<1>6. LockInv /\ HashInv
  <2>1. trail # <<>> => Len(trail) \in 1..Len(trail)
      BY <1>3
  <2> QED BY <1>3, <1>4, <2>1 DEF ChainInit, LockInv, HashInv
<1>7. BreaksExplained /\ NoDanglingLink
    BY <1>3 DEF BreaksExplained,
                  NoDanglingLink, Linked
<1> QED BY <1>5, <1>6, <1>7, ChainAssumption DEF ChainInv

\* ChainInv is an inductive invariant of the log and its recorders.
THEOREM ChainInvariance == ChainSpec => []ChainInv
<1>1. ChainInv /\ [ChainNext]_chainVars => ChainInv'
  <2> SUFFICES ASSUME ChainInv, [ChainNext]_chainVars PROVE ChainInv'
      OBVIOUS
  <2>1. CASE UNCHANGED chainVars
      BY <2>1 DEF chainVars, ChainInv, ChainTypeOK, LockInv, HashInv, BreaksExplained,
                  NoDanglingLink, Linked
  <2> QED BY <2>1, LinkInv, InsertInv, InsertFailedInv, InsertUnacknowledgedInv,
             RestartInv, ListenerInv DEF ChainNext
<1> QED BY <1>1, ChainInitInv, PTL DEF ChainSpec

\* Wherever the chain breaks, the process that wrote the row could not know
\* the row before it; a single recorder that loses no acknowledgement never
\* breaks its chain (Record holds hashMu through the INSERT).
THEOREM BreaksAreExplained == ChainSpec => []BreaksExplained
BY ChainInvariance, PTL DEF ChainInv

\* However the log forks, every row hangs off an earlier row or the genesis
\* hash (lastHash is advanced only after a successful INSERT).
THEOREM LogIsATree == ChainSpec => []NoDanglingLink
BY ChainInvariance, PTL DEF ChainInv

\* Every variable keeps its type.
THEOREM ChainTypes == ChainSpec => []ChainTypeOK
BY ChainInvariance, PTL DEF ChainInv
=============================================================================

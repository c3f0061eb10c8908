--------------------------- MODULE FleetRunnerProofs ---------------------------
(***************************************************************************)
(* Proofs about FleetRunner, for any number of servers and any strategy:   *)
(* which servers are touched before which approvals and which results.     *)
(*                                                                         *)
(* The code computes the stage of a server twice, by cutting the list into *)
(* waves (chunk) and by a division (buildStageAssignments); StageOf below  *)
(* is the division, and WavesAre shows that they agree. The parts of the   *)
(* invariant take the configuration and the servers as parameters, so that *)
(* a step that leaves these alone leaves the parts alone.                  *)
(***************************************************************************)
EXTENDS FleetRunner, FiniteSetTheorems, SequenceTheorems, TLAPS

StrategyOK == {st \in StrategyDefs : st.canary_count > 0}
StageOf(st, i) == buildStageAssignments(st, i)

-----------------------------------------------------------------------------
(* Stages. *)

\* A multiple of b below another is at least b below it.
LEMMA Multiples ==
    ASSUME NEW b \in Nat \ {0}, NEW p \in Nat, NEW q \in Nat, p < q
    PROVE  p * b + b <= q * b
OBVIOUS

\* What integer division returns.
LEMMA Division ==
    ASSUME NEW a \in Nat, NEW b \in Nat \ {0}
    PROVE  a \div b \in Nat /\ (a \div b) * b <= a /\ a < (a \div b) * b + b
OBVIOUS

\* Defaults leaves a strategy with at least one canary.
LEMMA DefaultsOK ==
    ASSUME NEW st \in Strategies
    PROVE  Defaults(st) \in StrategyOK
<1> DEFINE a == IF st.canary_count <= 0 THEN 1 ELSE st.canary_count
<1> DEFINE b == IF st.failure_threshold <= 0 THEN 50 ELSE st.failure_threshold
<1>1. st \in StrategyDefs
  BY ConstantsAssumption
<1>2. a \in Int /\ a > 0 /\ b \in Int
  BY <1>1 DEF StrategyDefs
<1>3. Defaults(st) = [st EXCEPT !.canary_count = a, !.failure_threshold = b]
  BY <1>1 DEF Defaults, StrategyDefs
<1> HIDE DEF a, b
<1> QED BY <1>1, <1>2, <1>3 DEF StrategyOK, StrategyDefs

\* The number of canaries.
LEMMA CanaryCountType ==
    ASSUME NEW st \in StrategyOK
    PROVE  /\ CanaryCount(st) \in Servers
           /\ \A i \in Servers : i <= CanaryCount(st) <=> i <= st.canary_count
BY ConstantsAssumption DEF StrategyOK, StrategyDefs, CanaryCount, Min, Servers

\* The size of a wave, as both computations have it, when servers are left.
Size(st) == IF st.wave_size > 0 THEN st.wave_size ELSE N - CanaryCount(st)

\* The stage of a server: 0 for the canaries, and else the wave that its distance from
\* the last canary falls in.
LEMMA StageOfIs ==
    ASSUME NEW st \in StrategyOK, NEW i \in Servers
    PROVE  /\ i <= CanaryCount(st) => StageOf(st, i) = 0
           /\ i > CanaryCount(st) =>
                /\ StageOf(st, i) \in 1..N
                /\ Size(st) \in Nat \ {0}
                /\ (StageOf(st, i) - 1) * Size(st) <= i - 1 - CanaryCount(st)
                /\ i - 1 - CanaryCount(st) < (StageOf(st, i) - 1) * Size(st) + Size(st)
<1> DEFINE c == CanaryCount(st)
<1>1. c \in Servers /\ N \in Nat /\ i \in 1..N
  BY CanaryCountType, ConstantsAssumption DEF Servers
<1>2. CASE i <= c
  BY <1>1, <1>2 DEF StageOf, buildStageAssignments, Servers
<1>3. CASE i > c
  <2> DEFINE a == i - 1 - c
  <2>1. Size(st) \in Nat \ {0} /\ a \in Nat
    BY <1>1, <1>3 DEF Size, StrategyOK, StrategyDefs, Servers
  <2>2. StageOf(st, i) = a \div Size(st) + 1
    BY <1>1, <1>3 DEF StageOf, buildStageAssignments, Size, Servers
  <2> DEFINE q == a \div Size(st)
  <2>3. q \in Nat /\ q * Size(st) <= a /\ a < q * Size(st) + Size(st)
    BY <2>1, Division
  <2>4. q <= a
    BY <2>1, <2>3
  <2> HIDE DEF q
  <2>5. StageOf(st, i) = q + 1
    BY <2>2 DEF q
  <2>6. StageOf(st, i) \in 1..N /\ StageOf(st, i) - 1 = q
    BY <1>1, <1>3, <2>1, <2>3, <2>4, <2>5 DEF Servers
  <2> QED BY <1>1, <1>3, <2>1, <2>3, <2>6 DEF Servers
<1> QED BY <1>1, <1>2, <1>3 DEF Servers

\* A server's stage is k exactly when its distance from the last canary is in the k-th
\* stretch of Size(st).
LEMMA StageBounds ==
    ASSUME NEW st \in StrategyOK, NEW i \in Servers, i > CanaryCount(st), NEW k \in Nat \ {0}
    PROVE  StageOf(st, i) = k <=> /\ (k - 1) * Size(st) < i - CanaryCount(st)
                                  /\ i - CanaryCount(st) <= k * Size(st)
<1> DEFINE c == CanaryCount(st)
<1> DEFINE z == Size(st)
<1> DEFINE g == StageOf(st, i)
<1>1. c \in Nat /\ N \in Nat /\ i \in Nat /\ z \in Nat \ {0} /\ g \in Nat \ {0}
      /\ (g - 1) * z <= i - 1 - c /\ i - 1 - c < (g - 1) * z + z
  BY CanaryCountType, StageOfIs, ConstantsAssumption DEF Servers
<1> HIDE DEF c, z, g
<1>2. (g - 1) * z < i - c /\ i - c <= g * z
  BY <1>1
<1>3. ASSUME (k - 1) * z < i - c, i - c <= k * z
      PROVE  g = k
  <2>1. g < k => (g - 1) * z + z <= (k - 1) * z
    BY <1>1, Multiples
  <2>2. k < g => (k - 1) * z + z <= (g - 1) * z
    BY <1>1, Multiples
  <2>3. (k - 1) * z + z = k * z /\ (g - 1) * z + z = g * z
    BY <1>1
  <2>4. (k - 1) * z \in Int /\ (g - 1) * z \in Int /\ k * z \in Int /\ g * z \in Int
    BY <1>1
  <2> QED BY <1>1, <1>2, <1>3, <2>1, <2>2, <2>3, <2>4
<1> QED BY <1>2, <1>3 DEF c, z, g

\* The waves cut by chunk are the servers by the stage that buildStageAssignments stores:
\* every server that is no canary is in one of them, and none is empty.
LEMMA WavesAre ==
    ASSUME NEW st \in StrategyOK, CanaryCount(st) < N
    PROVE  /\ Len(Waves(st)) \in 1..N
           /\ \A k \in 1..Len(Waves(st)) :
                /\ {Waves(st)[k][j] : j \in 1..Len(Waves(st)[k])} = {i \in Servers : StageOf(st, i) = k}
                /\ {i \in Servers : StageOf(st, i) = k} # {}
           /\ \A i \in Servers : i > CanaryCount(st) => StageOf(st, i) \in 1..Len(Waves(st))
<1> DEFINE c == CanaryCount(st)
<1> DEFINE z == Size(st)
<1> DEFINE L == N - c
<1> DEFINE s == [i \in 1..(N - c) |-> c + i]
<1> DEFINE n == IF st.wave_size <= 0 THEN N - c ELSE st.wave_size
<1>1. c \in Nat \ {0} /\ N \in Nat /\ L \in Nat \ {0} /\ N = c + L /\ st.wave_size \in Int
  BY CanaryCountType, ConstantsAssumption DEF Servers, StrategyOK, StrategyDefs
<1>2. n = z /\ z \in Nat \ {0}
  BY <1>1 DEF Size
<1>3. Waves(st) = chunk(s, n)
  BY DEF Waves
<1>4. s \in Seq(Nat) /\ Len(s) = L /\ \A i \in 1..L : s[i] = c + i
  BY <1>1
<1>5. \A i \in Servers : i <= c => StageOf(st, i) = 0
  BY StageOfIs
<1>6. \A i \in Servers : i > c => \A k \in Nat \ {0} :
        StageOf(st, i) = k <=> (k - 1) * z < i - c /\ i - c <= k * z
  BY StageBounds
<1>7. \A i \in Servers : i > c => StageOf(st, i) \in Nat \ {0}
  BY StageOfIs, <1>1
<1> HIDE DEF c, z, L, s, n
<1>8. chunk(s, n) = IF n >= L THEN <<s>>
                    ELSE [k \in 1..((L - 1) \div n + 1) |-> SubSeq(s, (k - 1) * n + 1, Min(k * n, L))]
  <2>1. ~(n <= 0) /\ Len(s) = L
    BY <1>2, <1>4
  <2> QED BY <2>1, Zenon DEF chunk
<1>9. CASE n >= L
  <2>1. Waves(st) = <<s>>
    BY <1>3, <1>8, <1>9
  <2>2. Len(Waves(st)) = 1 /\ Waves(st)[1] = s
    BY <2>1
  <2>3. \A i \in Servers : i > c => StageOf(st, i) = 1
    BY <1>1, <1>2, <1>6, <1>9 DEF Servers
  <2>4. {s[j] : j \in 1..Len(s)} = {i \in Servers : i > c}
    <3>1. ASSUME NEW j \in 1..L PROVE s[j] \in Servers /\ s[j] > c
      BY <1>1, <1>4 DEF Servers
    <3>2. ASSUME NEW i \in Servers, i > c PROVE i - c \in 1..L /\ s[i - c] = i
      BY <1>1, <1>4, <3>2 DEF Servers
    <3> QED BY <1>4, <3>1, <3>2
  <2>5. {i \in Servers : StageOf(st, i) = 1} = {i \in Servers : i > c}
    BY <1>1, <1>5, <2>3 DEF Servers
  <2>6. c + 1 \in {i \in Servers : i > c}
    BY <1>1 DEF Servers
  <2> QED BY <1>1, <2>2, <2>3, <2>4, <2>5, <2>6 DEF c
<1>10. CASE ~(n >= L)
  <2> DEFINE M == (L - 1) \div z + 1
  <2>1. Waves(st) = [k \in 1..M |-> SubSeq(s, (k - 1) * z + 1, Min(k * z, L))]
    BY <1>2, <1>3, <1>8, <1>10
  <2>2. M \in Nat \ {0} /\ (M - 1) * z < L /\ L <= M * z /\ M <= L
    <3> DEFINE q == (L - 1) \div z
    <3>1. q \in Nat /\ q * z <= L - 1 /\ L - 1 < q * z + z
      BY <1>1, <1>2, Division
    <3>2. q <= q * z
      BY <1>2, <3>1
    <3>3. q * z \in Nat /\ M = q + 1 /\ (M - 1) * z = q * z /\ M * z = q * z + z
      BY <1>2, <3>1
    <3> HIDE DEF q, M
    <3> QED BY <1>1, <1>2, <3>1, <3>2, <3>3
  <2> HIDE DEF M
  <2>3. Len(Waves(st)) = M /\ \A k \in 1..M : Waves(st)[k] = SubSeq(s, (k - 1) * z + 1, Min(k * z, L))
    <3>1. \A k \in 1..M : Waves(st)[k] = SubSeq(s, (k - 1) * z + 1, Min(k * z, L))
      BY <2>1, Zenon
    <3>2. DOMAIN Waves(st) = 1..M /\ Waves(st) = [k \in 1..M |-> Waves(st)[k]]
      BY <2>1
    <3> DEFINE W == Waves(st)
    <3> HIDE DEF W
    <3>3. W = [k \in 1..M |-> W[k]]
      BY <3>2 DEF W
    <3>4. Len(W) = M
      BY <2>2, <3>3
    <3> QED BY <3>1, <3>4 DEF W
  <2>4. ASSUME NEW k \in 1..M
        PROVE  /\ {Waves(st)[k][j] : j \in 1..Len(Waves(st)[k])} = {i \in Servers : StageOf(st, i) = k}
               /\ {i \in Servers : StageOf(st, i) = k} # {}
    <3> DEFINE lo == (k - 1) * z
    <3> DEFINE hi == Min(k * z, L)
    <3>1. lo \in Nat /\ k * z \in Nat /\ k * z = lo + z /\ k \in Nat \ {0}
      BY <1>2, <2>2
    <3>2. lo <= (M - 1) * z
      <4>1. CASE k = M
        BY <1>2, <2>2, <4>1
      <4>2. CASE k < M
        <5>1. lo + z <= (M - 1) * z
          BY <1>2, <2>2, <4>2, Multiples
        <5>2. (M - 1) * z \in Int
          BY <1>2, <2>2
        <5> QED BY <1>2, <3>1, <5>1, <5>2
      <4> QED BY <2>2, <4>1, <4>2
    <3>3. (M - 1) * z \in Int
      BY <1>2, <2>2
    <3>4. lo < L
      BY <1>1, <2>2, <3>1, <3>2, <3>3
    <3> HIDE DEF lo
    <3>5. hi \in Nat /\ lo < hi /\ hi <= L /\ hi <= k * z /\ (hi = L \/ hi = k * z)
      BY <1>1, <1>2, <3>1, <3>4 DEF Min
    <3> HIDE DEF hi
    <3>6. Waves(st)[k] = SubSeq(s, lo + 1, hi)
      BY <2>3 DEF lo, hi
    <3>7. Len(Waves(st)[k]) = hi - lo /\ \A j \in 1..(hi - lo) : Waves(st)[k][j] = s[lo + j]
      <4>1. lo + 1 \in 1..(Len(s) + 1) /\ hi \in ((lo + 1) - 1)..Len(s)
        BY <1>1, <1>4, <3>1, <3>5
      <4>2. /\ Len(SubSeq(s, lo + 1, hi)) = hi - (lo + 1) + 1
            /\ \A j \in 1..(hi - (lo + 1) + 1) : SubSeq(s, lo + 1, hi)[j] = s[(lo + 1) + j - 1]
        BY <1>4, <4>1, SubSeqProperties
      <4>3. hi - (lo + 1) + 1 = hi - lo /\ \A j \in 1..(hi - lo) : (lo + 1) + j - 1 = lo + j
        BY <3>1, <3>5
      <4> QED BY <3>6, <4>2, <4>3
    <3>8. \A i \in Servers : i > c => (StageOf(st, i) = k <=> lo < i - c /\ i - c <= k * z)
      BY <1>6, <3>1 DEF lo
    <3>9. ASSUME NEW j \in 1..(hi - lo)
          PROVE  s[lo + j] \in Servers /\ StageOf(st, s[lo + j]) = k
      <4>1. lo + j \in 1..L /\ s[lo + j] = c + lo + j
        BY <1>1, <1>4, <3>1, <3>5
      <4>2. s[lo + j] \in Servers /\ s[lo + j] > c /\ lo < s[lo + j] - c /\ s[lo + j] - c <= k * z
        BY <1>1, <3>1, <3>5, <4>1 DEF Servers
      <4> QED BY <3>8, <4>2
    <3>10. ASSUME NEW i \in Servers, StageOf(st, i) = k
           PROVE  i - c - lo \in 1..(hi - lo) /\ s[lo + (i - c - lo)] = i
      <4>1. i > c /\ i \in Nat /\ i <= N
        BY <1>1, <1>5, <3>1, <3>10 DEF Servers
      <4>2. lo < i - c /\ i - c <= k * z /\ i - c <= L
        BY <1>1, <3>8, <3>10, <4>1
      <4>3. i - c - lo \in 1..(hi - lo) /\ lo + (i - c - lo) = i - c /\ i - c \in 1..L
        BY <1>1, <3>1, <3>5, <4>1, <4>2
      <4> QED BY <1>1, <1>4, <4>1, <4>3
    <3>11. {Waves(st)[k][j] : j \in 1..Len(Waves(st)[k])} = {s[lo + j] : j \in 1..(hi - lo)}
      BY <3>7
    <3>12. {s[lo + j] : j \in 1..(hi - lo)} = {i \in Servers : StageOf(st, i) = k}
      BY <3>9, <3>10
    <3>13. 1 \in 1..(hi - lo)
      BY <3>1, <3>5
    <3> QED BY <3>9, <3>11, <3>12, <3>13
  <2>5. ASSUME NEW i \in Servers, i > c
        PROVE  StageOf(st, i) \in 1..M
    <3> DEFINE g == StageOf(st, i)
    <3>1. g \in Nat \ {0} /\ (g - 1) * z < i - c /\ i - c <= L /\ i - c \in Int
      BY <1>1, <1>6, <1>7, <2>5 DEF Servers
    <3>2. M < g => M * z <= (g - 1) * z
      <4>1. M = g - 1 => M * z = (g - 1) * z
        OBVIOUS
      <4>2. M < g - 1 => M * z + z <= (g - 1) * z
        BY <1>2, <2>2, <3>1, Multiples
      <4>3. M * z \in Nat /\ (g - 1) * z \in Nat
        BY <1>2, <2>2, <3>1
      <4> HIDE DEF g
      <4> QED BY <1>2, <2>2, <3>1, <4>1, <4>2, <4>3
    <3>3. M * z \in Nat /\ (g - 1) * z \in Nat
      BY <1>2, <2>2, <3>1
    <3> HIDE DEF g
    <3>4. ~(M < g)
      BY <1>1, <2>2, <3>1, <3>2, <3>3
    <3>5. g \in 1..M
      BY <2>2, <3>1, <3>4
    <3> QED BY <3>5 DEF g
  <2> QED BY <1>1, <2>2, <2>3, <2>4, <2>5 DEF c
<1> QED BY <1>9, <1>10

\* A job with a step of a class that needs an approval needs one: the class of highest
\* risk is such a class then.
LEMMA ClassNeedsApproval ==
    ASSUME NEW steps \in Seq(StepDefs),
           \E k \in 1..Len(steps) : steps[k].class \in {"write", "destructive", "escalation"}
    PROVE  IsApprovalRequired(jobActionClass(steps))
<1> DEFINE C == {"read"} \cup {steps[k].class : k \in 1..Len(steps)}
<1> DEFINE Highest(c) == /\ RiskLevel[c] >= 0
                         /\ \A k \in 1..Len(steps) : RiskLevel[steps[k].class] <= RiskLevel[c]
<1>1. \A k \in 1..Len(steps) : steps[k].class \in ActionClasses
  <2>1. \A k \in 1..Len(steps) : steps[k] \in StepDefs
    OBVIOUS
  <2> QED BY <2>1 DEF StepDefs
<1>2. \A k \in 1..Len(steps) : steps[k].class \in C
  OBVIOUS
<1>3. jobActionClass(steps) = CHOOSE c \in C : Highest(c)
  BY DEF jobActionClass
<1>4. \A x \in ActionClasses :
        /\ RiskLevel[x] \in Int /\ RiskLevel[x] <= 3
        /\ x = "destructive" => RiskLevel[x] = 3
        /\ x = "escalation" => RiskLevel[x] = 2
        /\ x = "write" => RiskLevel[x] = 1
        /\ x \in {"read", "unknown"} => RiskLevel[x] <= 0
  BY DEF RiskLevel, ActionClasses
<1>5. \E c \in C : Highest(c)
  <2>1. CASE "destructive" \in C
    <3>1. Highest("destructive")
      BY <1>1, <1>4 DEF ActionClasses
    <3> QED BY <2>1, <3>1
  <2>2. CASE "destructive" \notin C /\ "escalation" \in C
    <3>1. \A k \in 1..Len(steps) : steps[k].class \in ActionClasses \ {"destructive"}
      BY <1>1, <1>2, <2>2
    <3>2. Highest("escalation")
      BY <1>4, <3>1 DEF ActionClasses
    <3> QED BY <2>2, <3>2
  <2>3. CASE "destructive" \notin C /\ "escalation" \notin C
    <3>1. \A k \in 1..Len(steps) : steps[k].class \in ActionClasses \ {"destructive", "escalation"}
      BY <1>1, <1>2, <2>3
    <3>2. Highest("write")
      BY <1>4, <3>1 DEF ActionClasses
    <3>3. "write" \in C
      BY <1>2, <3>1
    <3> QED BY <3>2, <3>3
  <2> QED BY <2>1, <2>2, <2>3
<1> DEFINE j == jobActionClass(steps)
<1>6. j \in C /\ Highest(j)
  <2> HIDE DEF C, Highest
  <2> QED BY <1>3, <1>5
<1>7. j \in ActionClasses
  BY <1>1, <1>6 DEF ActionClasses
<1>8. PICK k \in 1..Len(steps) : steps[k].class \in {"write", "destructive", "escalation"}
  OBVIOUS
<1>9. RiskLevel[steps[k].class] >= 1 /\ RiskLevel[steps[k].class] \in Int
  BY <1>4, <1>8 DEF ActionClasses
<1>10. RiskLevel[steps[k].class] <= RiskLevel[j]
  BY <1>6, <1>8
<1> HIDE DEF j
<1>11. j \in {"write", "escalation", "destructive"}
  BY <1>4, <1>7, <1>9, <1>10 DEF ActionClasses
<1> QED BY <1>11 DEF IsApprovalRequired, j

-----------------------------------------------------------------------------
(* The inductive invariant. *)

\* The errors of a server record s under configuration c, as Errors, Stopped and
\* isServerFailure have them.
ErrorsOf(s) == {k \in 1..Len(s.results) : s.results[k] = "error"}
StoppedOf(c, s) == \E k \in ErrorsOf(s) : c.steps[k].on_failure = "stop"
FailureOf(c, s) == StoppedOf(c, s) \/ (~c.strategy.count_partial_as_success /\ ErrorsOf(s) # {})

\* A server runs in its own stage, is through when it was stopped or all steps were
\* called, and was not stopped before.
ServerOK(c, s, i) ==
    /\ s \in ServerStates
    /\ Len(s.results) <= Len(c.steps)
    /\ s.stage = -1 => ~s.done
    /\ s.stage # -1 => s.stage = StageOf(c.strategy, i)
    /\ s.done => StoppedOf(c, s) \/ Len(s.results) = Len(c.steps)
    /\ ~s.done => ~StoppedOf(c, s)

\* The first n servers are through and did not fail.
CanariesPassed(c, srv, n) == \A j \in 1..n : srv[j].done /\ ~FailureOf(c, srv[j])

\* The servers of wave w are through, and those that failed are within the threshold.
WaveServers(c, w) == {i \in Servers : StageOf(c.strategy, i) = w}
WaveFailed(c, srv, w) == {i \in WaveServers(c, w) : FailureOf(c, srv[i])}
WavePassed(c, srv, w) ==
    /\ \A i \in WaveServers(c, w) : srv[i].done
    /\ Cardinality(WaveFailed(c, srv, w)) * 100
         <= c.strategy.failure_threshold * Cardinality(WaveServers(c, w))

\* What came before a server outside the canary stage.
Shielded(c, srv) ==
    \A i \in Servers : srv[i].stage > 0 =>
        /\ CanariesPassed(c, srv, CanaryCount(c.strategy))
        /\ \A w \in 1..(srv[i].stage - 1) : WavePassed(c, srv, w)

AllThrough(c, srv) == (\A i \in Servers : srv[i].done) /\ CanariesPassed(c, srv, CanaryCount(c.strategy))

\* Where the runner is, and what came before.
PhaseOK(c, srv, p, cur) ==
    /\ p \in {"preflight", "submit", "job"} => \A i \in Servers : srv[i].stage = -1
    /\ p = "canary" =>
         /\ cur \in 1..CanaryCount(c.strategy)
         /\ CanariesPassed(c, srv, cur - 1)
         /\ \A i \in Servers : i > cur => srv[i].stage = -1
    /\ p \in {"wave", "waves"} =>
         /\ CanaryCount(c.strategy) < N
         /\ CanariesPassed(c, srv, CanaryCount(c.strategy))
    /\ p = "wave" => \A i \in Servers : srv[i].stage <= 0
    /\ p = "waves" =>
         /\ cur \in 1..Len(Waves(c.strategy))
         /\ \A w \in 1..(cur - 1) : WavePassed(c, srv, w)
         /\ \A i \in Servers : srv[i].stage <= cur

\* The gates that were passed.
NeedsJobGate(c) == c.audit /\ \E k \in 1..Len(c.steps) : c.steps[k].class \in {"write", "destructive", "escalation"}
NeedsWaveGate(c) == c.audit /\ c.strategy.wave_gate
GateOK(c, srv, p, gt) ==
    /\ NeedsJobGate(c) /\ (p \in {"canary", "wave", "waves"} \/ \E i \in Servers : srv[i].stage # -1)
         => gt["job"] = "approved"
    /\ NeedsWaveGate(c) /\ (p = "waves" \/ \E i \in Servers : srv[i].stage > 0)
         => gt["wave"] = "approved"

\* The row of a server.
RowOK(c, s, row) ==
    /\ row \in {"success", "partial", "failed"} => s.done
    /\ row \in {"success", "partial"} => Len(s.results) = Len(c.steps)
    /\ row = "success" => ErrorsOf(s) = {}
    /\ row = "partial" => ErrorsOf(s) # {} /\ ~StoppedOf(c, s)
    /\ row = "failed" => StoppedOf(c, s)

Inv ==
    /\ TypeOK
    /\ \A i \in Servers :
         /\ ServerOK(cfg, server[i], i)
         /\ RowOK(cfg, server[i], rows[i])
         /\ stages[i] # -1 => stages[i] = StageOf(cfg.strategy, i)
    /\ Shielded(cfg, server)
    /\ PhaseOK(cfg, server, phase, current)
    /\ GateOK(cfg, server, phase, gate)
    /\ phase = "finalize" /\ ok => AllThrough(cfg, server)
    /\ job = "completed" => phase = "done" /\ AllThrough(cfg, server)

-----------------------------------------------------------------------------
(* Facts about the parts. *)

\* The configuration that a run started with.
LEMMA ConfigOK ==
    ASSUME Inv
    PROVE  /\ cfg.strategy \in StrategyOK /\ cfg.steps \in Seq(StepDefs) /\ cfg.audit \in BOOLEAN
           /\ CanaryCount(cfg.strategy) \in Servers /\ N \in Nat \ {0} /\ MaxPolls \in Nat
<1>1. PICK st \in Strategies : cfg.strategy = Defaults(st)
  BY DEF Inv, TypeOK
<1>2. cfg.strategy \in StrategyOK
  BY <1>1, DefaultsOK
<1>3. cfg.steps \in StepLists /\ cfg.audit \in BOOLEAN
  BY DEF Inv, TypeOK
<1>4. cfg.steps \in Seq(StepDefs)
  BY <1>3, ConstantsAssumption
<1> QED BY <1>2, <1>3, <1>4, CanaryCountType, ConstantsAssumption

\* The operators of the model in terms of the servers' records.
LEMMA FailureIs ==
    ASSUME NEW i \in Servers
    PROVE  /\ Errors(i) = ErrorsOf(server[i])
           /\ Stopped(i) <=> StoppedOf(cfg, server[i])
           /\ isServerFailure(i) <=> FailureOf(cfg, server[i])
BY DEF Errors, ErrorsOf, Stopped, StoppedOf, isServerFailure, FailureOf

\* The wave being run, by the stored stages.
LEMMA WaveIs ==
    ASSUME Inv, CanaryCount(cfg.strategy) < N, NEW k \in 1..Len(Waves(cfg.strategy))
    PROVE  /\ Wave(k) = WaveServers(cfg, k) /\ WaveServers(cfg, k) # {}
           /\ Failures(k) = Cardinality(WaveFailed(cfg, server, k))
<1>1. Wave(k) = WaveServers(cfg, k) /\ WaveServers(cfg, k) # {}
  BY ConfigOK, WavesAre DEF Wave, WaveServers
<1>2. WaveServers(cfg, k) \subseteq Servers
  BY DEF WaveServers
<1>3. {i \in Wave(k) : isServerFailure(i)} = WaveFailed(cfg, server, k)
  BY <1>1, <1>2, FailureIs DEF WaveFailed
<1> QED BY <1>1, <1>3 DEF Failures

\* The numbers the breaker compares.
LEMMA WaveCounts ==
    ASSUME N \in Nat, NEW c, NEW srv, NEW w
    PROVE  Cardinality(WaveServers(c, w)) \in Nat /\ Cardinality(WaveFailed(c, srv, w)) \in Nat
<1>1. IsFiniteSet(Servers)
  BY FS_Interval DEF Servers
<1>2. IsFiniteSet(WaveServers(c, w)) /\ IsFiniteSet(WaveFailed(c, srv, w))
  BY <1>1, FS_Subset DEF WaveServers, WaveFailed
<1> QED BY <1>2, FS_CardinalityType

\* What passed stays passed when a server that is not through changes.
LEMMA PassedStays ==
    ASSUME NEW c, NEW srv, NEW i \in Servers, NEW s, srv \in [Servers -> ServerStates],
           ~srv[i].done, NEW new, new = [srv EXCEPT ![i] = s]
    PROVE  /\ \A n \in Servers \cup {0} : CanariesPassed(c, srv, n) => CanariesPassed(c, new, n)
           /\ \A w : WavePassed(c, srv, w) => WavePassed(c, new, w)
<1>1. \A j \in Servers : j # i => new[j] = srv[j]
  OBVIOUS
<1>2. ASSUME NEW n \in Servers \cup {0}, CanariesPassed(c, srv, n)
      PROVE  CanariesPassed(c, new, n)
  <2>1. \A j \in 1..n : j \in Servers
    BY ConstantsAssumption DEF Servers
  <2> QED BY <1>1, <1>2, <2>1 DEF CanariesPassed
<1>3. ASSUME NEW w, WavePassed(c, srv, w)
      PROVE  WavePassed(c, new, w)
  <2>1. \A j \in WaveServers(c, w) : j \in Servers /\ j # i /\ new[j] = srv[j]
    BY <1>1, <1>3 DEF WavePassed, WaveServers
  <2>2. WaveFailed(c, new, w) = WaveFailed(c, srv, w)
    BY <2>1 DEF WaveFailed
  <2> QED BY <1>3, <2>1, <2>2 DEF WavePassed
<1> QED BY <1>2, <1>3

-----------------------------------------------------------------------------
(* Steps of a server. *)

\* A server that is not through changes, and its row with it or not.
LEMMA ServerStepInv ==
    ASSUME Inv, NEW i \in Servers, NEW s, NEW status \in RowStatuses,
           phase \in {"canary", "waves"}, ~server[i].done,
           ServerOK(cfg, s, i), s.stage # -1,
           phase = "canary" => i <= current,
           phase = "waves" => s.stage <= current,
           RowOK(cfg, s, status),
           server' = [server EXCEPT ![i] = s], rows' = [rows EXCEPT ![i] = status],
           UNCHANGED <<cfg, phase, asked, polls, gate, jobID, current, ok, job, stages>>
    PROVE  Inv'
<1> DEFINE CC == CanaryCount(cfg.strategy)
<1>0. cfg.strategy \in StrategyOK /\ CC \in Servers /\ N \in Nat \ {0}
  BY ConfigOK
<1>1. server \in [Servers -> ServerStates] /\ rows \in [Servers -> RowStatuses] /\ s \in ServerStates
  BY DEF Inv, TypeOK, ServerOK
<1>2. /\ server' \in [Servers -> ServerStates] /\ server'[i] = s
      /\ \A j \in Servers : j # i => server'[j] = server[j]
      /\ rows' \in [Servers -> RowStatuses] /\ rows'[i] = status
      /\ \A j \in Servers : j # i => rows'[j] = rows[j]
  BY <1>1
<1>3. TypeOK'
  BY <1>2 DEF Inv, TypeOK
<1>4. \A j \in Servers : /\ ServerOK(cfg', server'[j], j)
                         /\ RowOK(cfg', server'[j], rows'[j])
                         /\ stages'[j] # -1 => stages'[j] = StageOf(cfg'.strategy, j)
  BY <1>2 DEF Inv
<1>5. /\ \A n \in Servers \cup {0} : CanariesPassed(cfg, server, n) => CanariesPassed(cfg, server', n)
      /\ \A w : WavePassed(cfg, server, w) => WavePassed(cfg, server', w)
  BY <1>1, PassedStays
<1>6. s.stage \in Int /\ s.stage = StageOf(cfg.strategy, i) /\ \A j \in Servers : server[j].stage \in Int
  BY <1>1 DEF ServerOK, ServerStates
<1>7. phase = "canary" => s.stage = 0 /\ current \in 1..CC
  <2>1. phase = "canary" => current \in 1..CC /\ i <= CC
    BY <1>0 DEF Inv, PhaseOK, Servers
  <2> QED BY <1>0, <1>6, <2>1, StageOfIs
<1>8. ASSUME phase = "waves"
      PROVE  /\ CanariesPassed(cfg, server, CC) /\ current \in Nat
             /\ \A w \in 1..(current - 1) : WavePassed(cfg, server, w)
  BY <1>8 DEF Inv, TypeOK, PhaseOK
<1>9. Shielded(cfg', server')
  <2> SUFFICES ASSUME NEW j \in Servers, server'[j].stage > 0
               PROVE  /\ CanariesPassed(cfg, server', CC)
                      /\ \A w \in 1..(server'[j].stage - 1) : WavePassed(cfg, server', w)
    BY DEF Shielded
  <2>1. CASE j # i
    BY <1>0, <1>2, <1>5, <2>1 DEF Inv, Shielded
  <2>2. CASE j = i
    <3>1. phase = "waves"
      BY <1>2, <1>7, <2>2
    <3>2. \A w \in 1..(s.stage - 1) : w \in 1..(current - 1)
      BY <1>6, <1>8, <3>1
    <3> QED BY <1>0, <1>2, <1>5, <1>8, <2>2, <3>1, <3>2
  <2> QED BY <2>1, <2>2
<1>10. PhaseOK(cfg', server', phase', current')
  <2>1. CASE phase = "canary"
    <3>1. current - 1 \in Servers \cup {0}
      BY <1>0, <1>7, <2>1 DEF Servers
    <3>2. CanariesPassed(cfg, server', current - 1)
      BY <1>5, <2>1, <3>1 DEF Inv, PhaseOK
    <3>3. \A j \in Servers : j > current => server'[j].stage = -1
      <4> SUFFICES ASSUME NEW j \in Servers, j > current PROVE server'[j].stage = -1
        OBVIOUS
      <4>1. j # i
        BY <1>0, <1>7, <2>1 DEF Servers
      <4> QED BY <1>2, <2>1, <4>1 DEF Inv, PhaseOK
    <3> QED BY <1>7, <2>1, <3>2, <3>3 DEF PhaseOK
  <2>2. CASE phase = "waves"
    <3>1. CanariesPassed(cfg, server', CC) /\ \A w \in 1..(current - 1) : WavePassed(cfg, server', w)
      BY <1>0, <1>5, <1>8, <2>2
    <3>2. \A j \in Servers : server'[j].stage <= current
      BY <1>2, <2>2 DEF Inv, PhaseOK
    <3>3. CC < N /\ current \in 1..Len(Waves(cfg.strategy))
      BY <2>2 DEF Inv, PhaseOK
    <3> QED BY <2>2, <3>1, <3>2, <3>3 DEF PhaseOK
  <2> QED BY <2>1, <2>2
<1>11. GateOK(cfg', server', phase', gate')
  <2>1. (\E j \in Servers : server'[j].stage > 0) => phase = "waves" \/ \E j \in Servers : server[j].stage > 0
    BY <1>2, <1>7
  <2> QED BY <2>1 DEF Inv, GateOK
<1>12. /\ phase' = "finalize" /\ ok' => AllThrough(cfg', server')
       /\ job' = "completed" => phase' = "done" /\ AllThrough(cfg', server')
  BY DEF Inv
<1> QED BY <1>3, <1>4, <1>9, <1>10, <1>11, <1>12 DEF Inv

\* A server that is not through has no final row, and patchServerStatus writes the given
\* status or leaves the row.
LEMMA PatchCases ==
    ASSUME Inv, NEW i \in Servers, ~server[i].done, NEW status \in RowStatuses,
           Patch(i, status) \/ UNCHANGED rows
    PROVE  /\ rows[i] \in {"none", "pending", "running"}
           /\ \E st \in RowStatuses : st \in {rows[i], status} /\ rows' = [rows EXCEPT ![i] = st]
<1>1. rows \in [Servers -> RowStatuses] /\ RowOK(cfg, server[i], rows[i])
  BY DEF Inv, TypeOK
<1>2. rows[i] \in {"none", "pending", "running"}
  BY <1>1 DEF RowOK, RowStatuses
<1>3. CASE rows' = [rows EXCEPT ![i] = status]
  BY <1>2, <1>3
<1>4. CASE rows' = rows
  <2>1. rows' = [rows EXCEPT ![i] = rows[i]]
    BY <1>1, <1>4
  <2> QED BY <1>1, <1>2, <2>1
<1> QED BY <1>2, <1>3, <1>4 DEF Patch

\* What a server record of the invariant is.
LEMMA ServerRecord ==
    ASSUME Inv, NEW i \in Servers
    PROVE  /\ ServerOK(cfg, server[i], i) /\ server[i] \in ServerStates
           /\ server[i].stage \in -1..N /\ server[i].done \in BOOLEAN
           /\ server[i].results \in Seq(callGatewayTool)
<1>1. ServerOK(cfg, server[i], i) /\ server[i] \in ServerStates
  BY DEF Inv, TypeOK
<1> QED BY <1>1 DEF ServerStates

\* runStages starts a canary or a server of the wave.
LEMMA StartServerInv ==
    ASSUME Inv, NEW i \in Servers, StartServer(i)
    PROVE  Inv'
<1> DEFINE g == IF phase = "canary" THEN 0 ELSE current
<1> DEFINE s == [server[i] EXCEPT !.stage = g]
<1>0. cfg.strategy \in StrategyOK /\ CanaryCount(cfg.strategy) \in Servers /\ N \in Nat \ {0}
  BY ConfigOK
<1>1. /\ ServerOK(cfg, server[i], i) /\ server[i] \in ServerStates
      /\ server[i].stage = -1 /\ ~server[i].done
  <2>1. ServerOK(cfg, server[i], i) /\ server[i] \in ServerStates
    BY ServerRecord
  <2> QED BY <2>1 DEF StartServer, Started, ServerOK
<1>2. phase \in {"canary", "waves"}
  BY DEF StartServer, Startable
<1>3. g = StageOf(cfg.strategy, i) /\ g \in 0..N /\ (phase = "canary" => i <= current)
      /\ (phase = "waves" => g <= current)
  <2>1. CASE phase = "canary"
    <3>1. i = current /\ current \in 1..CanaryCount(cfg.strategy)
      BY <2>1 DEF StartServer, Startable, Inv, PhaseOK
    <3> QED BY <1>0, <2>1, <3>1, StageOfIs DEF Servers
  <2>2. CASE phase = "waves"
    <3>1. CanaryCount(cfg.strategy) < N /\ current \in 1..Len(Waves(cfg.strategy))
      BY <2>2 DEF Inv, PhaseOK
    <3>2. i \in Wave(current)
      BY <2>2 DEF StartServer, Startable, Wave
    <3>3. StageOf(cfg.strategy, i) = current
      BY <3>1, <3>2, WaveIs DEF WaveServers
    <3>4. Len(Waves(cfg.strategy)) \in 1..N
      BY <1>0, <3>1, WavesAre
    <3> QED BY <1>0, <2>2, <3>1, <3>3, <3>4
  <2> QED BY <1>2, <2>1, <2>2
<1>4. server' = [server EXCEPT ![i] = s]
  BY DEF StartServer, Inv, TypeOK
<1> HIDE DEF g
<1>5. s \in ServerStates /\ s.stage = g /\ s.results = server[i].results /\ s.done = server[i].done
  BY <1>0, <1>1, <1>3 DEF ServerStates
<1> HIDE DEF s
<1>6. ServerOK(cfg, s, i) /\ s.stage # -1
  BY <1>1, <1>3, <1>5 DEF ServerOK, StoppedOf, ErrorsOf
<1>7. PICK st \in RowStatuses : st \in {rows[i], "running"} /\ rows' = [rows EXCEPT ![i] = st]
  BY <1>1, PatchCases DEF StartServer, RowStatuses
<1>8. RowOK(cfg, s, st)
  BY <1>1, <1>7, PatchCases DEF StartServer, RowOK, RowStatuses
<1>9. UNCHANGED <<cfg, phase, asked, polls, gate, jobID, current, ok, job, stages>>
  BY DEF StartServer
<1> QED BY <1>1, <1>2, <1>3, <1>4, <1>5, <1>6, <1>7, <1>8, <1>9, ServerStepInv

\* A started server runs while its canary or its wave is current.
LEMMA RunningServer ==
    ASSUME Inv, NEW i \in Servers, phase \in {"canary", "waves"}, Started(i)
    PROVE  /\ phase = "canary" => i <= current
           /\ phase = "waves" => server[i].stage <= current
<1>1. phase = "canary" => current \in Nat /\ i \in Nat
  BY ConfigOK DEF Inv, TypeOK, Servers
<1> QED BY <1>1 DEF Inv, PhaseOK, Started

\* A tool call that comes back.
LEMMA CallToolInv ==
    ASSUME Inv, NEW i \in Servers, CallTool(i)
    PROVE  Inv'
<1> DEFINE o == server[i]
<1> DEFINE n == Len(o.results)
<1>0. phase \in {"canary", "waves"} /\ Started(i) /\ ~o.done /\ n < Len(cfg.steps)
      /\ UNCHANGED <<cfg, phase, asked, polls, gate, jobID, current, ok, job, stages>>
  BY DEF CallTool
<1>1. PICK r \in callGatewayTool :
        LET stop == r = "error" /\ cfg.steps[Len(server[i].results) + 1].on_failure = "stop"
        IN  /\ server' = [server EXCEPT ![i] = [server[i] EXCEPT !.results = Append(@, r), !.done = stop]]
            /\ IF stop THEN Patch(i, "failed") ELSE UNCHANGED rows
  BY DEF CallTool
<1> DEFINE stop == r = "error" /\ cfg.steps[n + 1].on_failure = "stop"
<1> DEFINE s == [o EXCEPT !.results = Append(o.results, r), !.done = stop]
<1>2. ServerOK(cfg, o, i) /\ o \in ServerStates /\ o.results \in Seq(callGatewayTool) /\ n \in Nat
      /\ o.stage # -1 /\ o.stage \in -1..N
  BY <1>0, ServerRecord DEF Started
<1>3. cfg.steps \in Seq(StepDefs) /\ Len(cfg.steps) \in Nat
  BY ConfigOK
<1>4. server' = [server EXCEPT ![i] = s] /\ (IF stop THEN Patch(i, "failed") ELSE UNCHANGED rows)
  <2>1. [server[i] EXCEPT !.results = Append(@, r), !.done = stop] = s
    BY <1>2 DEF ServerStates
  <2> QED BY <1>1, <2>1
<1>5. stop \in BOOLEAN
  OBVIOUS
<1>6. (IF stop THEN Patch(i, "failed") ELSE UNCHANGED rows) => (stop /\ Patch(i, "failed")) \/ (~stop /\ UNCHANGED rows)
  OBVIOUS
<1>7. Append(o.results, r) \in Seq(callGatewayTool) /\ Len(Append(o.results, r)) = n + 1
      /\ Append(o.results, r)[n + 1] = r
      /\ \A k \in 1..n : Append(o.results, r)[k] = o.results[k]
  BY <1>2
<1>8. stop => r = "error" /\ cfg.steps[n + 1].on_failure = "stop"
  OBVIOUS
<1>9. r = "error" /\ cfg.steps[n + 1].on_failure = "stop" => stop
  OBVIOUS
<1> HIDE DEF stop, o
<1>10. s \in ServerStates /\ s.stage = o.stage /\ s.results = Append(o.results, r) /\ s.done = stop
  BY <1>2, <1>5, <1>7 DEF ServerStates
<1> HIDE DEF s, n
<1>11. ErrorsOf(s) = IF r = "error" THEN ErrorsOf(o) \cup {n + 1} ELSE ErrorsOf(o)
  <2>1. 1..Len(s.results) = (1..n) \cup {n + 1}
    BY <1>2, <1>7, <1>10
  <2>2. \A k \in 1..n : s.results[k] = o.results[k]
    BY <1>7, <1>10
  <2>3. s.results[n + 1] = r
    BY <1>7, <1>10
  <2>4. ErrorsOf(o) = {k \in 1..n : o.results[k] = "error"}
    BY DEF ErrorsOf, n
  <2> QED BY <2>1, <2>2, <2>3, <2>4 DEF ErrorsOf
<1>12. ~StoppedOf(cfg, o)
  BY <1>0, <1>2 DEF ServerOK
<1>13. StoppedOf(cfg, s) <=> stop
  BY <1>8, <1>9, <1>11, <1>12 DEF StoppedOf
<1>14. ServerOK(cfg, s, i) /\ s.stage # -1
  BY <1>0, <1>2, <1>3, <1>7, <1>10, <1>13 DEF ServerOK, n
<1>15. ~server[i].done
  BY <1>0 DEF o
<1>16. PICK st \in RowStatuses : rows' = [rows EXCEPT ![i] = st] /\
         (st \in {"none", "pending", "running"} \/ (stop /\ st = "failed"))
  <2>1. CASE stop /\ Patch(i, "failed")
    BY <1>15, <2>1, PatchCases DEF RowStatuses
  <2>2. CASE ~stop /\ UNCHANGED rows
    <3>1. \E st \in RowStatuses : st \in {rows[i], "running"} /\ rows' = [rows EXCEPT ![i] = st]
      BY <1>15, <2>2, PatchCases DEF RowStatuses
    <3>2. rows[i] \in {"none", "pending", "running"}
      BY <1>15, <2>2, PatchCases DEF RowStatuses
    <3> QED BY <3>1, <3>2
  <2> QED BY <1>4, <1>6, <2>1, <2>2
<1>17. RowOK(cfg, s, st)
  BY <1>10, <1>13, <1>16 DEF RowOK
<1>18. (phase = "canary" => i <= current) /\ (phase = "waves" => s.stage <= current)
  BY <1>0, <1>10, RunningServer DEF o
<1> QED BY <1>0, <1>4, <1>14, <1>15, <1>16, <1>17, <1>18, ServerStepInv

\* A server whose steps were all called is through.
LEMMA FinishServerInv ==
    ASSUME Inv, NEW i \in Servers, FinishServer(i)
    PROVE  Inv'
<1> DEFINE o == server[i]
<1> DEFINE s == [o EXCEPT !.done = TRUE]
<1> DEFINE status == IF Errors(i) = {} THEN "success" ELSE "partial"
<1>0. phase \in {"canary", "waves"} /\ Started(i) /\ ~server[i].done /\ Len(o.results) = Len(cfg.steps)
      /\ UNCHANGED <<cfg, phase, asked, polls, gate, jobID, current, ok, job, stages>>
      /\ Patch(i, status)
  BY DEF FinishServer
<1>1. ServerOK(cfg, o, i) /\ o \in ServerStates /\ o.stage # -1 /\ o.results \in Seq(callGatewayTool)
  BY <1>0, ServerRecord DEF Started
<1>2. server' = [server EXCEPT ![i] = s]
  BY DEF FinishServer, Inv, TypeOK
<1>3. s \in ServerStates /\ s.stage = o.stage /\ s.results = o.results /\ s.done = TRUE
  BY <1>1 DEF ServerStates
<1>4. Errors(i) = ErrorsOf(o)
  BY FailureIs
<1> HIDE DEF s, o
<1>5. ErrorsOf(s) = ErrorsOf(o) /\ (StoppedOf(cfg, s) <=> StoppedOf(cfg, o))
  BY <1>3 DEF ErrorsOf, StoppedOf
<1>6. ~StoppedOf(cfg, o)
  BY <1>0, <1>1 DEF ServerOK, o
<1>7. ServerOK(cfg, s, i) /\ s.stage # -1
  BY <1>0, <1>1, <1>3, <1>5 DEF ServerOK
<1>8. status \in {"success", "partial"} /\ (status = "success" => ErrorsOf(s) = {})
      /\ (status = "partial" => ErrorsOf(s) # {})
  BY <1>4, <1>5
<1> HIDE DEF status
<1>9. status \in RowStatuses
  BY <1>8 DEF RowStatuses
<1>10. PICK st \in RowStatuses : st \in {rows[i], status} /\ rows' = [rows EXCEPT ![i] = st]
  BY <1>0, <1>9, PatchCases
<1>11. rows[i] \in {"none", "pending", "running"}
  BY <1>0, <1>9, PatchCases
<1>12. RowOK(cfg, s, st)
  BY <1>0, <1>3, <1>5, <1>6, <1>8, <1>10, <1>11 DEF RowOK
<1>13. (phase = "canary" => i <= current) /\ (phase = "waves" => s.stage <= current)
  BY <1>0, <1>3, RunningServer DEF o
<1> QED BY <1>0, <1>2, <1>7, <1>10, <1>12, <1>13, ServerStepInv

-----------------------------------------------------------------------------
(* Steps of the runner between servers. *)

\* A step that leaves the servers and their rows alone.
LEMMA ControlInv ==
    ASSUME Inv, UNCHANGED <<cfg, server, rows, stages>>,
           phase' \in Phases, asked' \in BOOLEAN, polls' \in 0..MaxPolls,
           gate' \in [Gates -> ApprovalStatuses], jobID' \in BOOLEAN, ok' \in BOOLEAN,
           current' \in 1..N + 1, phase' = "canary" => current' \in Servers,
           job' \in {"none", "running", "completed", "failed"},
           PhaseOK(cfg, server, phase', current'),
           GateOK(cfg, server, phase', gate'),
           phase' = "finalize" /\ ok' => AllThrough(cfg, server),
           job' = "completed" => phase' = "done" /\ AllThrough(cfg, server)
    PROVE  Inv'
<1>1. TypeOK'
  BY DEF Inv, TypeOK
<1>2. \A i \in Servers : /\ ServerOK(cfg', server'[i], i)
                         /\ RowOK(cfg', server'[i], rows'[i])
                         /\ stages'[i] # -1 => stages'[i] = StageOf(cfg'.strategy, i)
  BY DEF Inv
<1>3. Shielded(cfg', server')
  BY DEF Inv
<1> QED BY <1>1, <1>2, <1>3 DEF Inv

\* The types of what the runner keeps.
LEMMA Types ==
    ASSUME Inv
    PROVE  /\ phase \in Phases /\ asked \in BOOLEAN /\ polls \in 0..MaxPolls /\ 0 \in 0..MaxPolls
           /\ gate \in [Gates -> ApprovalStatuses] /\ jobID \in BOOLEAN /\ ok \in BOOLEAN
           /\ current \in 1..N + 1 /\ 1 \in 1..N + 1 /\ 1 \in Servers
           /\ job \in {"none", "running", "completed", "failed"}
           /\ PhaseOK(cfg, server, phase, current) /\ GateOK(cfg, server, phase, gate)
           /\ job = "completed" => phase = "done"
BY ConfigOK DEF Inv, TypeOK, Servers

\* Phases in which nothing more is asked of the servers or the gates.
LEMMA PhaseEnds ==
    ASSUME NEW c, NEW srv, NEW gt, NEW p, NEW cur, NEW cur2, GateOK(c, srv, p, gt)
    PROVE  \A q \in {"finalize", "done", "exited"} : PhaseOK(c, srv, q, cur2) /\ GateOK(c, srv, q, gt)
BY DEF PhaseOK, GateOK

\* A step that ends the run: a failure, the end of the process, or a kill.
LEMMA EndInv ==
    ASSUME Inv, UNCHANGED <<cfg, server, rows, stages, jobID, current>>,
           gate' = gate \/ GateOK(cfg, server, phase, gate'), gate' \in [Gates -> ApprovalStatuses],
           phase' \in {"finalize", "done", "exited"}, asked' \in BOOLEAN, polls' \in 0..MaxPolls,
           ok' \in BOOLEAN, phase' = "finalize" => ~ok',
           job' \in {"none", "running", "completed", "failed"},
           job' = "completed" => phase' = "done" /\ AllThrough(cfg, server)
    PROVE  Inv'
<1>1. GateOK(cfg, server, phase, gate')
  BY Types
<1>2. PhaseOK(cfg, server, phase', current') /\ GateOK(cfg, server, phase', gate')
  BY <1>1, PhaseEnds
<1>3. phase' \in Phases /\ phase' # "canary" /\ jobID' \in BOOLEAN /\ current' \in 1..N + 1
  BY Types DEF Phases
<1> QED BY <1>2, <1>3, ControlInv

\* A failure with the gates as they are.
LEMMA FailInv ==
    ASSUME Inv, Fail, UNCHANGED <<cfg, server, rows, stages, jobID, current, job>>,
           phase # "done", gate' = gate \/ GateOK(cfg, server, phase, gate'),
           gate' \in [Gates -> ApprovalStatuses]
    PROVE  Inv'
<1>1. phase' = "finalize" /\ ok' = FALSE /\ asked' = asked /\ polls' = polls
  BY DEF Fail
<1> QED BY <1>1, Types, EndInv

\* runPreflight.
LEMMA PreflightInv ==
    ASSUME Inv, Preflight
    PROVE  Inv'
<1>1. phase = "preflight" /\ (Goto("submit") \/ Goto("exited")) /\ job' = job
      /\ UNCHANGED <<cfg, gate, jobID, current, server, ok, records>>
  BY DEF Preflight, records
<1>2. UNCHANGED <<cfg, server, rows, stages, jobID, current, gate, ok, job>>
  BY <1>1 DEF records
<1>3. CASE Goto("submit")
  <2>1. phase' = "submit" /\ asked' = FALSE /\ polls' = 0
    BY <1>3 DEF Goto
  <2>2. PhaseOK(cfg, server, phase', current') /\ GateOK(cfg, server, phase', gate')
    BY <1>1, <1>2, <2>1, Types DEF PhaseOK, GateOK
  <2> QED BY <1>1, <1>2, <2>1, <2>2, Types, ControlInv DEF Phases
<1>4. CASE Goto("exited")
  BY <1>1, <1>2, <1>4, Types, EndInv DEF Goto
<1> QED BY <1>1, <1>3, <1>4

\* submitJob stores the stages.
LEMMA SubmitInv ==
    ASSUME Inv, Submit
    PROVE  Inv'
<1>1. phase = "submit" /\ phase' = "job" /\ asked' = FALSE /\ polls' = 0
      /\ UNCHANGED <<cfg, gate, current, server, ok>>
  BY DEF Submit, Goto
<1>2. PhaseOK(cfg, server, phase', current') /\ GateOK(cfg, server, phase', gate')
  BY <1>1, Types DEF PhaseOK, GateOK
<1>3. CASE UNCHANGED <<jobID, records>>
  <2>1. UNCHANGED <<jobID, job, rows, stages>>
    BY <1>3 DEF records
  <2> QED BY <1>1, <1>2, <2>1, Types, ControlInv DEF Phases
<1>4. CASE /\ jobID' = TRUE /\ job' = "running"
           /\ \E registered \in SUBSET Servers :
                /\ ~cfg.audit => registered = {}
                /\ rows' = [i \in Servers |-> IF i \in registered THEN "pending" ELSE "none"]
                /\ stages' = [i \in Servers |->
                      IF i \in registered THEN buildStageAssignments(cfg.strategy, i) ELSE -1]
  <2>1. PICK registered \in SUBSET Servers :
          /\ rows' = [i \in Servers |-> IF i \in registered THEN "pending" ELSE "none"]
          /\ stages' = [i \in Servers |->
                IF i \in registered THEN buildStageAssignments(cfg.strategy, i) ELSE -1]
    BY <1>4
  <2>2. \A i \in Servers : StageOf(cfg.strategy, i) \in 0..N
    BY ConfigOK, StageOfIs DEF Servers
  <2>3. rows' \in [Servers -> RowStatuses] /\ \A i \in Servers : rows'[i] \in {"pending", "none"}
    BY <2>1 DEF RowStatuses
  <2>4. stages' \in [Servers -> -1..N]
        /\ \A i \in Servers : stages'[i] # -1 => stages'[i] = StageOf(cfg.strategy, i)
    BY <2>1, <2>2, ConfigOK DEF StageOf
  <2>5. TypeOK'
    BY <1>1, <1>4, <2>3, <2>4, Types DEF Inv, TypeOK, Phases
  <2>6. \A i \in Servers : /\ ServerOK(cfg', server'[i], i)
                           /\ RowOK(cfg', server'[i], rows'[i])
                           /\ stages'[i] # -1 => stages'[i] = StageOf(cfg'.strategy, i)
    BY <1>1, <2>3, <2>4 DEF Inv, RowOK
  <2>7. Shielded(cfg', server')
    BY <1>1 DEF Inv
  <2> QED BY <1>1, <1>2, <1>4, <2>5, <2>6, <2>7 DEF Inv
<1> QED BY <1>3, <1>4 DEF Submit

\* A gate opens when it is not required or was approved.
LEMMA GateOpenedInv ==
    ASSUME Inv, NEW g \in Gates, phase = g, GateOpened(g), Required(g) => gate[g] = "approved",
           UNCHANGED <<cfg, gate, jobID, server, records>>
    PROVE  Inv'
<1>1. phase' = Opens[g] /\ asked' = FALSE /\ polls' = 0 /\ current' = 1 /\ ok' = ok
      /\ UNCHANGED <<cfg, gate, jobID, server, rows, stages, job>>
  BY DEF GateOpened, Goto, records
<1>2. CASE g = "job"
  <2>1. phase' = "canary"
    BY <1>1, <1>2 DEF Opens
  <2>2. \A i \in Servers : server[i].stage = -1
    BY <1>2, Types DEF PhaseOK
  <2>3. PhaseOK(cfg, server, phase', current')
    <3>1. 1 \in 1..CanaryCount(cfg.strategy)
      BY ConfigOK DEF Servers
    <3> QED BY <1>1, <2>1, <2>2, <3>1 DEF PhaseOK, CanariesPassed
  <2>4. NeedsJobGate(cfg) => Required("job")
    BY ConfigOK, ClassNeedsApproval DEF NeedsJobGate, Required
  <2>5. GateOK(cfg, server, phase', gate')
    BY <1>1, <1>2, <2>1, <2>2, <2>4 DEF GateOK
  <2> QED BY <1>1, <1>2, <2>1, <2>3, <2>5, Types, ControlInv DEF Phases
<1>3. CASE g = "wave"
  <2>1. phase' = "waves"
    BY <1>1, <1>3 DEF Opens
  <2>2. /\ \A i \in Servers : server[i].stage <= 0 /\ server[i].stage \in Int
        /\ CanaryCount(cfg.strategy) < N
        /\ CanariesPassed(cfg, server, CanaryCount(cfg.strategy))
    BY <1>3, Types, ServerRecord DEF PhaseOK
  <2>3. PhaseOK(cfg, server, phase', current')
    <3>1. 1 \in 1..Len(Waves(cfg.strategy))
      BY <2>2, ConfigOK, WavesAre
    <3>2. \A i \in Servers : server[i].stage <= 1
      BY <2>2
    <3> QED BY <1>1, <2>1, <2>2, <3>1, <3>2 DEF PhaseOK
  <2>4. NeedsWaveGate(cfg) => Required("wave")
    BY DEF NeedsWaveGate, Required
  <2>5. GateOK(cfg, server, phase', gate')
    BY <1>1, <1>3, <2>1, <2>4, Types DEF GateOK
  <2> QED BY <1>1, <1>3, <2>1, <2>3, <2>5, Types, ControlInv DEF Phases
<1> QED BY <1>2, <1>3 DEF Gates

\* Asking for an approval: no server is beyond the gate yet.
LEMMA RequestApprovalInv ==
    ASSUME Inv, NEW g \in Gates, RequestApproval(g)
    PROVE  Inv'
<1>1. phase = g /\ UNCHANGED <<cfg, jobID, current, server, job, rows, stages>>
  BY DEF RequestApproval, records
<1>2. gate' = gate \/ gate' = [gate EXCEPT ![g] = "pending"]
  BY DEF RequestApproval, handleCreateJobApproval
<1>3. Fail \/ (asked' = TRUE /\ UNCHANGED <<phase, polls, ok>>)
  BY DEF RequestApproval
<1>4. gate' \in [Gates -> ApprovalStatuses]
  BY <1>2, Types DEF ApprovalStatuses
<1>5. GateOK(cfg, server, phase, gate')
  <2>1. CASE g = "job"
    <3>1. \A i \in Servers : server[i].stage = -1
      BY <1>1, <2>1, Types DEF PhaseOK
    <3> QED BY <1>1, <2>1, <3>1 DEF GateOK
  <2>2. CASE g = "wave"
    <3>1. \A i \in Servers : ~(server[i].stage > 0)
      <4>1. \A i \in Servers : server[i].stage <= 0 /\ server[i].stage \in Int
        BY <1>1, <2>2, Types, ServerRecord DEF PhaseOK
      <4> QED BY <4>1
    <3>2. gate'["job"] = gate["job"]
      BY <1>2, <2>2, Types DEF Gates
    <3> QED BY <1>1, <2>2, <3>1, <3>2, Types DEF GateOK
  <2> QED BY <2>1, <2>2 DEF Gates
<1>6. phase \in {"job", "wave"}
  BY <1>1 DEF Gates
<1>7. CASE Fail
  BY <1>1, <1>4, <1>5, <1>6, <1>7, FailInv
<1>8. CASE asked' = TRUE /\ UNCHANGED <<phase, polls, ok>>
  <2>1. PhaseOK(cfg, server, phase', current')
    BY <1>1, <1>8, Types
  <2> QED BY <1>1, <1>4, <1>5, <1>6, <1>8, <2>1, Types, ControlInv
<1> QED BY <1>3, <1>7, <1>8

\* One poll of waitForFleetApproval.
LEMMA PollInv ==
    ASSUME Inv, NEW g \in Gates, Poll(g)
    PROVE  Inv'
<1>1. phase = g /\ UNCHANGED <<cfg, gate, jobID, server, records>>
  BY DEF Poll
<1>2. \/ gate[g] = "approved" /\ GateOpened(g)
      \/ Fail /\ UNCHANGED current
      \/ polls < MaxPolls /\ polls' = polls + 1 /\ UNCHANGED <<phase, asked, ok, current>>
  BY DEF Poll
<1>3. phase \in {"job", "wave"} /\ UNCHANGED <<job, rows, stages>>
  BY <1>1 DEF Gates, records
<1>4. CASE gate[g] = "approved" /\ GateOpened(g)
  BY <1>1, <1>4, GateOpenedInv
<1>5. CASE Fail /\ UNCHANGED current
  BY <1>1, <1>3, <1>5, Types, FailInv
<1>6. CASE polls < MaxPolls /\ polls' = polls + 1 /\ UNCHANGED <<phase, asked, ok, current>>
  <2>1. polls' \in 0..MaxPolls
    BY <1>6, Types, ConfigOK
  <2>2. PhaseOK(cfg, server, phase', current') /\ GateOK(cfg, server, phase', gate')
    BY <1>1, <1>6, Types
  <2> QED BY <1>1, <1>3, <1>6, <2>1, <2>2, Types, ControlInv
<1> QED BY <1>2, <1>4, <1>5, <1>6

\* A pending request is resolved.
LEMMA ResolveInv ==
    ASSUME Inv, NEW g \in Gates, Resolve(g)
    PROVE  Inv'
<1>1. gate[g] = "pending" /\ UNCHANGED <<cfg, phase, asked, polls, jobID, current, server, ok, job, rows, stages>>
  BY DEF Resolve, records
<1>2. PICK s \in Resolved : gate' = [gate EXCEPT ![g] = s]
  BY DEF Resolve
<1>3. gate' \in [Gates -> ApprovalStatuses]
  BY <1>2, Types DEF ApprovalStatuses, Resolved
<1>4. \A x \in Gates : gate[x] = "approved" => gate'[x] = "approved"
  BY <1>1, <1>2, Types
<1>5. "job" \in Gates /\ "wave" \in Gates
  BY DEF Gates
<1>6. GateOK(cfg, server, phase', gate')
  BY <1>1, <1>4, <1>5, Types DEF GateOK
<1>7. PhaseOK(cfg, server, phase', current')
  BY <1>1, Types
<1>8. phase' = "canary" => current' \in Servers
  BY <1>1 DEF Inv, TypeOK
<1>9. (phase' = "finalize" /\ ok' => AllThrough(cfg, server))
      /\ (job' = "completed" => phase' = "done" /\ AllThrough(cfg, server))
  BY <1>1 DEF Inv
<1> QED BY <1>1, <1>3, <1>6, <1>7, <1>8, <1>9, Types, ControlInv

\* A canary is through.
LEMMA CanaryDoneInv ==
    ASSUME Inv, CanaryDone
    PROVE  Inv'
<1> DEFINE CC == CanaryCount(cfg.strategy)
<1>0. CC \in 1..N /\ N \in Nat /\ cfg.strategy \in StrategyOK
  BY ConfigOK DEF Servers
<1>1. phase = "canary" /\ server[current].done /\ UNCHANGED <<cfg, gate, jobID, server, job, rows, stages>>
  BY DEF CanaryDone, records
<1>2. /\ current \in 1..CC /\ CanariesPassed(cfg, server, current - 1)
      /\ \A i \in Servers : i > current => server[i].stage = -1
  BY <1>1, Types DEF PhaseOK
<1>3. current \in Servers
  BY <1>0, <1>2 DEF Servers
<1>4. CASE Fail /\ UNCHANGED current
  BY <1>1, <1>4, Types, FailInv
<1>5. CASE /\ ~isServerFailure(current)
           /\ current' = current + 1 /\ UNCHANGED ok
           /\ IF current < CC THEN UNCHANGED <<phase, asked, polls>>
              ELSE IF CC < N THEN Goto("wave") ELSE Goto("finalize")
  <2>1. ~FailureOf(cfg, server[current])
    BY <1>3, <1>5, FailureIs
  <2>2. CanariesPassed(cfg, server, current)
    <3>1. \A j \in 1..current : j = current \/ j \in 1..(current - 1)
      BY <1>0, <1>2
    <3> QED BY <1>1, <1>2, <2>1, <3>1 DEF CanariesPassed
  <2>3. CASE current < CC
    <3>1. UNCHANGED <<phase, asked, polls, ok>> /\ current' = current + 1
      BY <1>5, <2>3
    <3>2. current' \in 1..CC /\ current' - 1 = current /\ current' \in Servers /\ current' \in 1..N + 1
      BY <1>0, <1>2, <2>3, <3>1 DEF Servers
    <3>3. \A i \in Servers : i > current' => server[i].stage = -1
      BY <1>0, <1>2, <3>1 DEF Servers
    <3>4. PhaseOK(cfg, server, phase', current')
      BY <1>1, <2>2, <3>1, <3>2, <3>3 DEF PhaseOK
    <3>5. GateOK(cfg, server, phase', gate')
      BY <1>1, <3>1, Types
    <3> QED BY <1>1, <3>1, <3>2, <3>4, <3>5, Types, ControlInv
  <2>4. CASE ~(current < CC)
    <3>1. current = CC /\ current' \in 1..N + 1 /\ ok' = ok
      BY <1>0, <1>2, <1>5, <2>4
    <3>2. IF CC < N THEN Goto("wave") ELSE Goto("finalize")
      BY <1>5, <2>4
    <3>3. CASE CC < N
      <4>1. phase' = "wave" /\ asked' = FALSE /\ polls' = 0
        BY <3>2, <3>3 DEF Goto
      <4>2. ASSUME NEW i \in Servers
            PROVE  server[i].stage <= 0
        <5>1. CASE i <= CC
          BY <1>0, <5>1, ServerRecord, StageOfIs DEF ServerOK
        <5>2. CASE i > CC
          BY <1>2, <3>1, <5>2
        <5> QED BY <1>0, <5>1, <5>2 DEF Servers
      <4>3. PhaseOK(cfg, server, phase', current')
        BY <2>2, <3>1, <3>3, <4>1, <4>2 DEF PhaseOK
      <4>4. GateOK(cfg, server, phase', gate')
        BY <1>1, <4>1, Types DEF GateOK
      <4> QED BY <1>1, <3>1, <4>1, <4>3, <4>4, Types, ControlInv DEF Phases
    <3>4. CASE ~(CC < N)
      <4>1. phase' = "finalize" /\ asked' = FALSE /\ polls' = 0
        BY <3>2, <3>4 DEF Goto
      <4>2. CC = N
        BY <1>0, <3>4
      <4>3. AllThrough(cfg, server)
        BY <2>2, <3>1, <4>2 DEF AllThrough, CanariesPassed, Servers
      <4>4. PhaseOK(cfg, server, phase', current') /\ GateOK(cfg, server, phase', gate')
        BY <1>1, <4>1, Types DEF PhaseOK, GateOK
      <4> QED BY <1>1, <3>1, <4>1, <4>3, <4>4, Types, ControlInv DEF Phases
    <3> QED BY <3>3, <3>4
  <2> QED BY <2>3, <2>4
<1> QED BY <1>4, <1>5 DEF CanaryDone

\* A wave is through.
LEMMA WaveDoneInv ==
    ASSUME Inv, WaveDone
    PROVE  Inv'
<1> DEFINE CC == CanaryCount(cfg.strategy)
<1> DEFINE L == Len(Waves(cfg.strategy))
<1>0. CC \in 1..N /\ N \in Nat /\ cfg.strategy \in StrategyOK
  BY ConfigOK DEF Servers
<1>1. phase = "waves" /\ (\A i \in Wave(current) : server[i].done)
      /\ UNCHANGED <<cfg, gate, jobID, server, job, rows, stages>>
  BY DEF WaveDone, records
<1>2. /\ CC < N /\ CanariesPassed(cfg, server, CC) /\ current \in 1..L
      /\ \A w \in 1..(current - 1) : WavePassed(cfg, server, w)
      /\ \A i \in Servers : server[i].stage <= current
  BY <1>1, Types DEF PhaseOK
<1>3. L \in 1..N /\ \A i \in Servers : i > CC => StageOf(cfg.strategy, i) \in 1..L
  BY <1>0, <1>2, WavesAre
<1>4. CASE Fail /\ UNCHANGED current
  BY <1>1, <1>4, Types, FailInv
<1>5. CASE /\ ~Tripped(current) /\ UNCHANGED ok
           /\ IF current < L
              THEN current' = current + 1 /\ UNCHANGED <<phase, asked, polls>>
              ELSE Goto("finalize") /\ UNCHANGED current
  <2>1. /\ Wave(current) = WaveServers(cfg, current)
        /\ Failures(current) = Cardinality(WaveFailed(cfg, server, current))
    BY <1>2, WaveIs
  <2>2. WavePassed(cfg, server, current)
    <3> DEFINE a == Cardinality(WaveFailed(cfg, server, current))
    <3> DEFINE b == Cardinality(WaveServers(cfg, current))
    <3>1. a \in Nat /\ b \in Nat /\ cfg.strategy.failure_threshold \in Int
      BY <1>0, WaveCounts DEF StrategyOK, StrategyDefs
    <3>2. ~(a * 100 > cfg.strategy.failure_threshold * b)
      BY <1>5, <2>1 DEF Tripped
    <3> HIDE DEF a, b
    <3>3. a * 100 <= cfg.strategy.failure_threshold * b
      BY <3>1, <3>2
    <3> QED BY <1>1, <2>1, <3>3 DEF WavePassed, a, b
  <2>3. \A w \in 1..current : WavePassed(cfg, server, w)
    <3>1. \A w \in 1..current : w = current \/ w \in 1..(current - 1)
      BY <1>2, <1>3
    <3> QED BY <1>2, <2>2, <3>1
  <2>4. CASE current < L
    <3>1. UNCHANGED <<phase, asked, polls, ok>> /\ current' = current + 1
      BY <1>5, <2>4
    <3>2. current' \in 1..L /\ current' - 1 = current /\ current' \in 1..N + 1
      BY <1>0, <1>2, <1>3, <2>4, <3>1
    <3>3. \A i \in Servers : server[i].stage <= current'
      <4>1. \A i \in Servers : server[i].stage \in Int
        BY ServerRecord
      <4> QED BY <1>2, <1>3, <3>1, <4>1
    <3>4. PhaseOK(cfg, server, phase', current')
      BY <1>1, <1>2, <2>3, <3>1, <3>2, <3>3 DEF PhaseOK
    <3>5. GateOK(cfg, server, phase', gate')
      BY <1>1, <3>1, Types
    <3> QED BY <1>1, <3>1, <3>2, <3>4, <3>5, Types, ControlInv
  <2>5. CASE ~(current < L)
    <3>1. phase' = "finalize" /\ asked' = FALSE /\ polls' = 0 /\ UNCHANGED <<current, ok>>
      BY <1>5, <2>5 DEF Goto
    <3>2. current = L
      BY <1>2, <1>3, <2>5
    <3>3. ASSUME NEW i \in Servers
          PROVE  server[i].done
      <4>1. CASE i <= CC
        <5>1. i \in 1..CC
          BY <1>0, <4>1 DEF Servers
        <5> QED BY <1>2, <5>1 DEF CanariesPassed
      <4>2. CASE i > CC
        <5>1. WavePassed(cfg, server, StageOf(cfg.strategy, i))
          BY <1>3, <2>3, <3>2, <4>2
        <5>2. i \in WaveServers(cfg, StageOf(cfg.strategy, i))
          BY DEF WaveServers
        <5> QED BY <5>1, <5>2 DEF WavePassed
      <4> QED BY <1>0, <4>1, <4>2 DEF Servers
    <3>4. AllThrough(cfg, server)
      BY <1>2, <3>3 DEF AllThrough
    <3>5. PhaseOK(cfg, server, phase', current') /\ GateOK(cfg, server, phase', gate')
      BY <1>1, <3>1, Types DEF PhaseOK, GateOK
    <3> QED BY <1>1, <3>1, <3>4, <3>5, Types, ControlInv DEF Phases
  <2> QED BY <2>4, <2>5
<1> QED BY <1>4, <1>5 DEF WaveDone

\* finalizeJob.
LEMMA FinalizeInv ==
    ASSUME Inv, Finalize
    PROVE  Inv'
<1>1. phase = "finalize" /\ phase' = "done"
      /\ UNCHANGED <<cfg, asked, polls, gate, jobID, current, server, ok, rows, stages>>
  BY DEF Finalize
<1>2. job' = job \/ (job' = IF ok THEN "completed" ELSE "failed")
  BY DEF Finalize
<1>3. ok => AllThrough(cfg, server)
  BY <1>1 DEF Inv
<1>4. job # "completed"
  BY <1>1, Types
<1> QED BY <1>1, <1>2, <1>3, <1>4, Types, EndInv

\* The process is killed.
LEMMA KilledInv ==
    ASSUME Inv, Killed
    PROVE  Inv'
<1>1. phase # "done" /\ phase' = "exited" /\ asked' = FALSE /\ polls' = 0
      /\ UNCHANGED <<cfg, gate, jobID, current, server, ok, job, rows, stages>>
  BY DEF Killed, Goto, records
<1> QED BY <1>1, Types, EndInv

-----------------------------------------------------------------------------
(* The invariant holds. *)

\* The invariant holds when the process starts: no server was touched.
LEMMA InitInv ==
    ASSUME Init
    PROVE  Inv
<1>1. PICK st \in Strategies, steps \in StepLists, audit \in BOOLEAN :
        cfg = [strategy |-> Defaults(st), steps |-> steps, audit |-> audit]
  BY DEF Init
<1>2. /\ phase = "preflight" /\ asked = FALSE /\ polls = 0 /\ jobID = FALSE /\ current = 1 /\ ok = TRUE
      /\ job = "none" /\ gate = [g \in Gates |-> "none"]
      /\ server = [i \in Servers |-> NotStarted]
      /\ rows = [i \in Servers |-> "none"] /\ stages = [i \in Servers |-> -1]
  BY DEF Init
<1>3. N \in Nat \ {0} /\ MaxPolls \in Nat
  BY ConstantsAssumption
<1>4. NotStarted \in ServerStates
  <2>1. -1 \in -1..N /\ <<>> \in Seq(callGatewayTool) /\ FALSE \in BOOLEAN
    BY <1>3
  <2> QED BY <2>1 DEF NotStarted, ServerStates
<1>5. cfg \in [strategy : {Defaults(x) : x \in Strategies}, steps : StepLists, audit : BOOLEAN]
  BY <1>1
<1>6. TypeOK
  <2>1. 0 \in 0..MaxPolls /\ 1 \in 1..N + 1 /\ 1 \in Servers /\ -1 \in -1..N
    BY <1>3 DEF Servers
  <2>2. polls \in 0..MaxPolls /\ current \in 1..N + 1 /\ current \in Servers
    BY <1>2, <2>1
  <2>3. /\ gate \in [Gates -> ApprovalStatuses] /\ server \in [Servers -> ServerStates]
        /\ rows \in [Servers -> RowStatuses] /\ stages \in [Servers -> -1..N]
    BY <1>2, <1>4, <2>1 DEF ApprovalStatuses, RowStatuses
  <2>4. /\ phase \in Phases /\ asked \in BOOLEAN /\ jobID \in BOOLEAN /\ ok \in BOOLEAN
        /\ job \in {"none", "running", "completed", "failed"}
    BY <1>2 DEF Phases
  <2> QED BY <1>5, <2>2, <2>3, <2>4 DEF TypeOK
<1>7. cfg.steps \in Seq(StepDefs)
  BY <1>1, ConstantsAssumption
<1>8. ErrorsOf(NotStarted) = {} /\ ~StoppedOf(cfg, NotStarted)
  BY DEF ErrorsOf, StoppedOf, NotStarted
<1>9. \A i \in Servers : server[i] = NotStarted /\ server[i].stage = -1 /\ rows[i] = "none" /\ stages[i] = -1
  BY <1>2 DEF NotStarted
<1>10. Len(NotStarted.results) <= Len(cfg.steps) /\ ~NotStarted.done /\ NotStarted.stage = -1
  <2>1. Len(cfg.steps) \in Nat
    BY <1>7
  <2>2. NotStarted.results = <<>> /\ NotStarted.done = FALSE /\ NotStarted.stage = -1
    BY DEF NotStarted
  <2> QED BY <2>1, <2>2
<1>11. \A i \in Servers : ServerOK(cfg, server[i], i)
  BY <1>4, <1>8, <1>9, <1>10 DEF ServerOK
<1>12. \A i \in Servers : RowOK(cfg, server[i], rows[i])
  BY <1>9 DEF RowOK
<1>13. Shielded(cfg, server)
  BY <1>9 DEF Shielded
<1>14. PhaseOK(cfg, server, phase, current)
  BY <1>2, <1>9 DEF PhaseOK
<1>15. GateOK(cfg, server, phase, gate)
  BY <1>2, <1>9 DEF GateOK
<1> QED BY <1>2, <1>6, <1>9, <1>11, <1>12, <1>13, <1>14, <1>15 DEF Inv

\* A step keeps the invariant.
LEMMA NextInv ==
    ASSUME Inv, [Next]_vars
    PROVE  Inv'
<1>1. CASE UNCHANGED vars
  BY <1>1 DEF vars, Inv, TypeOK
<1>2. ASSUME NEW g \in Gates, PassGate(g) PROVE Inv'
  <2>1. phase = g /\ ~Required(g) /\ GateOpened(g) /\ UNCHANGED <<cfg, gate, jobID, server, records>>
    BY <1>2 DEF PassGate
  <2> QED BY <2>1, GateOpenedInv
<1>3. ASSUME requestFleetJobApproval \/ requestWaveGateApproval PROVE Inv'
  BY <1>3, RequestApprovalInv DEF requestFleetJobApproval, requestWaveGateApproval, Gates
<1>4. CASE Runner
  BY <1>2, <1>3, <1>4, PreflightInv, SubmitInv, CanaryDoneInv, WaveDoneInv, FinalizeInv, PollInv,
     StartServerInv, CallToolInv, FinishServerInv DEF Runner
<1> QED BY <1>1, <1>4, KilledInv, ResolveInv DEF Next

\* The invariant holds in every state of every run.
THEOREM Invariance == Spec => []Inv
<1> QED BY InitInv, NextInv, PTL DEF Spec

-----------------------------------------------------------------------------
(* The properties. *)

\* Every variable keeps its type: no index of runStages runs past the servers.
THEOREM TypeCorrect == Spec => []TypeOK
<1>1. Inv => TypeOK
  BY DEF Inv
<1> QED BY <1>1, Invariance, PTL

\* No server is touched before the approvals it needs.
LEMMA GatesHoldInv ==
    ASSUME Inv
    PROVE  GatesHold
<1> SUFFICES ASSUME NEW i \in Servers, Started(i), cfg.audit
    PROVE /\ (\E k \in 1..Len(cfg.steps) : cfg.steps[k].class \in {"write", "destructive", "escalation"})
               => gate["job"] = "approved"
          /\ cfg.strategy.wave_gate /\ server[i].stage # 0 => gate["wave"] = "approved"
  BY DEF GatesHold
<1>1. GateOK(cfg, server, phase, gate)
  BY DEF Inv
<1>2. server[i].stage # -1 /\ server[i].stage \in -1..N
  BY ServerRecord DEF Started, Inv, ServerOK, ServerStates
<1>3. server[i].stage # 0 => server[i].stage > 0
  BY <1>2, ConfigOK
<1> QED BY <1>1, <1>2, <1>3 DEF GateOK, NeedsJobGate, NeedsWaveGate

\* With auditd, no tool is called on a server before the job's approval, and on none
\* outside the canary stage before the wave gate's (runStages' gates).
THEOREM Gated == Spec => []GatesHold
<1> QED BY GatesHoldInv, Invariance, PTL

\* A server that is through and did not fail went through all its steps, and without an
\* error when partial success does not count.
LEMMA PassedIs ==
    ASSUME NEW c, NEW s, NEW i, ServerOK(c, s, i), s.done, ~FailureOf(c, s)
    PROVE  /\ Len(s.results) = Len(c.steps)
           /\ ~c.strategy.count_partial_as_success =>
                \A k \in 1..Len(c.steps) : s.results[k] = "ok"
<1>1. Len(s.results) = Len(c.steps)
  BY DEF ServerOK, FailureOf
<1>2. s.results \in Seq(callGatewayTool)
  BY DEF ServerOK, ServerStates
<1>3. ASSUME ~c.strategy.count_partial_as_success, NEW k \in 1..Len(c.steps)
      PROVE  s.results[k] = "ok"
  <2>1. s.results[k] \in {"ok", "error"}
    BY <1>1, <1>2 DEF callGatewayTool
  <2>2. ErrorsOf(s) = {}
    BY <1>3 DEF FailureOf
  <2> QED BY <1>1, <2>1, <2>2 DEF ErrorsOf
<1> QED BY <1>1, <1>3

\* The canaries went through before any other server was touched.
LEMMA CanariesShieldInv ==
    ASSUME Inv
    PROVE  CanariesShield
<1> SUFFICES ASSUME NEW i \in Servers, NEW j \in Servers, server[i].stage > 0,
                    j <= cfg.strategy.canary_count
    PROVE /\ server[j].stage = 0 /\ server[j].done
          /\ Len(server[j].results) = Len(cfg.steps)
          /\ ~cfg.strategy.count_partial_as_success =>
               \A k \in 1..Len(cfg.steps) : server[j].results[k] = "ok"
  BY DEF CanariesShield
<1>1. CanariesPassed(cfg, server, CanaryCount(cfg.strategy))
  BY DEF Inv, Shielded
<1>2. j <= CanaryCount(cfg.strategy)
  BY ConfigOK, CanaryCountType
<1>3. j \in 1..CanaryCount(cfg.strategy)
  BY <1>2, ConfigOK DEF Servers
<1>4. server[j].done /\ ~FailureOf(cfg, server[j])
  BY <1>1, <1>3 DEF CanariesPassed
<1>5. ServerOK(cfg, server[j], j)
  BY DEF Inv
<1>6. server[j].stage = StageOf(cfg.strategy, j)
  BY <1>4, <1>5 DEF ServerOK
<1>7. server[j].stage = 0
  BY <1>2, <1>6, ConfigOK, StageOfIs
<1> QED BY <1>4, <1>5, <1>7, PassedIs

\* A server outside the canary stage is touched only after every canary went through all
\* its steps without an error that counts (runStages' canary phase).
THEOREM Shields == Spec => []CanariesShield
<1> QED BY CanariesShieldInv, Invariance, PTL

\* Every wave before a server's own passed the breaker.
LEMMA BreakerHoldsInv ==
    ASSUME Inv
    PROVE  BreakerHolds
<1> SUFFICES ASSUME NEW i \in Servers, NEW w \in 1..(server[i].stage - 1)
    PROVE LET earlier == {j \in Servers : server[j].stage = w}
              failed == {j \in earlier : isServerFailure(j)}
          IN  /\ earlier # {} /\ \A j \in earlier : server[j].done
              /\ Cardinality(failed) * 100 <= cfg.strategy.failure_threshold * Cardinality(earlier)
  BY DEF BreakerHolds
<1> DEFINE earlier == {j \in Servers : server[j].stage = w}
<1> DEFINE failed == {j \in earlier : isServerFailure(j)}
<1>1. \A j \in Servers : ServerOK(cfg, server[j], j) /\ server[j].stage \in -1..N
  BY DEF Inv, ServerOK, ServerStates
<1>2. N \in Nat /\ server[i].stage > 0 /\ w \in Nat \ {0} /\ w < server[i].stage /\ server[i].stage # -1
  BY <1>1, ConfigOK
<1>3. WavePassed(cfg, server, w)
  BY <1>2 DEF Inv, Shielded
<1>4. server[i].stage = StageOf(cfg.strategy, i)
  BY <1>1, <1>2 DEF ServerOK
<1>5. i > CanaryCount(cfg.strategy) /\ CanaryCount(cfg.strategy) < N
  <2>1. i <= CanaryCount(cfg.strategy) => StageOf(cfg.strategy, i) = 0
    BY ConfigOK, StageOfIs
  <2> QED BY <1>2, <1>4, <2>1, ConfigOK DEF Servers
<1>6. w \in 1..Len(Waves(cfg.strategy)) /\ WaveServers(cfg, w) # {}
  <2>1. server[i].stage \in 1..Len(Waves(cfg.strategy)) /\ Len(Waves(cfg.strategy)) \in 1..N
    BY <1>4, <1>5, ConfigOK, WavesAre
  <2>2. w \in 1..Len(Waves(cfg.strategy))
    BY <1>2, <2>1
  <2> QED BY <1>5, <2>2, WaveIs
<1>7. earlier = WaveServers(cfg, w)
  <2>1. ASSUME NEW j \in Servers PROVE server[j].stage = w <=> StageOf(cfg.strategy, j) = w
    <3>1. server[j].stage = w => server[j].stage # -1
      BY <1>2
    <3>2. StageOf(cfg.strategy, j) = w => server[j].stage # -1
      BY <1>1, <1>3 DEF WavePassed, WaveServers, ServerOK
    <3> QED BY <1>1, <3>1, <3>2 DEF ServerOK
  <2> QED BY <2>1 DEF WaveServers
<1>8. failed = WaveFailed(cfg, server, w)
  BY <1>7, FailureIs DEF WaveFailed, WaveServers
<1>9. earlier # {} /\ \A j \in earlier : server[j].done
  BY <1>3, <1>6, <1>7 DEF WavePassed
<1>10. Cardinality(failed) * 100 <= cfg.strategy.failure_threshold * Cardinality(earlier)
  BY <1>3, <1>7, <1>8 DEF WavePassed
<1> QED BY <1>9, <1>10

\* A wave is started only when in every earlier wave all servers are through and the share
\* that failed is within the threshold (runStages' wg.Wait and circuit breaker).
THEOREM Breaker == Spec => []BreakerHolds
<1> QED BY BreakerHoldsInv, Invariance, PTL

\* The tables follow the servers.
LEMMA RecordsHonestInv ==
    ASSUME Inv
    PROVE  RecordsHonest
<1>1. ASSUME NEW i \in Servers
      PROVE  /\ rows[i] \in {"success", "partial"} => Len(server[i].results) = Len(cfg.steps)
             /\ rows[i] = "success" => Errors(i) = {}
             /\ rows[i] = "partial" => Errors(i) # {} /\ ~Stopped(i)
             /\ rows[i] = "failed" => Stopped(i)
             /\ Started(i) /\ stages[i] # -1 => server[i].stage = stages[i]
  <2>1. ServerOK(cfg, server[i], i) /\ RowOK(cfg, server[i], rows[i])
        /\ (stages[i] # -1 => stages[i] = StageOf(cfg.strategy, i))
    BY DEF Inv
  <2> QED BY <2>1, FailureIs DEF ServerOK, RowOK, Started
<1>2. ASSUME job = "completed", NEW i \in Servers
      PROVE  server[i].done /\ (server[i].stage = 0 => ~isServerFailure(i))
  <2>1. AllThrough(cfg, server) /\ ServerOK(cfg, server[i], i)
    BY <1>2 DEF Inv
  <2>2. ASSUME server[i].stage = 0 PROVE i \in 1..CanaryCount(cfg.strategy)
    <3>1. StageOf(cfg.strategy, i) = 0
      BY <2>1, <2>2 DEF ServerOK
    <3>2. ~(i > CanaryCount(cfg.strategy))
      BY <3>1, ConfigOK, StageOfIs
    <3> QED BY <3>2, ConfigOK DEF Servers
  <2> QED BY <2>1, <2>2, FailureIs DEF AllThrough, CanariesPassed
<1> QED BY <1>1, <1>2 DEF RecordsHonest

\* What auditd shows never claims more than happened, and the stage stored with a server is
\* the one it was run in (executeSteps, finalizeJob, buildStageAssignments).
THEOREM Honest == Spec => []RecordsHonest
<1> QED BY RecordsHonestInv, Invariance, PTL
=============================================================================

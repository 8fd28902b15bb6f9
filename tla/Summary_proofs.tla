--------------------------- MODULE Summary_proofs ---------------------------
(***************************************************************************)
(* Proofs about the metrics of a run on the k6-operator backend, for every *)
(* number of pods, every log, every limit of lines and every summary.      *)
(*                                                                         *)
(* The scan, the balance of braces and the sums are recursive functions.   *)
(* f[n \in S] == e stands for CHOOSE f : f = [n \in S |-> e], so that what *)
(* such a definition computes follows once there is such an f; that, and   *)
(* what it computes, is shown by Induction.                                *)
(***************************************************************************)
EXTENDS Summary, SequenceTheorems, WellFoundedInduction, TLAPS

-----------------------------------------------------------------------------
(* Induction, on a set of numbers.                                         *)

LEMMA Smallest ==
  ASSUME NEW S \in SUBSET Nat, S # {}
  PROVE  \E n \in S : \A m \in S : n <= m
<1> DEFINE R == OpToRel(<, Nat)
<1>1. \A m, n \in Nat : m < n => <<m, n>> \in R
  BY DEF OpToRel
<1>2. IsWellFoundedOn(R, Nat)
  BY NatLessThanWellFounded
<1> HIDE DEF R
<1>3. PICK n \in S : \A m \in S : ~(<<m, n>> \in R)
  BY <1>2, WFMin
<1>4. ASSUME NEW m \in S PROVE n <= m
  <2>1. m \in Nat /\ n \in Nat
    OBVIOUS
  <2>2. ~(m < n)
    BY <1>1, <1>3, <2>1
  <2> QED BY <2>1, <2>2
<1> QED BY <1>4

LEMMA Induction ==
  ASSUME NEW N \in Nat, NEW S,
         0 \in S, \A n \in 0 .. N - 1 : n \in S => n + 1 \in S
  PROVE  \A n \in 0 .. N : n \in S
<1> DEFINE Out == {n \in 0 .. N : n \notin S}
<1> SUFFICES ASSUME Out # {}
             PROVE  FALSE
  OBVIOUS
<1>1. PICK k \in Out : \A m \in Out : k <= m
  <2>1. Out \in SUBSET Nat
    OBVIOUS
  <2> HIDE DEF Out
  <2> QED BY <2>1, Smallest
<1>2. k # 0 /\ k - 1 \in 0 .. N - 1 /\ k - 1 \notin Out
  BY <1>1
<1>3. k - 1 \in S
  BY <1>2
<1> QED BY <1>1, <1>2, <1>3

-----------------------------------------------------------------------------
(* Sums.                                                                   *)

IsSum(f, terms, N) ==
  f = [n \in 0 .. N |-> IF n = 0 THEN 0 ELSE f[n - 1] + terms[n]]

LEMMA SumExists ==
  ASSUME NEW terms, NEW N \in Nat
  PROVE  \E f : IsSum(f, terms, N)
<1> DEFINE S == {n \in Nat : \E f : IsSum(f, terms, n)}
<1>1. 0 \in S
  <2>1. IsSum([n \in 0 .. 0 |-> 0], terms, 0)
    BY DEF IsSum
  <2> QED BY <2>1
<1>2. ASSUME NEW n \in 0 .. N - 1, n \in S PROVE n + 1 \in S
  <2>1. PICK f : IsSum(f, terms, n)
    BY <1>2
  <2> DEFINE g == [i \in 0 .. n + 1 |-> IF i = n + 1 THEN f[n] + terms[n + 1] ELSE f[i]]
  <2>2. IsSum(g, terms, n + 1)
    BY <2>1 DEF IsSum
  <2> QED BY <2>2
<1>3. \A n \in 0 .. N : n \in S
  <2> HIDE DEF S
  <2> QED BY <1>1, <1>2, Induction
<1> QED BY <1>3

\* The sums of the first terms, of which Sum is the last.
LEMMA SumUnfolds ==
  ASSUME NEW terms \in Seq(Nat)
  PROVE  \E f : /\ IsSum(f, terms, Len(terms))
                /\ f \in [0 .. Len(terms) -> Nat]
                /\ Sum(terms) = f[Len(terms)]
<1> DEFINE L == Len(terms)
           f == CHOOSE sum : IsSum(sum, terms, L)
<1>0. L \in Nat /\ \A n \in 0 .. L - 1 : terms[n + 1] \in Nat
  OBVIOUS
<1>1. IsSum(f, terms, L)
  BY <1>0, SumExists
<1>2. Sum(terms) = f[L]
  BY DEF Sum, IsSum
<1> HIDE DEF f, L
<1> DEFINE S == {n \in 0 .. L : f[n] \in Nat}
<1>3. 0 \in S
  BY <1>0, <1>1 DEF IsSum
<1>4. ASSUME NEW n \in 0 .. L - 1, n \in S PROVE n + 1 \in S
  BY <1>0, <1>1, <1>4 DEF IsSum
<1>5. \A n \in 0 .. L : n \in S
  <2> HIDE DEF S
  <2> QED BY <1>0, <1>3, <1>4, Induction
<1>6. f \in [0 .. L -> Nat]
  BY <1>0, <1>1, <1>5 DEF IsSum
<1> QED BY <1>1, <1>2, <1>6 DEF L

\* A sum is no less than a term.
LEMMA SumOfNaturals ==
  ASSUME NEW terms \in Seq(Nat)
  PROVE  /\ Sum(terms) \in Nat
         /\ \A k \in 1 .. Len(terms) : terms[k] <= Sum(terms)
<1> DEFINE L == Len(terms)
<1>0. L \in Nat /\ \A n \in 1 .. L : terms[n] \in Nat
  OBVIOUS
<1>1. PICK f : IsSum(f, terms, L) /\ f \in [0 .. L -> Nat] /\ Sum(terms) = f[L]
  BY SumUnfolds
<1> HIDE DEF L
<1> DEFINE S == {n \in 0 .. L : \A k \in 1 .. n : terms[k] <= f[n]}
<1>2. 0 \in S
  BY <1>0
<1>3. ASSUME NEW n \in 0 .. L - 1, n \in S PROVE n + 1 \in S
  <2>1. f[n + 1] = f[n] + terms[n + 1] /\ f[n] \in Nat /\ terms[n + 1] \in Nat
    BY <1>0, <1>1 DEF IsSum
  <2>2. ASSUME NEW k \in 1 .. n + 1 PROVE terms[k] <= f[n + 1]
    <3>1. CASE k = n + 1
      BY <2>1, <3>1
    <3>2. CASE k # n + 1
      <4>1. k \in 1 .. n /\ terms[k] \in Nat /\ terms[k] <= f[n]
        BY <1>0, <1>3, <2>2, <3>2
      <4> QED BY <2>1, <4>1
    <3> QED BY <3>1, <3>2
  <2> QED BY <1>0, <2>2
<1>4. \A n \in 0 .. L : n \in S
  <2> HIDE DEF S
  <2> QED BY <1>0, <1>2, <1>3, Induction
<1> QED BY <1>0, <1>1, <1>4 DEF L

LEMMA Distributes ==
  ASSUME NEW a \in Nat, NEW b \in Nat, NEW c \in Nat
  PROVE  a * (b + c) = a * b + a * c /\ a * b \in Nat /\ a * c \in Nat
OBVIOUS

\* Terms that are each at least, or at most, a times those of another sum.
LEMMA SumsCompare ==
  ASSUME NEW t \in Seq(Nat), NEW u \in Seq(Nat), Len(t) = Len(u), NEW a \in Nat
  PROVE  /\ (\A k \in 1 .. Len(t) : t[k] >= a * u[k]) => Sum(t) >= a * Sum(u)
         /\ (\A k \in 1 .. Len(t) : t[k] <= a * u[k]) => Sum(t) <= a * Sum(u)
<1> DEFINE L == Len(t)
<1>0. L \in Nat /\ \A n \in 1 .. L : t[n] \in Nat /\ u[n] \in Nat
  OBVIOUS
<1>1. PICK f : IsSum(f, t, L) /\ f \in [0 .. L -> Nat] /\ Sum(t) = f[L]
  BY SumUnfolds
<1>2. PICK g : IsSum(g, u, L) /\ g \in [0 .. L -> Nat] /\ Sum(u) = g[L]
  BY SumUnfolds
<1> HIDE DEF L
<1> DEFINE S == {n \in 0 .. L : /\ (\A k \in 1 .. L : t[k] >= a * u[k]) => f[n] >= a * g[n]
                                /\ (\A k \in 1 .. L : t[k] <= a * u[k]) => f[n] <= a * g[n]}
<1>3. 0 \in S
  <2>1. f[0] = 0 /\ g[0] = 0
    BY <1>0, <1>1, <1>2 DEF IsSum
  <2> QED BY <1>0, <2>1
<1>4. ASSUME NEW n \in 0 .. L - 1, n \in S PROVE n + 1 \in S
  <2>1. /\ f[n + 1] = f[n] + t[n + 1] /\ f[n] \in Nat /\ t[n + 1] \in Nat
        /\ g[n + 1] = g[n] + u[n + 1] /\ g[n] \in Nat /\ u[n + 1] \in Nat
    BY <1>0, <1>1, <1>2 DEF IsSum
  <2>2. a * g[n + 1] = a * g[n] + a * u[n + 1] /\ a * g[n] \in Nat /\ a * u[n + 1] \in Nat
    <3>1. \A x, y, z \in Nat : z = x + y => /\ a * z = a * x + a * y
                                           /\ a * x \in Nat /\ a * y \in Nat
      BY Distributes
    <3> DEFINE x == g[n]
               y == u[n + 1]
               z == g[n + 1]
    <3>2. x \in Nat /\ y \in Nat /\ z \in Nat /\ z = x + y
      BY <2>1
    <3> HIDE DEF x, y, z
    <3>3. a * z = a * x + a * y /\ a * x \in Nat /\ a * y \in Nat
      BY <3>1, <3>2
    <3> QED BY <3>3 DEF x, y, z
  <2>3. n + 1 \in 1 .. L
    BY <1>0
  <2> DEFINE b == a * g[n]
             c == a * u[n + 1]
             d == a * g[n + 1]
  <2>4. d = b + c /\ b \in Nat /\ c \in Nat
    BY <2>2
  <2>5. ASSUME \A k \in 1 .. L : t[k] >= a * u[k] PROVE f[n + 1] >= d
    <3>1. t[n + 1] >= c /\ f[n] >= b
      BY <1>4, <2>3, <2>5
    <3> HIDE DEF b, c, d
    <3> QED BY <2>1, <2>4, <3>1
  <2>6. ASSUME \A k \in 1 .. L : t[k] <= a * u[k] PROVE f[n + 1] <= d
    <3>1. t[n + 1] <= c /\ f[n] <= b
      BY <1>4, <2>3, <2>6
    <3> HIDE DEF b, c, d
    <3> QED BY <2>1, <2>4, <3>1
  <2> QED BY <1>0, <2>5, <2>6
<1>5. \A n \in 0 .. L : n \in S
  <2> HIDE DEF S
  <2> QED BY <1>0, <1>3, <1>4, Induction
<1> QED BY <1>0, <1>1, <1>2, <1>5 DEF L

-----------------------------------------------------------------------------
(* The aggregates.                                                         *)

Fields == {"count", "rate", "failed", "failedCount", "p50", "p95"}

\* What is extracted from a summary that a runner may write.
Metrics ==
  { m \in [count : Nat, rate : Nat, failed : Nat, failedCount : Nat, p50 : Nat, p95 : Nat] :
      /\ m.failedCount = m.failed * m.count
      /\ m.count > 0 => m.rate > 0 }

LEMMA ExtractedMetrics ==
  ASSUME NEW s \in Summaries
  PROVE  ExtractMetrics(s) \in Metrics
<1>1. /\ s.count \in Nat \cup {NoKey} /\ s.rate \in Nat \cup {NoKey}
      /\ s.failed \in 0 .. 100 \cup {NoKey} /\ s.med \in Nat \cup {NoKey}
      /\ s.p50 \in Nat \cup {NoKey} /\ s.p95 \in Nat \cup {NoKey}
      /\ s.count > 0 => s.rate > 0
  BY SummariesAssumption DEF SummaryType
<1> DEFINE c == Value(s.count)
           r == Value(s.rate)
           d == Value(s.failed)
           p == IF s.med # NoKey THEN s.med ELSE Value(s.p50)
           q == Value(s.p95)
<1>2. c \in Nat /\ r \in Nat /\ d \in Nat /\ p \in Nat /\ q \in Nat /\ (c > 0 => r > 0)
  BY <1>1 DEF Value, NoKey
<1>3. ExtractMetrics(s) =
        [count |-> c, rate |-> r, failed |-> d, failedCount |-> d * c, p50 |-> p, p95 |-> q]
  BY DEF ExtractMetrics
<1> HIDE DEF c, r, d, p, q
<1>4. d * c \in Nat
  BY <1>2, Distributes
<1> QED BY <1>2, <1>3, <1>4 DEF Metrics

\* All metrics collected are such.
CollectedInv == written \in Summaries /\ collected \in Seq(Metrics)

LEMMA LogSpecCollectedInv == LogSpec => []CollectedInv
<1>1. LogInit => CollectedInv
  BY DEF LogInit, CollectedInv
<1>2. CollectedInv /\ [LogNext]_logVars => CollectedInv'
  <2> SUFFICES ASSUME CollectedInv, [LogNext]_logVars PROVE CollectedInv'
    OBVIOUS
  <2>1. \/ UNCHANGED <<written, collected>>
        \/ ParseSummary \/ ReadFails
    BY DEF LogNext, logVars, runnerVars, readerVars, ScriptWrites, SummaryStarts, SummaryWrites,
           RestWrites, RunnerEnds, ReadPodLogs
  <2>2. written' \in Summaries
    BY <2>1 DEF CollectedInv, ParseSummary, ReadFails, NextPod
  <2>3. collected' \in Seq(Metrics)
    <3>1. collected' = collected \/ collected' = Append(collected, ExtractMetrics(written))
      BY <2>1 DEF ParseSummary, ReadFails, NextPod
    <3>2. ExtractMetrics(written) \in Metrics
      BY ExtractedMetrics DEF CollectedInv
    <3> QED BY <3>1, <3>2 DEF CollectedInv
  <2> QED BY <2>2, <2>3 DEF CollectedInv
<1> QED BY <1>1, <1>2, PTL DEF LogSpec

\* A total is the sum of natural numbers, one for each pod.
LEMMA TotalOfPods ==
  ASSUME NEW ms \in Seq(Metrics), NEW field \in Fields
  PROVE  LET terms == [n \in DOMAIN ms |-> ms[n][field]]
         IN  /\ terms \in Seq(Nat) /\ Len(terms) = Len(ms)
             /\ Total(ms, field) = Sum(terms) /\ Total(ms, field) \in Nat
             /\ \A n \in 1 .. Len(ms) : ms[n][field] <= Total(ms, field)
<1> DEFINE L == Len(ms)
           terms == [n \in DOMAIN ms |-> ms[n][field]]
<1>1. L \in Nat /\ DOMAIN ms = 1 .. L /\ \A n \in 1 .. L : ms[n] \in Metrics
  OBVIOUS
<1>2. \A n \in 1 .. L : ms[n][field] \in Nat
  BY <1>1 DEF Metrics, Fields
<1>3. terms = [n \in 1 .. L |-> ms[n][field]]
  BY <1>1
<1> HIDE DEF terms, L
<1>4. terms \in Seq(Nat) /\ Len(terms) = L
  BY <1>1, <1>2, <1>3
<1>5. Total(ms, field) = Sum(terms)
  BY DEF Total, terms
<1>6. \A n \in 1 .. L : terms[n] = ms[n][field]
  BY <1>3
<1> QED BY <1>4, <1>5, <1>6, SumOfNaturals DEF terms, L

LEMMA Largest ==
  ASSUME NEW S \in SUBSET Nat, S # {}, NEW N \in Nat, \A n \in S : n <= N
  PROVE  \E n \in S : \A m \in S : m <= n
<1> DEFINE T == {N - n : n \in S}
<1>1. T \in SUBSET Nat /\ T # {}
  <2>1. \A n \in S : N - n \in Nat
    OBVIOUS
  <2> QED BY <2>1
<1>2. PICK d \in T : \A e \in T : d <= e
  <2> HIDE DEF T
  <2> QED BY <1>1, Smallest
<1>3. PICK n \in S : d = N - n
  OBVIOUS
<1>4. ASSUME NEW m \in S PROVE m <= n
  <2>1. m \in Nat /\ n \in Nat /\ N - m \in T
    OBVIOUS
  <2>2. N - n <= N - m
    BY <1>2, <1>3, <2>1
  <2> QED BY <2>1, <2>2
<1> QED BY <1>4

LEMMA ProductsCompare ==
  ASSUME NEW a \in Nat, NEW b \in Nat, NEW c \in Nat, a <= b
  PROVE  a * c <= b * c
<1>1. PICK d \in Nat : b = a + d
  <2>1. b - a \in Nat /\ b = a + (b - a)
    OBVIOUS
  <2> QED BY <2>1
<1>2. (a + d) * c = a * c + d * c /\ a * c \in Nat /\ d * c \in Nat
  OBVIOUS
<1> QED BY <1>1, <1>2

(***************************************************************************)
(* The values of a field, weighted by the requests, are together no less   *)
(* than the least value of a pod with requests for all of them, and no     *)
(* more than the greatest. Pods without requests weigh nothing.            *)
(***************************************************************************)
LEMMA WeightedIsBetween ==
  ASSUME NEW ms \in Seq(Metrics), NEW field \in Fields, NEW terms \in Seq(Nat),
         Len(terms) = Len(ms),
         \A n \in 1 .. Len(ms) : terms[n] = ms[n][field] * ms[n].count,
         \E n \in 1 .. Len(ms) : ms[n].count > 0
  PROVE  /\ \E n \in 1 .. Len(ms) :
              ms[n].count > 0 /\ Sum(terms) >= ms[n][field] * Total(ms, "count")
         /\ \E n \in 1 .. Len(ms) :
              ms[n].count > 0 /\ Sum(terms) <= ms[n][field] * Total(ms, "count")
<1> DEFINE L == Len(ms)
           served == {n \in 1 .. L : ms[n].count > 0}
           values == {ms[n][field] : n \in served}
           counts == [n \in DOMAIN ms |-> ms[n]["count"]]
<1>1. L \in Nat /\ \A n \in 1 .. L : ms[n][field] \in Nat /\ ms[n].count \in Nat
  <2>1. \A n \in 1 .. L : ms[n] \in Metrics
    OBVIOUS
  <2>2. \A m \in Metrics : m.count \in Nat /\ m[field] \in Nat
    BY DEF Metrics, Fields
  <2>3. L \in Nat
    OBVIOUS
  <2> QED BY <2>1, <2>2, <2>3
<1>2. /\ counts \in Seq(Nat) /\ Len(counts) = L /\ Total(ms, "count") = Sum(counts)
      /\ \A n \in 1 .. L : counts[n] = ms[n].count
  <2>1. "count" \in Fields
    BY DEF Fields
  <2>2. counts \in Seq(Nat) /\ Len(counts) = L /\ Total(ms, "count") = Sum(counts)
    BY <2>1, TotalOfPods
  <2>3. \A n \in 1 .. L : counts[n] = ms[n].count
    OBVIOUS
  <2> QED BY <2>2, <2>3
<1>3. values \in SUBSET Nat /\ values # {}
  BY <1>1
<1>4. \A v \in values : v <= Total(ms, field)
  BY TotalOfPods
<1>5. Total(ms, field) \in Nat
  BY TotalOfPods
<1> HIDE DEF counts
<1>6. PICK low \in values : \A v \in values : low <= v
  <2> HIDE DEF values
  <2> QED BY <1>3, Smallest
<1>7. PICK high \in values : \A v \in values : v <= high
  <2> HIDE DEF values
  <2> QED BY <1>3, <1>4, <1>5, Largest
<1>8. low \in Nat /\ high \in Nat
  BY <1>3
<1>9. ASSUME NEW n \in 1 .. L
      PROVE  terms[n] >= low * counts[n] /\ terms[n] <= high * counts[n]
  <2>1. counts[n] = ms[n].count /\ counts[n] \in Nat /\ terms[n] = ms[n][field] * counts[n]
    BY <1>1, <1>2
  <2>2. CASE counts[n] = 0
    <3>1. \A a, c \in Nat : c = 0 => a * c = 0
      OBVIOUS
    <3>2. low * counts[n] = 0 /\ high * counts[n] = 0
      BY <1>8, <2>1, <2>2, <3>1
    <3>3. ms[n][field] * counts[n] = 0
      BY <1>1, <2>1, <2>2, <3>1
    <3> HIDE DEF values, served
    <3> QED BY <2>1, <3>2, <3>3
  <2>3. CASE counts[n] # 0
    <3>1. n \in served
      BY <2>1, <2>3
    <3>2. ms[n][field] \in values /\ ms[n][field] \in Nat
      BY <1>1, <3>1
    <3>3. low <= ms[n][field] /\ ms[n][field] <= high
      BY <1>6, <1>7, <3>2
    <3> HIDE DEF values, served
    <3>4. low * counts[n] <= ms[n][field] * counts[n]
      BY <1>8, <2>1, <3>2, <3>3, ProductsCompare
    <3>5. ms[n][field] * counts[n] <= high * counts[n]
      BY <1>8, <2>1, <3>2, <3>3, ProductsCompare
    <3> QED BY <2>1, <3>4, <3>5
  <2> QED BY <2>2, <2>3
<1>10. Sum(terms) >= low * Sum(counts) /\ Sum(terms) <= high * Sum(counts)
  <2> HIDE DEF values, served
  <2> QED BY <1>2, <1>8, <1>9, SumsCompare
<1>11. (\E n \in served : low = ms[n][field]) /\ (\E n \in served : high = ms[n][field])
  OBVIOUS
<1> QED BY <1>2, <1>10, <1>11

\* The aggregates of several pods, of which one had requests.
LEMMA AggregateIsBetween ==
  ASSUME collected \in Seq(Metrics), Len(collected) > 1,
         NEW field \in {"failed", "p50", "p95"},
         NEW terms \in Seq(Nat), Len(terms) = Len(collected),
         \A n \in 1 .. Len(collected) : terms[n] = collected[n][field] * collected[n].count,
         \E n \in 1 .. Len(collected) : collected[n].count > 0
  PROVE  Between(<< Sum(terms), Total(collected, "count") >>, field)
<1> DEFINE x == << Sum(terms), Total(collected, "count") >>
<1>1. field \in Fields /\ "count" \in Fields
  BY DEF Fields
<1>2. Total(collected, "count") > 0
  <2>1. PICK n \in 1 .. Len(collected) : collected[n].count > 0
    OBVIOUS
  <2>2. collected[n].count \in Nat
    BY DEF Metrics
  <2>3. collected[n].count <= Total(collected, "count") /\ Total(collected, "count") \in Nat
    BY <1>1, TotalOfPods
  <2> QED BY <2>1, <2>2, <2>3
<1>3. /\ \E n \in 1 .. Len(collected) :
           collected[n].count > 0 /\ x[1] >= collected[n][field] * x[2]
      /\ \E n \in 1 .. Len(collected) :
           collected[n].count > 0 /\ x[1] <= collected[n][field] * x[2]
  BY <1>1, WeightedIsBetween
<1>4. \A n \in 1 .. Len(collected) : collected[n] \in ToSet(collected)
  BY DEF ToSet
<1> HIDE DEF x
<1>5. x[2] > 0 => Between(x, field)
  BY <1>3, <1>4 DEF Between
<1> QED BY <1>2, <1>5 DEF x

\* The number of pods that matter to AggregateMetrics.
LEMMA AggregateCases ==
  ASSUME NEW ms \in Seq(Metrics)
  PROVE  /\ Len(ms) = 0 => AggregateMetrics(ms) = ZeroResult /\ ms = <<>>
         /\ Len(ms) = 1 =>
              AggregateMetrics(ms) =
                [ failed |-> Whole(ms[1].failed), p50 |-> Whole(ms[1].p50),
                  p95 |-> Whole(ms[1].p95), rate |-> ms[1].rate ]
         /\ Len(ms) > 1 /\ Total(ms, "count") = 0 => AggregateMetrics(ms) = ZeroResult
         /\ Len(ms) > 1 /\ Total(ms, "count") # 0 =>
              AggregateMetrics(ms) =
                [ failed |-> << Total(ms, "failedCount"), Total(ms, "count") >>,
                  p50    |-> << Weighted(ms, "p50"), Total(ms, "count") >>,
                  p95    |-> << Weighted(ms, "p95"), Total(ms, "count") >>,
                  rate   |-> Total(ms, "rate") ]
<1>1. Len(ms) \in Nat /\ (ms = <<>> <=> Len(ms) = 0)
  OBVIOUS
<1>2. CASE Len(ms) = 0
  <2>1. AggregateMetrics(ms) = ZeroResult
    BY <1>1, <1>2 DEF AggregateMetrics
  <2> QED BY <1>1, <1>2, <2>1
<1>3. CASE Len(ms) = 1
  <2>1. AggregateMetrics(ms) =
          [ failed |-> Whole(ms[1].failed), p50 |-> Whole(ms[1].p50),
            p95 |-> Whole(ms[1].p95), rate |-> ms[1].rate ]
    BY <1>1, <1>3 DEF AggregateMetrics
  <2> QED BY <1>3, <2>1
<1>4. CASE Len(ms) > 1 /\ Total(ms, "count") = 0
  <2>1. Len(ms) # 0 /\ Len(ms) # 1
    <3> DEFINE L == Len(ms)
    <3>1. L > 1
      BY <1>4
    <3> HIDE DEF L
    <3>2. L # 0 /\ L # 1
      BY <3>1
    <3> QED BY <3>2 DEF L
  <2>2. AggregateMetrics(ms) = ZeroResult
    BY <1>1, <1>4, <2>1 DEF AggregateMetrics
  <2> QED BY <1>4, <2>1, <2>2
<1>5. CASE Len(ms) > 1 /\ Total(ms, "count") # 0
  <2>1. Len(ms) # 0 /\ Len(ms) # 1
    <3> DEFINE L == Len(ms)
    <3>1. L > 1
      BY <1>5
    <3> HIDE DEF L
    <3>2. L # 0 /\ L # 1
      BY <3>1
    <3> QED BY <3>2 DEF L
  <2>2. AggregateMetrics(ms) =
          [ failed |-> << Total(ms, "failedCount"), Total(ms, "count") >>,
            p50    |-> << Weighted(ms, "p50"), Total(ms, "count") >>,
            p95    |-> << Weighted(ms, "p95"), Total(ms, "count") >>,
            rate   |-> Total(ms, "rate") ]
    BY <1>1, <1>5, <2>1 DEF AggregateMetrics
  <2> QED BY <1>5, <2>1, <2>2
<1> QED BY <1>1, <1>2, <1>3, <1>4, <1>5

(* The aggregates are between the values of the pods that served requests: *)
(* aggregateMetrics weighs every value by the requests of its pod.         *)
THEOREM AggregatesAreOfRequests == LogSpec => []AggregateOfRequests
<1>1. CollectedInv => AggregateOfRequests
  <2> DEFINE L == Len(collected)
             ms == collected
  <2> SUFFICES ASSUME CollectedInv, \E m \in ToSet(ms) : m.count > 0
               PROVE  /\ Between(Result.failed, "failed")
                      /\ Between(Result.p50, "p50")
                      /\ Between(Result.p95, "p95")
    BY DEF AggregateOfRequests
  <2>1. /\ ms \in Seq(Metrics) /\ L \in Nat
        /\ \A n \in 1 .. L : ms[n] \in Metrics
        /\ ToSet(ms) = {ms[n] : n \in 1 .. L}
    BY DEF CollectedInv, ToSet
  <2>2. PICK k \in 1 .. L : ms[k].count > 0
    BY <2>1
  <2>3. CASE L = 1
    <3>1. k = 1 /\ ms[1] \in ToSet(ms) /\ ms[1].count > 0
      BY <2>1, <2>2, <2>3
    <3>2. \A field \in {"failed", "p50", "p95"} : Between(Whole(ms[1][field]), field)
      <4> SUFFICES ASSUME NEW field \in {"failed", "p50", "p95"}
                   PROVE  Between(Whole(ms[1][field]), field)
        OBVIOUS
      <4>1. ms[1][field] \in Nat
        BY <2>1, <2>3 DEF Metrics
      <4> DEFINE v == ms[1][field]
      <4>2. v >= v * 1 /\ v <= v * 1
        BY <4>1
      <4> QED BY <3>1, <4>2 DEF Between, Whole
    <3>3. /\ Result.failed = Whole(ms[1].failed) /\ Result.p50 = Whole(ms[1].p50)
          /\ Result.p95 = Whole(ms[1].p95)
      BY <2>1, <2>3, AggregateCases DEF Result
    <3> QED BY <3>2, <3>3
  <2>4. CASE L > 1
    <3> DEFINE failed == [n \in DOMAIN ms |-> ms[n]["failedCount"]]
               Terms(field) == [n \in DOMAIN ms |-> ms[n][field] * ms[n].count]
    <3>1. /\ failed \in Seq(Nat) /\ Len(failed) = L
          /\ Total(ms, "failedCount") = Sum(failed)
          /\ \A n \in 1 .. L : failed[n] = ms[n]["failed"] * ms[n].count
      <4>1. "failedCount" \in Fields
        BY DEF Fields
      <4>2. failed \in Seq(Nat) /\ Len(failed) = L /\ Total(ms, "failedCount") = Sum(failed)
        BY <2>1, <4>1, TotalOfPods
      <4>3. \A n \in 1 .. L : ms[n]["failedCount"] = ms[n]["failed"] * ms[n].count
        BY <2>1 DEF Metrics
      <4> QED BY <2>1, <4>2, <4>3
    <3>2. ASSUME NEW field \in {"p50", "p95"}
          PROVE  /\ Terms(field) \in Seq(Nat) /\ Len(Terms(field)) = L
                 /\ Weighted(ms, field) = Sum(Terms(field))
                 /\ \A n \in 1 .. L : Terms(field)[n] = ms[n][field] * ms[n].count
      <4>1. \A n \in 1 .. L : ms[n][field] * ms[n].count \in Nat
        <5>1. \A m \in Metrics : m[field] \in Nat /\ m.count \in Nat
          BY DEF Metrics
        <5>2. \A a, b \in Nat : a * b \in Nat
          OBVIOUS
        <5> QED BY <2>1, <5>1, <5>2
      <4>2. DOMAIN ms = 1 .. L
        BY <2>1
      <4>3. Terms(field) \in Seq(Nat) /\ Len(Terms(field)) = L
        BY <2>1, <4>1, <4>2
      <4> QED BY <4>2, <4>3 DEF Weighted
    <3>3. Total(ms, "count") # 0
      <4>1. ms[k].count <= Total(ms, "count") /\ "count" \in Fields /\ ms[k].count \in Nat
            /\ Total(ms, "count") \in Nat
        BY <2>1, <2>2, TotalOfPods DEF Fields, Metrics
      <4> QED BY <2>2, <4>1
    <3>4. /\ Result.failed = << Total(ms, "failedCount"), Total(ms, "count") >>
          /\ Result.p50 = << Weighted(ms, "p50"), Total(ms, "count") >>
          /\ Result.p95 = << Weighted(ms, "p95"), Total(ms, "count") >>
      BY <2>1, <2>4, <3>3, AggregateCases DEF Result
    <3> HIDE DEF failed, Terms
    <3>5. Between(Result.failed, "failed")
      BY <2>1, <2>2, <2>4, <3>1, <3>4, AggregateIsBetween
    <3>6. Between(Result.p50, "p50")
      BY <2>1, <2>2, <2>4, <3>2, <3>4, AggregateIsBetween
    <3>7. Between(Result.p95, "p95")
      BY <2>1, <2>2, <2>4, <3>2, <3>4, AggregateIsBetween
    <3> QED BY <3>5, <3>6, <3>7
  <2>5. L = 1 \/ L > 1
    <3>1. L \in Nat /\ k \in 1 .. L
      BY <2>1
    <3> HIDE DEF L
    <3> QED BY <3>1
  <2> QED BY <2>3, <2>4, <2>5
<1> QED BY <1>1, LogSpecCollectedInv, PTL

(* A rate of zero is reported only when no pod that was read had requests. *)
THEOREM ZeroIsNoData == LogSpec => []ZeroMeansNoData
<1>1. CollectedInv => ZeroMeansNoData
  <2> DEFINE L == Len(collected)
             ms == collected
  <2> SUFFICES ASSUME CollectedInv, Result.rate = 0, NEW m \in ToSet(ms)
               PROVE  m.count = 0
    BY DEF ZeroMeansNoData
  <2>1. /\ ms \in Seq(Metrics) /\ L \in Nat
        /\ \A n \in 1 .. L : ms[n] \in Metrics
        /\ ToSet(ms) = {ms[n] : n \in 1 .. L}
    BY DEF CollectedInv, ToSet
  <2>2. PICK k \in 1 .. L : m = ms[k]
    BY <2>1
  <2>3. m.count \in Nat /\ m.rate \in Nat /\ (m.count > 0 => m.rate > 0)
    BY <2>1, <2>2 DEF Metrics
  <2>4. /\ ms[k]["rate"] <= Total(ms, "rate") /\ Total(ms, "rate") \in Nat
        /\ ms[k]["count"] <= Total(ms, "count") /\ Total(ms, "count") \in Nat
    BY <2>1, TotalOfPods DEF Fields
  <2>5. CASE L = 1
    BY <2>1, <2>2, <2>3, <2>5, AggregateCases DEF Result
  <2>6. CASE L > 1 /\ Total(ms, "count") = 0
    BY <2>2, <2>3, <2>4, <2>6
  <2>7. CASE L > 1 /\ Total(ms, "count") # 0
    <3>1. Total(ms, "rate") = 0
      BY <2>1, <2>7, AggregateCases DEF Result
    <3> QED BY <2>2, <2>3, <2>4, <3>1
  <2>8. L = 1 \/ L > 1
    <3>1. L \in Nat /\ k \in 1 .. L
      BY <2>1
    <3> HIDE DEF L
    <3> QED BY <3>1
  <2> QED BY <2>5, <2>6, <2>7, <2>8
<1> QED BY <1>1, LogSpecCollectedInv, PTL

-----------------------------------------------------------------------------
(* The scan for the summary.                                               *)

\* One step of the scan, which goes on with f.
Scanned(f, ls, i, malformed) ==
  IF i = 0
  THEN CASE malformed -> Malformed
         [] ~malformed /\ (\A l \in ToSet(ls) : ~EndsWithBrace(l))
                       /\ (\E l \in ToSet(ls) : HasOpeningBrace(l))
            -> Truncated
         [] OTHER -> Nothing
  ELSE IF ~EndsWithBrace(ls[i]) THEN f[i - 1][malformed]
  ELSE LET j == OpensAt(ls, i)
       IN  CASE j = 0 -> Truncated
             [] j # 0 /\ IsSummary(ls, j, i) -> Found(j, i)
             [] OTHER -> f[j - 1][malformed \/ ~Unmarshals(ls, j, i)]

IsScan(f, ls, N) ==
  f = [i \in 0 .. N |-> [malformed \in BOOLEAN |-> Scanned(f, ls, i, malformed)]]

LEMMA FindIsScan ==
  ASSUME NEW ls
  PROVE  FindSummaryJSON(ls) = (CHOOSE f : IsScan(f, ls, Len(ls)))[Len(ls)][FALSE]
BY Zenon DEF FindSummaryJSON, IsScan, Scanned

\* The opening line is none of those after the closing one.
LEMMA OpensBefore ==
  ASSUME NEW ls, NEW i \in Nat
  PROVE  OpensAt(ls, i) \in 0 .. i
<1> DEFINE balance == CHOOSE f : f = [j \in 1 .. i |->
                        Depth(ls[j]) + (IF j = i THEN 0 ELSE f[j + 1])]
           S == {j \in 1 .. i : balance[j] = 0}
<1>1. OpensAt(ls, i) = IF S = {} THEN 0 ELSE Max(S)
  BY DEF OpensAt
<1>2. S \in SUBSET (1 .. i)
  OBVIOUS
<1> HIDE DEF S
<1>3. CASE S # {}
  <2>1. S \in SUBSET Nat /\ \A n \in S : n <= i
    BY <1>2
  <2>2. PICK n \in S : \A m \in S : m <= n
    BY <1>3, <2>1, Largest
  <2>3. \A m \in S : n >= m
    BY <2>1, <2>2
  <2>4. Max(S) \in S
    BY <2>3 DEF Max
  <2>5. OpensAt(ls, i) = Max(S)
    BY <1>1, <1>3
  <2>6. \A k \in S : k \in 0 .. i
    BY <1>2
  <2> QED BY <2>4, <2>5, <2>6
<1>4. CASE S = {}
  BY <1>1, <1>4
<1> QED BY <1>3, <1>4

Agree(f, g, n) == \A k \in 0 .. n, b \in BOOLEAN : f[k][b] = g[k][b]

\* It goes on with lines before the one it is at.
LEMMA ScanGoesBack ==
  ASSUME NEW ls, NEW n \in Nat, NEW f, NEW g, Agree(f, g, n),
         NEW i \in 0 .. n + 1, NEW malformed \in BOOLEAN
  PROVE  Scanned(f, ls, i, malformed) = Scanned(g, ls, i, malformed)
<1>1. CASE i = 0
  BY <1>1 DEF Scanned
<1>2. CASE i # 0
  <2> DEFINE j == OpensAt(ls, i)
             u == malformed \/ ~Unmarshals(ls, j, i)
  <2>1. i \in Nat /\ j \in 0 .. i
    BY OpensBefore
  <2>2. f[i - 1][malformed] = g[i - 1][malformed]
    <3>1. i - 1 \in 0 .. n
      BY <1>2
    <3> QED BY <3>1 DEF Agree
  <2>3. j # 0 => f[j - 1][u] = g[j - 1][u]
    <3>1. u \in BOOLEAN
      OBVIOUS
    <3> HIDE DEF j, u
    <3>2. j # 0 => j - 1 \in 0 .. n
      BY <2>1
    <3> QED BY <3>1, <3>2 DEF Agree
  <2> QED BY <1>2, <2>1, <2>2, <2>3 DEF Scanned
<1> QED BY <1>1, <1>2

LEMMA ScanExists ==
  ASSUME NEW ls, NEW N \in Nat
  PROVE  \E f : IsScan(f, ls, N)
<1> DEFINE S == {n \in Nat : \E f : IsScan(f, ls, n)}
<1>1. 0 \in S
  <2> DEFINE f == [i \in 0 .. 0 |-> [malformed \in BOOLEAN |-> Scanned(0, ls, 0, malformed)]]
  <2>1. \A g, malformed : Scanned(g, ls, 0, malformed) = Scanned(0, ls, 0, malformed)
    BY DEF Scanned
  <2>2. f = [i \in 0 .. 0 |-> [malformed \in BOOLEAN |-> Scanned(f, ls, i, malformed)]]
    <3>1. \A i \in 0 .. 0 : i = 0
      OBVIOUS
    <3> QED BY <2>1, <3>1
  <2>3. IsScan(f, ls, 0)
    BY <2>2 DEF IsScan
  <2> QED BY <2>3
<1>2. ASSUME NEW n \in 0 .. N - 1, n \in S PROVE n + 1 \in S
  <2>1. PICK f : IsScan(f, ls, n)
    BY <1>2
  <2> DEFINE g == [i \in 0 .. n + 1 |->
                     [malformed \in BOOLEAN |-> Scanned(f, ls, i, malformed)]]
  <2>2. Agree(f, g, n)
    BY <2>1 DEF IsScan, Agree
  <2>3. \A i \in 0 .. n + 1, malformed \in BOOLEAN :
          Scanned(f, ls, i, malformed) = Scanned(g, ls, i, malformed)
    <3> HIDE DEF g
    <3> SUFFICES ASSUME NEW i \in 0 .. n + 1, NEW malformed \in BOOLEAN
                 PROVE  Scanned(f, ls, i, malformed) = Scanned(g, ls, i, malformed)
      OBVIOUS
    <3>1. n \in Nat
      OBVIOUS
    <3> QED BY <2>2, <3>1, ScanGoesBack
  <2>4. g = [i \in 0 .. n + 1 |-> [malformed \in BOOLEAN |-> Scanned(g, ls, i, malformed)]]
    BY <2>3
  <2>5. IsScan(g, ls, n + 1)
    BY <2>4 DEF IsScan
  <2> QED BY <2>5
<1>3. \A n \in 0 .. N : n \in S
  <2> HIDE DEF S
  <2> QED BY <1>1, <1>2, Induction
<1> QED BY <1>3

\* What the scan finds is what its steps find.
LEMMA ScanUnfolds ==
  ASSUME NEW ls, Len(ls) \in Nat
  PROVE  \E f : /\ FindSummaryJSON(ls) = f[Len(ls)][FALSE]
                /\ \A i \in 0 .. Len(ls), malformed \in BOOLEAN :
                     f[i][malformed] = Scanned(f, ls, i, malformed)
<1> DEFINE f == CHOOSE f : IsScan(f, ls, Len(ls))
<1>1. IsScan(f, ls, Len(ls))
  BY ScanExists
<1>2. FindSummaryJSON(ls) = f[Len(ls)][FALSE]
  BY FindIsScan
<1> HIDE DEF f
<1>3. \A i \in 0 .. Len(ls), malformed \in BOOLEAN :
        f[i][malformed] = Scanned(f, ls, i, malformed)
  BY <1>1 DEF IsScan
<1> QED BY <1>2, <1>3

\* f is a scan of ls.
Scans(f, ls) ==
  /\ FindSummaryJSON(ls) = f[Len(ls)][FALSE]
  /\ \A i \in 0 .. Len(ls), malformed \in BOOLEAN :
       f[i][malformed] = Scanned(f, ls, i, malformed)

NoneAfter(ls, n) == \A k \in n + 1 .. Len(ls) : ~EndsWithBrace(ls[k])

Error == {Truncated, Malformed}

\* From line n on, with no candidate so far if none was malformed.
Reports(f, ls, n) ==
  /\ f[n][TRUE] \in Error
  /\ NoneAfter(ls, n) => f[n][FALSE] \in Error

LEMMA ReportsAtStart ==
  ASSUME NEW ls, NEW f, Scans(f, ls), Len(ls) \in Nat, DOMAIN ls = 1 .. Len(ls),
         ToSet(ls) \cap SummaryKinds # {}
  PROVE  Reports(f, ls, 0)
<1>1. f[0][TRUE] = Scanned(f, ls, 0, TRUE) /\ f[0][FALSE] = Scanned(f, ls, 0, FALSE)
  <2>1. 0 \in 0 .. Len(ls)
    OBVIOUS
  <2> QED BY <2>1 DEF Scans
<1>2. Scanned(f, ls, 0, TRUE) = Malformed
  BY DEF Scanned
<1>3. ASSUME NoneAfter(ls, 0) PROVE Scanned(f, ls, 0, FALSE) = Truncated
  <2>1. \A l \in ToSet(ls) : ~EndsWithBrace(l)
    BY <1>3 DEF ToSet, NoneAfter
  <2>2. PICK l \in ToSet(ls) : l \in SummaryKinds
    OBVIOUS
  <2>3. HasOpeningBrace(l)
    <3>1. ~EndsWithBrace(l)
      BY <2>1
    <3>2. l = "metrics" \/ l = "cut"
      BY <2>2, <3>1 DEF SummaryKinds, EndsWithBrace
    <3> QED BY <3>2 DEF HasOpeningBrace, Kinds, SummaryKinds
  <2>4. \E d \in ToSet(ls) : HasOpeningBrace(d)
    BY <2>3
  <2> QED BY <2>1, <2>4 DEF Scanned
<1> QED BY <1>1, <1>2, <1>3 DEF Reports, Error

LEMMA ReportsFurther ==
  ASSUME NEW ls, NEW f, Scans(f, ls), Len(ls) \in Nat, DOMAIN ls = 1 .. Len(ls),
         \A i, j \in DOMAIN ls : i <= j => ~Unmarshals(ls, i, j),
         NEW n \in 0 .. Len(ls) - 1, \A m \in 0 .. n : Reports(f, ls, m)
  PROVE  Reports(f, ls, n + 1)
<1> DEFINE i == n + 1
           j == OpensAt(ls, i)
<1>1. n \in Nat /\ i \in 1 .. Len(ls) /\ j \in 0 .. i /\ Reports(f, ls, n)
  BY OpensBefore
<1>2. \A malformed \in BOOLEAN : f[i][malformed] = Scanned(f, ls, i, malformed)
  BY <1>1 DEF Scans
<1> HIDE DEF j
<1>3. CASE ~EndsWithBrace(ls[i])
  <2>1. \A malformed \in BOOLEAN : Scanned(f, ls, i, malformed) = f[n][malformed]
    BY <1>1, <1>3 DEF Scanned
  <2>2. NoneAfter(ls, i) => NoneAfter(ls, n)
    BY <1>1, <1>3 DEF NoneAfter
  <2> QED BY <1>1, <1>2, <2>1, <2>2 DEF Reports
<1>4. CASE EndsWithBrace(ls[i]) /\ j = 0
  <2>1. \A malformed \in BOOLEAN : Scanned(f, ls, i, malformed) = Truncated
    BY <1>1, <1>4 DEF Scanned, j
  <2> QED BY <1>2, <2>1 DEF Reports, Error
<1>5. CASE EndsWithBrace(ls[i]) /\ j # 0
  <2>1. j \in DOMAIN ls /\ i \in DOMAIN ls /\ j <= i
    BY <1>1, <1>5
  <2>2. ~Unmarshals(ls, j, i) /\ ~IsSummary(ls, j, i)
    <3>1. ~Unmarshals(ls, j, i)
      BY <2>1
    <3> QED BY <3>1 DEF Unmarshals
  <2>5. \A malformed \in BOOLEAN : (malformed \/ ~Unmarshals(ls, j, i)) = TRUE
    BY <2>2
  <2>6. \A malformed \in BOOLEAN :
          Scanned(f, ls, i, malformed) = f[j - 1][malformed \/ ~Unmarshals(ls, j, i)]
    <3>1. i # 0
      BY <1>1
    <3>2. OpensAt(ls, i) = j
      BY DEF j
    <3> HIDE DEF i
    <3> QED BY <1>5, <2>2, <3>1, <3>2 DEF Scanned
  <2>7. \A malformed \in BOOLEAN : Scanned(f, ls, i, malformed) = f[j - 1][TRUE]
    BY <2>5, <2>6
  <2>3. j - 1 \in 0 .. n
    BY <1>1, <1>5
  <2>4. f[j - 1][TRUE] \in Error
    BY <2>3 DEF Reports
  <2> QED BY <1>2, <2>7, <2>4 DEF Reports
<1> QED BY <1>3, <1>4, <1>5

(***************************************************************************)
(* A log of which no lines are JSON, but one is of a summary, is an error  *)
(* to the scan: every candidate is malformed or has no beginning, and      *)
(* without candidates there is an opening brace.                           *)
(***************************************************************************)
LEMMA PartIsReported ==
  ASSUME NEW ls, Len(ls) \in Nat, DOMAIN ls = 1 .. Len(ls),
         ToSet(ls) \cap SummaryKinds # {},
         \A i, j \in DOMAIN ls : i <= j => ~Unmarshals(ls, i, j)
  PROVE  FindSummaryJSON(ls) \in Error
<1> DEFINE L == Len(ls)
<1>1. PICK f : Scans(f, ls)
  BY ScanUnfolds DEF Scans
<1> DEFINE S == {n \in 0 .. L : \A m \in 0 .. n : Reports(f, ls, m)}
<1>2. 0 \in S
  <2>1. Reports(f, ls, 0)
    BY <1>1, ReportsAtStart
  <2> QED BY <2>1
<1>3. ASSUME NEW n \in 0 .. L - 1, n \in S PROVE n + 1 \in S
  <2>1. Reports(f, ls, n + 1)
    BY <1>1, <1>3, ReportsFurther
  <2> QED BY <1>3, <2>1
<1>4. \A n \in 0 .. L : n \in S
  <2> HIDE DEF S
  <2> QED BY <1>2, <1>3, Induction
<1>5. Reports(f, ls, L) /\ NoneAfter(ls, L)
  BY <1>4 DEF NoneAfter
<1> QED BY <1>1, <1>5 DEF Reports, Scans
-----------------------------------------------------------------------------
(* The logs, and the parts of them that are read.                          *)

\* Lines of one summary at most, which is on one line or on several.
OneSummary(ls) ==
  \A m, n \in DOMAIN ls :
    ls[m] = "summary" /\ ls[n] \in {"summary", "metrics"} => m = n

NoneOnOneLine(ls) == \A n \in DOMAIN ls : ls[n] # "summary"

Written == Script \cup {"summary", "metrics", "root_group"}

\* What may still be to come of a summary.
Lefts == {ls \in Seq(Written) : ls = <<"summary">> \/ NoneOnOneLine(ls)}

(***************************************************************************)
(* The log has one summary at most, and has room for what is still to come *)
(* of it; what is read of the log is the same up to the line that is cut.  *)
(***************************************************************************)
LinesInv ==
  /\ lines \in Seq(Written)
  /\ OneSummary(lines)
  /\ left \in Lefts
  /\ k6 = "script" => left = <<>> /\ lines \in Seq(Script)
  /\ left = <<"summary">> => lines \in Seq(Script)
  /\ left # <<>> => NoneOnOneLine(lines)

ViewInv ==
  view # NoView => view \in Seq(Kinds) /\ OneSummary(view)

LogInv == LinesInv /\ ViewInv

LEMMA LinesOf ==
  ASSUME NEW S, NEW T, S \subseteq T, NEW ls \in Seq(S)
  PROVE  ls \in Seq(T) /\ \A n \in DOMAIN ls : ls[n] \in S
OBVIOUS

LEMMA AppendKeepsNone ==
  ASSUME NEW ls \in Seq(Written), NEW l \in Written, NoneOnOneLine(ls), l # "summary"
  PROVE  NoneOnOneLine(Append(ls, l))
BY DEF NoneOnOneLine

LEMMA AppendKeepsOne ==
  ASSUME NEW ls \in Seq(Written), NEW l \in Written, OneSummary(ls),
         l = "summary" => \A n \in DOMAIN ls : ls[n] \notin {"summary", "metrics"},
         l = "metrics" => NoneOnOneLine(ls)
  PROVE  Append(ls, l) \in Seq(Written) /\ OneSummary(Append(ls, l))
<1> DEFINE L == Len(ls)
           t == Append(ls, l)
<1>1. /\ L \in Nat /\ DOMAIN ls = 1 .. L
      /\ t \in Seq(Written) /\ DOMAIN t = 1 .. L + 1
      /\ t[L + 1] = l /\ \A n \in 1 .. L : t[n] = ls[n]
  OBVIOUS
<1> HIDE DEF L, t
<1>2. ASSUME NEW m \in DOMAIN t, NEW n \in DOMAIN t,
             t[m] = "summary", t[n] \in {"summary", "metrics"}
      PROVE  m = n
  <2>1. CASE m \in 1 .. L /\ n \in 1 .. L
    BY <1>1, <1>2, <2>1 DEF OneSummary
  <2>2. CASE m = L + 1 /\ n \in 1 .. L
    BY <1>1, <1>2, <2>2
  <2>3. CASE m \in 1 .. L /\ n = L + 1
    BY <1>1, <1>2, <2>3 DEF NoneOnOneLine
  <2> QED BY <1>1, <2>1, <2>2, <2>3
<1> QED BY <1>1, <1>2 DEF OneSummary, t

\* Part of a log, or the log.
LEMMA PartKeepsOne ==
  ASSUME NEW ls \in Seq(Kinds), OneSummary(ls),
         NEW a \in 1 .. Len(ls) + 1, NEW b \in 0 .. Len(ls)
  PROVE  SubSeq(ls, a, b) \in Seq(Kinds) /\ OneSummary(SubSeq(ls, a, b))
<1> DEFINE L == Len(ls)
           t == SubSeq(ls, a, b)
<1>1. L \in Nat /\ DOMAIN ls = 1 .. L /\ \A n \in 1 .. L : ls[n] \in Kinds
  OBVIOUS
<1>2. a \in Int /\ b \in Int /\ a >= 1 /\ b <= L /\ \A n \in a .. b : ls[n] \in Kinds
  BY <1>1
<1>3. /\ t \in Seq(Kinds) /\ Len(t) = IF a <= b THEN b - a + 1 ELSE 0
      /\ \A n \in 1 .. b - a + 1 : t[n] = ls[a + n - 1]
  BY <1>2, SubSeqProperties
<1>4. Len(t) \in Nat /\ DOMAIN t = 1 .. Len(t)
  BY <1>3
<1> HIDE DEF L, t
<1>5. ASSUME NEW m \in DOMAIN t, NEW n \in DOMAIN t,
             t[m] = "summary", t[n] \in {"summary", "metrics"}
      PROVE  m = n
  <2>1. m \in 1 .. b - a + 1 /\ n \in 1 .. b - a + 1
    BY <1>2, <1>3, <1>4
  <2>2. a + m - 1 \in 1 .. L /\ a + n - 1 \in 1 .. L
    BY <1>1, <1>2, <2>1
  <2>3. ls[a + m - 1] = "summary" /\ ls[a + n - 1] \in {"summary", "metrics"}
    BY <1>3, <1>5, <2>1
  <2>4. a + m - 1 = a + n - 1
    BY <1>1, <2>2, <2>3 DEF OneSummary
  <2> QED BY <1>2, <2>1, <2>4
<1> QED BY <1>3, <1>5 DEF OneSummary, t

Cuts == {"cut", "cut}"}

LEMMA CutEndsWithNone ==
  ASSUME NEW ls \in Seq(Kinds), OneSummary(ls), NEW f \in Cuts
  PROVE  Append(ls, f) \in Seq(Kinds) /\ OneSummary(Append(ls, f))
<1> DEFINE L == Len(ls)
           t == Append(ls, f)
<1>1. f \in Kinds /\ f \notin {"summary", "metrics"}
  BY DEF Cuts, Kinds, SummaryKinds
<1>2. /\ L \in Nat /\ DOMAIN ls = 1 .. L
      /\ t \in Seq(Kinds) /\ DOMAIN t = 1 .. L + 1
      /\ t[L + 1] = f /\ \A n \in 1 .. L : t[n] = ls[n]
  BY <1>1
<1> HIDE DEF L, t
<1>3. ASSUME NEW m \in DOMAIN t, NEW n \in DOMAIN t,
             t[m] = "summary", t[n] \in {"summary", "metrics"}
      PROVE  m = n
  <2>1. m # L + 1 /\ n # L + 1
    BY <1>1, <1>2, <1>3
  <2>2. m \in 1 .. L /\ n \in 1 .. L
    BY <1>2, <2>1
  <2> QED BY <1>2, <1>3, <2>2 DEF OneSummary
<1> QED BY <1>2, <1>3 DEF OneSummary, t

LEMMA CutKeepsOne ==
  ASSUME NEW ls \in Seq(Kinds), OneSummary(ls), ls # <<>>, NEW f \in Cuts
  PROVE  Append(Front(ls), f) \in Seq(Kinds) /\ OneSummary(Append(Front(ls), f))
<1>1. Len(ls) \in Nat \ {0}
  BY EmptySeq
<1>2. 1 \in 1 .. Len(ls) + 1 /\ Len(ls) - 1 \in 0 .. Len(ls)
  BY <1>1
<1>3. Front(ls) = SubSeq(ls, 1, Len(ls) - 1)
  BY DEF Front
<1>4. Front(ls) \in Seq(Kinds) /\ OneSummary(Front(ls))
  BY <1>2, <1>3, PartKeepsOne
<1> QED BY <1>4, CutEndsWithNone

LEMMA ViewsHaveOneSummary ==
  ASSUME LinesInv, NEW read \in Views
  PROVE  read \in Seq(Kinds) /\ OneSummary(read)
<1> DEFINE L == Len(lines)
           a == IF L > TailLines THEN L - TailLines + 1 ELSE 1
           tail == SubSeq(lines, a, L)
           cuts == {SubSeq(tail, 1, n) : n \in 0 .. Len(tail)}
<1>1. lines \in Seq(Kinds) /\ a \in 1 .. L + 1 /\ L \in 0 .. L
  <2>1. lines \in Seq(Written) /\ L \in Nat
    BY DEF LinesInv
  <2>2. lines \in Seq(Kinds)
    <3>1. Written \subseteq Kinds
      BY DEF Written, Kinds, SummaryKinds
    <3> QED BY <2>1, <3>1, LinesOf
  <2>3. TailLines \in Nat /\ TailLines >= 1
    BY TailAssumption
  <2> HIDE DEF L
  <2> QED BY <2>1, <2>2, <2>3
<1>2. tail \in Seq(Kinds) /\ OneSummary(tail)
  <2> HIDE DEF a
  <2> QED BY <1>1, PartKeepsOne DEF LinesInv
<1>3. Views = cuts \cup UNION { {Append(Front(v), "cut"), Append(Front(v), "cut}")} :
                                  v \in {u \in cuts : u # <<>> /\ Last(u) = "summary"} }
  BY DEF Views
<1> HIDE DEF tail
<1>4. ASSUME NEW u \in cuts PROVE u \in Seq(Kinds) /\ OneSummary(u)
  <2>1. PICK n \in 0 .. Len(tail) : u = SubSeq(tail, 1, n)
    OBVIOUS
  <2>2. 1 \in 1 .. Len(tail) + 1
    BY <1>2
  <2> QED BY <1>2, <2>1, <2>2, PartKeepsOne
<1> HIDE DEF cuts
<1>5. CASE read \in cuts
  BY <1>4, <1>5
<1>6. ASSUME NEW u \in cuts, NEW f \in Cuts, u # <<>>, read = Append(Front(u), f)
      PROVE  read \in Seq(Kinds) /\ OneSummary(read)
  <2>1. u \in Seq(Kinds) /\ OneSummary(u)
    BY <1>4
  <2> QED BY <1>6, <2>1, CutKeepsOne
<1> QED
  <2>1. CASE read \notin cuts
    <3>1. PICK v \in {u \in cuts : u # <<>> /\ Last(u) = "summary"} :
                 read \in {Append(Front(v), "cut"), Append(Front(v), "cut}")}
      BY <1>3, <2>1
    <3>2. PICK f \in Cuts : read = Append(Front(v), f)
      BY <3>1 DEF Cuts
    <3> QED BY <1>6, <3>1, <3>2
  <2> QED BY <1>5, <2>1

LEMMA NoneInScript ==
  ASSUME NEW ls \in Seq(Script)
  PROVE  \A n \in DOMAIN ls : ls[n] \notin {"summary", "metrics"}
<1>1. \A n \in DOMAIN ls : ls[n] \in Script
  BY LinesOf
<1> QED BY <1>1 DEF Script

LEMMA LeftsGoOn ==
  ASSUME NEW l \in Lefts \ {<<>>}
  PROVE  /\ Head(l) \in Written /\ Tail(l) \in Lefts /\ Tail(l) # <<"summary">>
         /\ Head(l) = "summary" => l = <<"summary">> /\ Tail(l) = <<>>
<1>1. l \in Seq(Written) /\ l # <<>> /\ (l = <<"summary">> \/ NoneOnOneLine(l))
  BY DEF Lefts
<1>2. /\ Head(l) \in Written /\ Tail(l) \in Seq(Written) /\ Len(Tail(l)) = Len(l) - 1
      /\ \A n \in 1 .. Len(Tail(l)) : Tail(l)[n] = l[n + 1]
  BY <1>1, HeadTailProperties
<1>3. Head(l) = l[1] /\ Len(l) \in Nat /\ DOMAIN l = 1 .. Len(l)
  BY <1>1
<1>4. Len(Tail(l)) \in Nat /\ DOMAIN Tail(l) = 1 .. Len(Tail(l))
  BY <1>2
<1>5. NoneOnOneLine(Tail(l))
  <2>1. CASE l = <<"summary">>
    <3>1. Len(l) = 1
      BY <2>1
    <3>2. Len(Tail(l)) = 0
      BY <1>2, <3>1
    <3>3. Tail(l) = <<>>
      BY <1>2, <3>2, EmptySeq
    <3>4. NoneOnOneLine(<<>>)
      BY DEF NoneOnOneLine
    <3> QED BY <3>3, <3>4
  <2>2. CASE NoneOnOneLine(l)
    <3> SUFFICES ASSUME NEW n \in DOMAIN Tail(l) PROVE Tail(l)[n] # "summary"
      BY DEF NoneOnOneLine
    <3>1. n + 1 \in DOMAIN l /\ Tail(l)[n] = l[n + 1]
      BY <1>2, <1>3, <1>4
    <3> QED BY <2>2, <3>1 DEF NoneOnOneLine
  <2> QED BY <1>1, <2>1, <2>2
<1>6. Tail(l) # <<"summary">>
  <2>1. ~NoneOnOneLine(<<"summary">>)
    <3>1. 1 \in DOMAIN <<"summary">> /\ <<"summary">>[1] = "summary"
      OBVIOUS
    <3> QED BY <3>1 DEF NoneOnOneLine
  <2> QED BY <1>5, <2>1
<1>7. ASSUME Head(l) = "summary" PROVE l = <<"summary">> /\ Tail(l) = <<>>
  <2>1. 1 \in DOMAIN l
    BY <1>1, <1>3
  <2>2. l = <<"summary">>
    BY <1>1, <1>3, <1>7, <2>1 DEF NoneOnOneLine
  <2>3. Len(Tail(l)) = 0
    <3>1. Len(l) = 1
      BY <2>2
    <3> QED BY <1>2, <3>1
  <2> QED BY <1>2, <2>2, <2>3
<1> QED BY <1>2, <1>5, <1>6, <1>7 DEF Lefts

LEMMA LeftsStart ==
  /\ <<>> \in Lefts /\ <<"summary">> \in Lefts /\ Pretty \in Lefts
  /\ <<>> # <<"summary">>
<1>1. <<>> \in Seq(Written) /\ NoneOnOneLine(<<>>)
  BY DEF NoneOnOneLine
<1>2. <<"summary">> \in Seq(Written)
  BY DEF Written
<1>3. Pretty \in Seq(Written)
  BY DEF Pretty, Written, Script
<1>4. NoneOnOneLine(Pretty)
  <2>1. DOMAIN Pretty = 1 .. 4
    BY DEF Pretty
  <2>2. Pretty[1] = "{" /\ Pretty[2] = "metrics" /\ Pretty[3] = "root_group" /\ Pretty[4] = "}"
    BY DEF Pretty
  <2>3. \A n \in 1 .. 4 : n = 1 \/ n = 2 \/ n = 3 \/ n = 4
    OBVIOUS
  <2>4. \A n \in 1 .. 4 : Pretty[n] # "summary"
    BY <2>2, <2>3
  <2> QED BY <2>1, <2>4 DEF NoneOnOneLine
<1>5. <<>> # <<"summary">>
  <2>1. Len(<<>>) = 0 /\ Len(<<"summary">>) = 1
    OBVIOUS
  <2> QED BY <2>1
<1> QED BY <1>1, <1>2, <1>3, <1>4, <1>5 DEF Lefts

LEMMA LogSpecLogInv == LogSpec => []LogInv
<1>1. LogInit => LogInv
  BY LeftsStart DEF LogInit, LogInv, LinesInv, ViewInv, OneSummary, NoView
<1>2. LogInv /\ [LogNext]_logVars => LogInv'
  <2> SUFFICES ASSUME LogInv, [LogNext]_logVars PROVE LogInv'
    OBVIOUS
  <2> USE DEF LogInv
  <2>1. CASE ScriptWrites
    <3>1. PICK l \in Script : lines' = Append(lines, l)
      BY <2>1 DEF ScriptWrites
    <3>2. lines' \in Seq(Written) /\ OneSummary(lines')
      BY <3>1, AppendKeepsOne DEF LinesInv, Written, Script
    <3>3. lines' \in Seq(Script) /\ left' = <<>>
      BY <2>1, <3>1 DEF ScriptWrites, LinesInv
    <3>4. LinesInv'
      BY <3>2, <3>3, LeftsStart DEF LinesInv
    <3>5. ViewInv'
      BY <2>1 DEF ScriptWrites, ViewInv, readerVars, NoView
    <3> QED BY <3>4, <3>5
  <2>2. CASE SummaryStarts
    <3>1. lines \in Seq(Script) /\ lines' = lines
      BY <2>2 DEF SummaryStarts, LinesInv
    <3>2. left' \in {<<>>, <<"summary">>, Pretty} /\ k6' # "script"
      BY <2>2 DEF SummaryStarts, LinesInv
    <3>3. NoneOnOneLine(lines)
      BY <3>1, NoneInScript DEF NoneOnOneLine
    <3>4. LinesInv'
      BY <3>1, <3>2, <3>3, LeftsStart DEF LinesInv
    <3>5. ViewInv'
      BY <2>2 DEF SummaryStarts, ViewInv, readerVars, NoView
    <3> QED BY <3>4, <3>5
  <2>3. CASE SummaryWrites
    <3>1. left \in Lefts \ {<<>>} /\ lines' = Append(lines, Head(left)) /\ left' = Tail(left)
      BY <2>3 DEF SummaryWrites, LinesInv
    <3>2. /\ Head(left) \in Written /\ Tail(left) \in Lefts /\ Tail(left) # <<"summary">>
          /\ Head(left) = "summary" => left = <<"summary">> /\ Tail(left) = <<>>
      BY <3>1, LeftsGoOn
    <3>3. Head(left) = "summary" =>
            \A n \in DOMAIN lines : lines[n] \notin {"summary", "metrics"}
      BY <3>2, NoneInScript DEF LinesInv
    <3>4. NoneOnOneLine(lines)
      BY <3>1 DEF LinesInv
    <3>5. lines' \in Seq(Written) /\ OneSummary(lines')
      BY <3>1, <3>2, <3>3, <3>4, AppendKeepsOne DEF LinesInv
    <3>6. left' # <<>> => NoneOnOneLine(lines')
      BY <3>1, <3>2, <3>4, AppendKeepsNone DEF LinesInv
    <3>7. k6' # "script"
      BY <2>3 DEF SummaryWrites
    <3>8. LinesInv'
      BY <3>1, <3>2, <3>5, <3>6, <3>7 DEF LinesInv
    <3>9. ViewInv'
      BY <2>3 DEF SummaryWrites, ViewInv, readerVars, NoView
    <3> QED BY <3>8, <3>9
  <2>4. CASE RestWrites
    <3>1. PICK l \in Script : lines' = Append(lines, l)
      BY <2>4 DEF RestWrites
    <3>2. lines' \in Seq(Written) /\ OneSummary(lines')
      BY <3>1, AppendKeepsOne DEF LinesInv, Written, Script
    <3>3. lines \in Seq(Script) => lines' \in Seq(Script)
      BY <3>1
    <3>4. NoneOnOneLine(lines) => NoneOnOneLine(lines')
      BY <3>1, AppendKeepsNone DEF LinesInv, Written, Script
    <3>5. LinesInv'
      BY <2>4, <3>2, <3>3, <3>4 DEF LinesInv, RestWrites
    <3>6. ViewInv'
      BY <2>4 DEF RestWrites, ViewInv, readerVars, NoView
    <3> QED BY <3>5, <3>6
  <2>5. CASE RunnerEnds
    BY <2>5 DEF RunnerEnds, LinesInv, ViewInv, readerVars, NoView
  <2>6. CASE ReadPodLogs
    <3>1. LinesInv'
      BY <2>6 DEF ReadPodLogs, LinesInv, runnerVars
    <3>2. view' \in Seq(Kinds) /\ OneSummary(view')
      BY <2>6, ViewsHaveOneSummary DEF ReadPodLogs
    <3> QED BY <3>1, <3>2 DEF ViewInv
  <2>7. CASE \E ms : NextPod(ms)
    <3>1. lines' = <<>> /\ left' = <<>> /\ view' = NoView
      BY <2>7 DEF NextPod
    <3>2. ~\E n \in DOMAIN <<>> : TRUE
      OBVIOUS
    <3>3. OneSummary(lines)'
      BY <3>1, <3>2 DEF OneSummary
    <3>4. lines' \in Seq(Written) /\ lines' \in Seq(Script)
      BY <3>1
    <3>5. LinesInv'
      BY <3>1, <3>3, <3>4, LeftsStart DEF LinesInv
    <3> QED BY <3>1, <3>5 DEF ViewInv
  <2>8. CASE UNCHANGED logVars
    BY <2>8 DEF logVars, runnerVars, readerVars, LinesInv, ViewInv, NoView
  <2> QED BY <2>1, <2>2, <2>3, <2>4, <2>5, <2>6, <2>7, <2>8 DEF LogNext, ParseSummary, ReadFails
<1> QED BY <1>1, <1>2, PTL DEF LogSpec

(***************************************************************************)
(* A summary that was cut is an error, as long as no other JSON object was *)
(* read (findSummaryJSON).                                                 *)
(***************************************************************************)
THEOREM CutIsReported == LogSpec => []CutSummaryReported
<1>1. LogInv => CutSummaryReported
  <2> SUFFICES ASSUME LogInv, view # NoView, ToSet(view) \cap SummaryKinds # {},
                      \A i, j \in DOMAIN view : i <= j => ~Unmarshals(view, i, j)
               PROVE  FindSummaryJSON(view) \in Error
    BY DEF CutSummaryReported, Error
  <2>1. Len(view) \in Nat /\ DOMAIN view = 1 .. Len(view)
    BY DEF LogInv, ViewInv
  <2> QED BY <2>1, PartIsReported
<1> QED BY <1>1, LogSpecLogInv, PTL
-----------------------------------------------------------------------------
(* The balance of the braces.                                              *)

IsBalance(f, ls, a, i) ==
  f = [j \in a .. i |-> Depth(ls[j]) + (IF j = i THEN 0 ELSE f[j + 1])]

LEMMA BalanceExists ==
  ASSUME NEW ls, NEW i \in Nat
  PROVE  \E f : IsBalance(f, ls, 1, i)
<1> DEFINE S == {n \in Nat : \E f : IsBalance(f, ls, i + 1 - n, i)}
<1>1. 0 \in S
  <2> DEFINE f == [j \in i + 1 .. i |-> 0]
  <2>1. i + 1 .. i = {}
    OBVIOUS
  <2>2. f = [j \in i + 1 .. i |-> Depth(ls[j]) + (IF j = i THEN 0 ELSE f[j + 1])]
    BY <2>1
  <2>3. i + 1 - 0 = i + 1
    OBVIOUS
  <2> QED BY <2>2, <2>3 DEF IsBalance
<1>2. ASSUME NEW n \in 0 .. i - 1, n \in S PROVE n + 1 \in S
  <2> DEFINE a == i + 1 - n
  <2>1. PICK f : IsBalance(f, ls, a, i)
    BY <1>2
  <2>2. a \in Int /\ a - 1 \in Int /\ i + 1 - (n + 1) = a - 1 /\ n + 1 \in Nat
    OBVIOUS
  <2> HIDE DEF a
  <2> DEFINE g == [j \in a - 1 .. i |-> Depth(ls[j]) + (IF j = i THEN 0 ELSE f[j + 1])]
  <2>3. \A j \in a .. i : g[j] = f[j]
    <3>1. \A j \in a .. i : j \in a - 1 .. i
      BY <2>2
    <3>2. \A j \in a .. i : f[j] = Depth(ls[j]) + (IF j = i THEN 0 ELSE f[j + 1])
      BY <2>1 DEF IsBalance
    <3> QED BY <3>1, <3>2
  <2>4. \A j \in a - 1 .. i : j # i => f[j + 1] = g[j + 1]
    <3> HIDE DEF g
    <3>1. \A j \in a - 1 .. i : j # i => j + 1 \in a .. i
      BY <2>2
    <3> QED BY <2>3, <3>1
  <2>5. g = [j \in a - 1 .. i |-> Depth(ls[j]) + (IF j = i THEN 0 ELSE g[j + 1])]
    BY <2>4
  <2>6. IsBalance(g, ls, a - 1, i)
    BY <2>5 DEF IsBalance
  <2> QED BY <2>2, <2>6
<1>3. \A n \in 0 .. i : n \in S
  <2> HIDE DEF S
  <2> QED BY <1>1, <1>2, Induction
<1>4. i \in 0 .. i /\ i + 1 - i = 1
  OBVIOUS
<1> QED BY <1>3, <1>4

Balanced(f, i) == {j \in 1 .. i : f[j] = 0}

Balances(f, ls, i) ==
  /\ \A j \in 1 .. i : f[j] = Depth(ls[j]) + (IF j = i THEN 0 ELSE f[j + 1])
  /\ OpensAt(ls, i) = IF Balanced(f, i) = {} THEN 0 ELSE Max(Balanced(f, i))

LEMMA OpensAtTheLast ==
  ASSUME NEW ls, NEW i \in Nat
  PROVE  \E f : Balances(f, ls, i)
<1> DEFINE f == CHOOSE f : IsBalance(f, ls, 1, i)
<1>1. IsBalance(f, ls, 1, i)
  BY BalanceExists
<1>2. OpensAt(ls, i) = IF Balanced(f, i) = {} THEN 0 ELSE Max(Balanced(f, i))
  BY DEF OpensAt, IsBalance, Balanced
<1> HIDE DEF f
<1>3. \A j \in 1 .. i : f[j] = Depth(ls[j]) + (IF j = i THEN 0 ELSE f[j + 1])
  BY <1>1 DEF IsBalance
<1> QED BY <1>2, <1>3 DEF Balances

LEMMA MaxIs ==
  ASSUME NEW S \in SUBSET Nat, NEW n \in S, \A m \in S : m <= n
  PROVE  Max(S) = n
<1>1. \A m \in S : n >= m
  OBVIOUS
<1>2. Max(S) \in S /\ \A m \in S : Max(S) >= m
  BY <1>1 DEF Max
<1>3. Max(S) \in Nat /\ n \in Nat /\ Max(S) >= n /\ Max(S) <= n
  BY <1>2
<1> QED BY <1>3

\* A line without braces, or with as many of either, is one candidate.
LEMMA OpensHere ==
  ASSUME NEW ls, NEW i \in Nat \ {0}, Depth(ls[i]) = 0
  PROVE  OpensAt(ls, i) = i
<1>1. PICK f : Balances(f, ls, i)
  BY OpensAtTheLast
<1> DEFINE S == Balanced(f, i)
<1>2. i \in S
  BY <1>1 DEF Balances, Balanced
<1>3. S \in SUBSET Nat /\ \A m \in S : m <= i
  BY DEF Balanced
<1>4. OpensAt(ls, i) = Max(S)
  BY <1>1, <1>2 DEF Balances
<1> HIDE DEF S
<1> QED BY <1>2, <1>3, <1>4, MaxIs

\* Lines without braces between an opening and a closing one.
LEMMA OpensThere ==
  ASSUME NEW ls, NEW i \in Nat \ {0}, NEW j \in Nat, i < j,
         Depth(ls[i]) = -1, Depth(ls[j]) = 1,
         \A k \in i + 1 .. j - 1 : Depth(ls[k]) = 0
  PROVE  OpensAt(ls, j) = i
<1>1. PICK f : Balances(f, ls, j)
  BY OpensAtTheLast
<1>2. \A k \in 1 .. j : f[k] = Depth(ls[k]) + (IF k = j THEN 0 ELSE f[k + 1])
  BY <1>1 DEF Balances
<1> DEFINE S == {n \in Nat : f[j - n] = 1}
           N == j - i - 1
<1>3. N \in Nat
  OBVIOUS
<1>4. 0 \in S
  <2>1. j - 0 = j /\ j \in 1 .. j
    OBVIOUS
  <2>2. f[j] = 1 + 0
    BY <1>2, <2>1
  <2> QED BY <2>1, <2>2
<1>5. ASSUME NEW n \in 0 .. N - 1, n \in S PROVE n + 1 \in S
  <2> DEFINE k == j - (n + 1)
  <2>1. /\ k \in i + 1 .. j - 1 /\ k \in 1 .. j /\ k # j
        /\ k + 1 = j - n /\ n + 1 \in Nat
    BY <1>3
  <2>2. f[k + 1] = 1
    BY <1>5, <2>1
  <2>3. Depth(ls[k]) = 0
    BY <2>1
  <2>4. f[k] = Depth(ls[k]) + f[k + 1]
    <3> HIDE DEF k
    <3> QED BY <1>2, <2>1
  <2> HIDE DEF k
  <2>5. f[k] = 1
    BY <2>2, <2>3, <2>4
  <2> QED BY <2>1, <2>5 DEF k
<1>6. \A n \in 0 .. N : n \in S
  <2> HIDE DEF S, N
  <2> QED BY <1>3, <1>4, <1>5, Induction
<1>7. \A k \in i + 1 .. j : f[k] = 1
  <2> SUFFICES ASSUME NEW k \in i + 1 .. j PROVE f[k] = 1
    OBVIOUS
  <2>1. j - k \in 0 .. N /\ j - (j - k) = k
    OBVIOUS
  <2>2. f[j - (j - k)] = 1
    BY <1>6, <2>1
  <2> QED BY <2>1, <2>2
<1>8. f[i] = 0
  <2>1. i \in 1 .. j /\ i # j /\ i + 1 \in i + 1 .. j
    OBVIOUS
  <2>2. f[i] = Depth(ls[i]) + f[i + 1]
    BY <1>2, <2>1
  <2>3. f[i + 1] = 1
    BY <1>7, <2>1
  <2> QED BY <2>2, <2>3
<1> DEFINE B == Balanced(f, j)
<1>9. i \in B
  BY <1>8 DEF Balanced
<1>10. B \in SUBSET Nat /\ \A m \in B : m <= i
  <2>1. \A m \in B : m \in 1 .. j /\ f[m] = 0
    BY DEF Balanced
  <2>2. \A m \in B : ~(m \in i + 1 .. j)
    BY <1>7, <2>1
  <2> QED BY <2>1, <2>2
<1>11. OpensAt(ls, j) = Max(B)
  BY <1>1, <1>9 DEF Balances
<1> HIDE DEF B
<1> QED BY <1>9, <1>10, <1>11, MaxIs
-----------------------------------------------------------------------------
(* The lines of a summary.                                                 *)

LEMMA LinesOfPretty ==
  /\ DOMAIN Pretty = 1 .. 4
  /\ OutsideStrings(Pretty[1]) = -1 /\ OutsideStrings(Pretty[2]) = 0
  /\ OutsideStrings(Pretty[3]) = 0 /\ OutsideStrings(Pretty[4]) = 1
  /\ EndsWithBrace(Pretty[4]) /\ Pretty[2] = "metrics"
  /\ OutsideStrings("blank") = 0
<1>1. DOMAIN Pretty = 1 .. 4
  BY DEF Pretty
<1>2. Pretty[1] = "{" /\ Pretty[2] = "metrics" /\ Pretty[3] = "root_group" /\ Pretty[4] = "}"
  BY DEF Pretty
<1>3. /\ OutsideStrings("{") = -1 /\ OutsideStrings("metrics") = 0
      /\ OutsideStrings("root_group") = 0 /\ OutsideStrings("blank") = 0
  BY DEF OutsideStrings
<1>4. OutsideStrings("}") = 1
  BY DEF OutsideStrings
<1>5. EndsWithBrace("}")
  BY DEF EndsWithBrace
<1> QED BY <1>1, <1>2, <1>3, <1>4, <1>5

\* The strings of the lines from i to j have no braces, or as many of either.
Plain(ls, i, j) == \A k \in i .. j : InStrings(ls[k]) = 0

LEMMA DepthOfPlain ==
  ASSUME NEW ls, NEW i, NEW j, Plain(ls, i, j), NEW k \in i .. j,
         OutsideStrings(ls[k]) \in Int
  PROVE  Depth(ls[k]) = OutsideStrings(ls[k])
BY DEF Depth, Plain

LEMMA OnOneLine ==
  ASSUME NEW ls, NEW i \in Nat, NEW j \in Nat, NEW l, Reads(ls, i, j, <<l>>)
  PROVE  /\ \E k \in i .. j : ls[k] = l
         /\ ls[i] # "blank" /\ ls[j] # "blank" /\ i <= j => i = j /\ ls[j] = l
<1>1. PICK at \in [1 .. 1 -> i .. j] :
        /\ \A m \in 1 .. 1 : ls[at[m]] = <<l>>[m]
        /\ \A k \in i .. j : ls[k] = "blank" \/ \E m \in 1 .. 1 : at[m] = k
  <2>1. DOMAIN <<l>> = 1 .. 1
    OBVIOUS
  <2> QED BY <2>1 DEF Reads
<1>2. ls[at[1]] = l /\ at[1] \in i .. j
  <2>1. 1 \in 1 .. 1 /\ <<l>>[1] = l
    OBVIOUS
  <2> QED BY <1>1, <2>1
<1>3. \A k \in i .. j : ls[k] = "blank" \/ at[1] = k
  BY <1>1
<1>4. ASSUME ls[i] # "blank", ls[j] # "blank", i <= j PROVE i = j /\ ls[j] = l
  <2>1. i \in i .. j /\ j \in i .. j
    BY <1>4
  <2>2. at[1] = i /\ at[1] = j
    BY <1>3, <1>4, <2>1
  <2> QED BY <1>2, <2>2
<1> QED BY <1>2, <1>4

LEMMA OnSeveralLines ==
  ASSUME NEW ls, NEW i \in Nat, NEW j \in Nat, Reads(ls, i, j, Pretty)
  PROVE  /\ i < j /\ \E k \in i .. j : ls[k] = "metrics"
         /\ ls[i] # "blank" /\ ls[j] # "blank" /\ Plain(ls, i, j) =>
              /\ Depth(ls[i]) = -1 /\ Depth(ls[j]) = 1 /\ EndsWithBrace(ls[j])
              /\ \A k \in i + 1 .. j - 1 : Depth(ls[k]) = 0
<1>1. PICK at \in [1 .. 4 -> i .. j] :
        /\ \A m \in 1 .. 4 : ls[at[m]] = Pretty[m]
        /\ \A m, n \in 1 .. 4 : m < n => at[m] < at[n]
        /\ \A k \in i .. j : ls[k] = "blank" \/ \E m \in 1 .. 4 : at[m] = k
  BY LinesOfPretty DEF Reads
<1>2. /\ at[1] \in i .. j /\ at[2] \in i .. j /\ at[3] \in i .. j /\ at[4] \in i .. j
      /\ at[1] < at[2] /\ at[2] < at[3] /\ at[3] < at[4]
  <2>1. 1 \in 1 .. 4 /\ 2 \in 1 .. 4 /\ 3 \in 1 .. 4 /\ 4 \in 1 .. 4 /\ 1 < 2 /\ 2 < 3 /\ 3 < 4
    OBVIOUS
  <2> QED BY <1>1, <2>1
<1>3. /\ ls[at[1]] = Pretty[1] /\ ls[at[2]] = Pretty[2]
      /\ ls[at[3]] = Pretty[3] /\ ls[at[4]] = Pretty[4]
  BY <1>1
<1>4. \A k \in i .. j : \/ ls[k] = "blank"
                        \/ at[1] = k \/ at[2] = k \/ at[3] = k \/ at[4] = k
  <2>1. \A m \in 1 .. 4 : m = 1 \/ m = 2 \/ m = 3 \/ m = 4
    OBVIOUS
  <2> QED BY <1>1, <2>1
<1>5. ASSUME ls[i] # "blank", ls[j] # "blank", Plain(ls, i, j)
      PROVE  /\ Depth(ls[i]) = -1 /\ Depth(ls[j]) = 1 /\ EndsWithBrace(ls[j])
             /\ \A k \in i + 1 .. j - 1 : Depth(ls[k]) = 0
  <2>1. i \in i .. j /\ j \in i .. j
    BY <1>2
  <2>2. at[1] = i
    <3>1. at[1] = i \/ at[2] = i \/ at[3] = i \/ at[4] = i
      BY <1>4, <1>5, <2>1
    <3> QED BY <1>2, <3>1
  <2>3. at[4] = j
    <3>1. at[1] = j \/ at[2] = j \/ at[3] = j \/ at[4] = j
      BY <1>4, <1>5, <2>1
    <3> QED BY <1>2, <3>1
  <2>4. Depth(ls[i]) = -1 /\ Depth(ls[j]) = 1 /\ EndsWithBrace(ls[j])
    BY <1>3, <1>5, <2>1, <2>2, <2>3, LinesOfPretty, DepthOfPlain
  <2>5. ASSUME NEW k \in i + 1 .. j - 1 PROVE Depth(ls[k]) = 0
    <3>1. k \in i .. j /\ k # i /\ k # j
      OBVIOUS
    <3>2. ls[k] = "blank" \/ at[2] = k \/ at[3] = k
      BY <1>4, <2>2, <2>3, <3>1
    <3>3. OutsideStrings(ls[k]) = 0
      BY <1>3, <3>2, LinesOfPretty
    <3> QED BY <1>5, <3>1, <3>3, DepthOfPlain
  <2> QED BY <2>4, <2>5
<1>6. i < j
  BY <1>2
<1>7. \E k \in i .. j : ls[k] = "metrics"
  BY <1>2, <1>3, LinesOfPretty
<1> QED BY <1>5, <1>6, <1>7

\* The candidate that ends where the summary ends is the summary.
LEMMA SummaryOpens ==
  ASSUME NEW ls, NEW i \in Nat \ {0}, NEW j \in Nat \ {0}, i <= j, SummaryAt(ls, i, j),
         Plain(ls, i, j)
  PROVE  /\ EndsWithBrace(ls[j]) /\ OpensAt(ls, j) = i
         /\ \E k \in i .. j : ls[k] \in {"summary", "metrics"}
<1>1. ls[i] # "blank" /\ ls[j] # "blank"
  BY DEF SummaryAt
<1>2. CASE Reads(ls, i, j, <<"summary">>)
  <2>1. i = j /\ ls[j] = "summary"
    BY <1>1, <1>2, OnOneLine
  <2>2. Depth(ls[j]) = 0
    <3>1. OutsideStrings("summary") = 0
      BY DEF OutsideStrings
    <3> QED BY <2>1, <3>1, DepthOfPlain
  <2>3. EndsWithBrace("summary")
    BY DEF EndsWithBrace
  <2>4. OpensAt(ls, j) = j
    BY <2>1, <2>2, OpensHere
  <2>5. j \in i .. j
    OBVIOUS
  <2> QED BY <2>1, <2>3, <2>4, <2>5
<1>3. CASE Reads(ls, i, j, Pretty)
  <2>1. /\ i < j /\ \E k \in i .. j : ls[k] = "metrics"
        /\ Depth(ls[i]) = -1 /\ Depth(ls[j]) = 1 /\ EndsWithBrace(ls[j])
        /\ \A k \in i + 1 .. j - 1 : Depth(ls[k]) = 0
    BY <1>1, <1>3, OnSeveralLines
  <2>2. OpensAt(ls, j) = i
    BY <2>1, OpensThere
  <2> QED BY <2>1, <2>2
<1> QED BY <1>2, <1>3 DEF SummaryAt, IsSummary

\* A log has no other after it.
LEMMA NoOtherSummary ==
  ASSUME NEW ls, OneSummary(ls), Len(ls) \in Nat, DOMAIN ls = 1 .. Len(ls),
         NEW i \in Nat \ {0}, NEW j \in Nat \ {0}, i <= j, SummaryAt(ls, i, j),
         Plain(ls, i, j), NEW k \in j + 1 .. Len(ls)
  PROVE  ~IsSummary(ls, k, k)
<1>1. k \in Nat
  OBVIOUS
<1>2. ~Reads(ls, k, k, Pretty)
  BY <1>1, OnSeveralLines
<1>3. ASSUME Reads(ls, k, k, <<"summary">>) PROVE FALSE
  <2>1. ls[k] = "summary"
    <3>1. PICK n \in k .. k : ls[n] = "summary"
      BY <1>1, <1>3, OnOneLine
    <3>2. n = k
      BY <1>1
    <3> QED BY <3>1, <3>2
  <2>2. PICK n \in i .. j : ls[n] \in {"summary", "metrics"}
    BY SummaryOpens
  <2>3. n \in DOMAIN ls /\ k \in DOMAIN ls /\ n # k
    OBVIOUS
  <2> QED BY <2>1, <2>2, <2>3 DEF OneSummary
<1> QED BY <1>2, <1>3 DEF IsSummary

\* The scan comes to line n, having seen something malformed or not.
Reaches(f, ls, n) == \E malformed \in BOOLEAN : f[Len(ls)][FALSE] = f[n][malformed]

LEMMA ReachesFurther ==
  ASSUME NEW ls, NEW f, Scans(f, ls), Len(ls) \in Nat, NEW k \in 1 .. Len(ls),
         EndsWithBrace(ls[k]) => Depth(ls[k]) = 0, ~IsSummary(ls, k, k),
         Reaches(f, ls, k)
  PROVE  Reaches(f, ls, k - 1)
<1>1. PICK malformed \in BOOLEAN : f[Len(ls)][FALSE] = f[k][malformed]
  BY DEF Reaches
<1>2. k \in Nat \ {0} /\ k \in 0 .. Len(ls)
  OBVIOUS
<1>3. f[k][malformed] = Scanned(f, ls, k, malformed)
  BY <1>2 DEF Scans
<1>4. CASE ~EndsWithBrace(ls[k])
  <2>1. Scanned(f, ls, k, malformed) = f[k - 1][malformed]
    BY <1>2, <1>4 DEF Scanned
  <2> QED BY <1>1, <1>3, <2>1 DEF Reaches
<1>5. CASE EndsWithBrace(ls[k])
  <2> DEFINE u == malformed \/ ~Unmarshals(ls, k, k)
  <2>1. OpensAt(ls, k) = k
    BY <1>2, <1>5, OpensHere
  <2>2. Scanned(f, ls, k, malformed) = f[k - 1][u]
    BY <1>2, <1>5, <2>1 DEF Scanned
  <2>3. u \in BOOLEAN
    OBVIOUS
  <2> HIDE DEF u
  <2> QED BY <1>1, <1>3, <2>2, <2>3 DEF Reaches
<1> QED BY <1>4, <1>5

(***************************************************************************)
(* The scan comes to the last line of the summary, for it passes over the  *)
(* lines after it, and there finds it.                                     *)
(***************************************************************************)
LEMMA WholeIsFound ==
  ASSUME NEW ls, OneSummary(ls), Len(ls) \in Nat, DOMAIN ls = 1 .. Len(ls),
         NEW i \in DOMAIN ls, NEW j \in DOMAIN ls, i <= j, SummaryAt(ls, i, j),
         Plain(ls, i, j), BalancedAfter(ls, j)
  PROVE  FindSummaryJSON(ls) = Found(i, j)
<1> DEFINE L == Len(ls)
<1>1. PICK f : Scans(f, ls)
  BY ScanUnfolds DEF Scans
<1>2. i \in Nat \ {0} /\ j \in Nat \ {0} /\ L \in Nat /\ j <= L /\ L - j \in Nat
  OBVIOUS
<1> DEFINE S == {n \in Nat : Reaches(f, ls, L - n)}
<1>3. 0 \in S
  <2>1. L - 0 = L
    OBVIOUS
  <2> QED BY <2>1 DEF Reaches
<1>4. ASSUME NEW n \in 0 .. (L - j) - 1, n \in S PROVE n + 1 \in S
  <2> DEFINE k == L - n
  <2>1. k \in j + 1 .. L /\ k \in 1 .. L /\ L - (n + 1) = k - 1 /\ n + 1 \in Nat
    BY <1>2
  <2>2. Reaches(f, ls, k)
    BY <1>4
  <2> HIDE DEF k
  <2>3. ~IsSummary(ls, k, k)
    BY <1>2, <2>1, NoOtherSummary
  <2>4. EndsWithBrace(ls[k]) => Depth(ls[k]) = 0
    BY <2>1 DEF BalancedAfter
  <2>5. Reaches(f, ls, k - 1)
    BY <1>1, <2>1, <2>2, <2>3, <2>4, ReachesFurther
  <2> QED BY <2>1, <2>5
<1>5. \A n \in 0 .. L - j : n \in S
  <2> HIDE DEF S
  <2> QED BY <1>2, <1>3, <1>4, Induction
<1>6. Reaches(f, ls, j)
  <2>1. L - j \in 0 .. L - j /\ L - (L - j) = j
    BY <1>2
  <2> QED BY <1>5, <2>1
<1>7. PICK malformed \in BOOLEAN : f[L][FALSE] = f[j][malformed]
  BY <1>6 DEF Reaches
<1>8. f[j][malformed] = Scanned(f, ls, j, malformed)
  <2>1. j \in 0 .. L
    BY <1>2
  <2> QED BY <1>1, <2>1 DEF Scans
<1>9. EndsWithBrace(ls[j]) /\ OpensAt(ls, j) = i
  BY <1>2, SummaryOpens
<1>10. IsSummary(ls, i, j)
  BY DEF SummaryAt
<1>11. Scanned(f, ls, j, malformed) = Found(i, j)
  BY <1>2, <1>9, <1>10 DEF Scanned
<1> QED BY <1>1, <1>7, <1>8, <1>11 DEF Scans

(***************************************************************************)
(* A summary that was read whole is found, whatever comes before it, if    *)
(* the braces in its strings are balanced line by line, and those of the   *)
(* lines after it that end with a brace (findSummaryJSON).                 *)
(***************************************************************************)
THEOREM WholeSummaryIsFound == LogSpec => []SummaryFound
<1>1. LogInv => SummaryFound
  <2> SUFFICES ASSUME LogInv, view # NoView, NEW i \in DOMAIN view, NEW j \in DOMAIN view,
                      i <= j, SummaryAt(view, i, j), Plain(view, i, j),
                      BalancedAfter(view, j)
               PROVE  FindSummaryJSON(view) = Found(i, j)
    BY DEF SummaryFound, Plain
  <2>1. OneSummary(view) /\ Len(view) \in Nat /\ DOMAIN view = 1 .. Len(view)
    BY DEF LogInv, ViewInv
  <2> QED BY <2>1, WholeIsFound
<1> QED BY <1>1, LogSpecLogInv, PTL

=============================================================================

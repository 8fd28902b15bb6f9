------------------------------- MODULE Summary -------------------------------
(***************************************************************************)
(* The metrics of a run on the k6-operator backend                         *)
(* (internal/provider/operator/summary.go): each runner pod ends with a    *)
(* handleSummary object in its log, which the backend looks for among the  *)
(* lines it can read, pod after pod, and then aggregates.                  *)
(*                                                                         *)
(* A log is a sequence of lines, and a line is one of the kinds below: all *)
(* that findSummaryJSON asks of a line is whether it is blank, whether it  *)
(* ends with a brace, which braces it has, and whether the lines from a    *)
(* closing brace back to its opening one are JSON. The runner (k6, which   *)
(* is not in the repository) writes the output of the script, then the     *)
(* summary, on one line or pretty-printed, then more output; standard      *)
(* error may fall between two lines of the summary.                        *)
(***************************************************************************)
EXTENDS Integers, SequencesExt

CONSTANTS
  Pods,        \* the number of runner pods
  Summaries,   \* the summaries a runner may write
  TailLines,   \* how many lines are read from the end of a log
  MaxBefore,   \* bound on the lines before the summary
  MaxAfter     \* bound on the lines after it

ASSUME PodsAssumption   == Pods \in Nat \ {0}
ASSUME TailAssumption   == TailLines \in Nat \ {0}
ASSUME LengthAssumption == MaxBefore \in Nat /\ MaxAfter \in Nat

(***************************************************************************)
(* What findSummaryJSON asks of a line. "{" and "}" are these braces alone,*)
(* "text{" is a line of text with a brace left open, "object" a JSON       *)
(* object that is not a summary. A summary is the line "summary" or the    *)
(* lines of Pretty; "cut" and "cut}" are what remains of "summary" when    *)
(* the limit of bytes falls into it, "cut}" if it falls behind a brace.    *)
(***************************************************************************)
Script == {"blank", "text", "text{", "{", "}", "object"}
Pretty == <<"{", "metrics", "root_group", "}">>

SummaryKinds == {"summary", "metrics", "root_group", "cut", "cut}"}
Kinds == Script \cup SummaryKinds

EndsWithBrace(l) == l \in {"}", "object", "root_group", "summary", "cut}"}

HasOpeningBrace(l) == l \in Kinds \ {"blank", "text", "}"}

\* The lines from i to j, which JSON takes together, are those of b and blank.
Reads(ls, i, j, b) ==
  \E at \in [DOMAIN b -> i .. j] :
    /\ \A m \in DOMAIN b : ls[at[m]] = b[m]
    /\ \A m, n \in DOMAIN b : m < n => at[m] < at[n]
    /\ \A k \in i .. j : ls[k] = "blank" \/ \E m \in DOMAIN b : at[m] = k

IsSummary(ls, i, j) == Reads(ls, i, j, <<"summary">>) \/ Reads(ls, i, j, Pretty)

Unmarshals(ls, i, j) ==
  \/ IsSummary(ls, i, j)
  \/ \E b \in {<<"object">>, <<"{", "}">>, <<"{", "root_group", "}">>} : Reads(ls, i, j, b)

(***************************************************************************)
(* k6Summary, for the metrics the plugin extracts. Absent keys are NoKey;  *)
(* the failed rate is in percent; p(99) is treated like p(95). A summary   *)
(* has names of groups, checks and metrics in it, which may have braces:   *)
(* inStrings counts, for each of its lines, the closing braces less the    *)
(* opening ones in its strings.                                            *)
(***************************************************************************)
NoKey == -1
SummaryType == [ count : Nat \cup {NoKey},  rate : Nat \cup {NoKey},
                 failed : 0 .. 100 \cup {NoKey},
                 med : Nat \cup {NoKey}, p50 : Nat \cup {NoKey},
                 p95 : Nat \cup {NoKey},
                 inStrings : [SummaryKinds -> Int] ]

\* k6 divides the count by the duration for the rate.
ASSUME SummariesAssumption ==
  /\ Summaries \subseteq SummaryType
  /\ \A s \in Summaries : s.count > 0 => s.rate > 0

VARIABLES
  (* the runner that is read next *)
  k6,         \* what it writes: "script", "summary", "rest"; "over"
  lines,      \* its log
  before,     \* the lines it has written before the summary
  after,      \* and after it
  left,       \* the lines of the summary still to come
  written,    \* the summary it writes
  (* parseSummaryFromPods *)
  view,       \* the part of the log it has read; "unread" when it has not
  podsRead,   \* the pods it is done with
  collected   \* their metrics

runnerVars == <<k6, lines, before, after, left, written>>
readerVars == <<view, podsRead, collected>>
logVars == <<runnerVars, readerVars>>

NoView == <<"unread">>

LogInit ==
  /\ k6 = "script"
  /\ lines = <<>>
  /\ before = 0
  /\ after = 0
  /\ left = <<>>
  /\ written \in Summaries
  /\ view = NoView
  /\ podsRead = 0
  /\ collected = <<>>

-----------------------------------------------------------------------------
(* The runner.                                                             *)

\* Output of the script, or of k6, before the summary.
ScriptWrites ==
  /\ k6 = "script"
  /\ before < MaxBefore
  /\ \E l \in Script : lines' = Append(lines, l)
  /\ before' = before + 1
  /\ UNCHANGED <<k6, after, left, written, readerVars>>

\* handleSummary returned an object; or the script exports none, or died.
SummaryStarts ==
  /\ k6 = "script"
  /\ \/ k6' = "summary" /\ left' \in {<<"summary">>, Pretty}
     \/ k6' = "rest" /\ UNCHANGED left
  /\ UNCHANGED <<lines, before, after, written, readerVars>>

SummaryWrites ==
  /\ k6 = "summary"
  /\ left # <<>>
  /\ lines' = Append(lines, Head(left))
  /\ left' = Tail(left)
  /\ k6' = IF Len(left) = 1 THEN "rest" ELSE k6
  /\ UNCHANGED <<before, after, written, readerVars>>

\* Output after the summary, and of standard error while it is written.
RestWrites ==
  /\ k6 \in {"summary", "rest"}
  /\ after < MaxAfter
  /\ \E l \in Script :
       /\ k6 = "summary" => l = "text"
       /\ lines' = Append(lines, l)
  /\ after' = after + 1
  /\ UNCHANGED <<k6, before, left, written, readerVars>>

RunnerEnds ==
  /\ k6 = "rest"
  /\ k6' = "over"
  /\ UNCHANGED <<lines, before, after, left, written, readerVars>>

-----------------------------------------------------------------------------
(* findSummaryJSON.                                                        *)

\* The closing braces of a line less the opening ones, in its strings and
\* outside of them; they are counted together.
InStrings(l) == IF l \in SummaryKinds THEN written.inStrings[l] ELSE 0

OutsideStrings(l) ==
  CASE l \in {"{", "text{", "cut", "cut}"} -> -1
    [] l = "}" -> 1
    [] OTHER   -> 0

Depth(l) == InStrings(l) + OutsideStrings(l)

\* The line at which the braces from line i backwards are balanced; 0 when
\* they never are.
OpensAt(ls, i) ==
  LET balance[j \in 1 .. i] ==
        Depth(ls[j]) + (IF j = i THEN 0 ELSE balance[j + 1])
      balanced == {j \in 1 .. i : balance[j] = 0}
  IN  IF balanced = {} THEN 0 ELSE Max(balanced)

Found(i, j) == [type |-> "summary", from |-> i, to |-> j]
Truncated == [type |-> "truncated"]
Malformed == [type |-> "malformed"]
Nothing   == [type |-> "nothing"]

\* The scan returns what its last step knows.
BugFindSummaryJSON(ls) ==
  LET scan[i \in 0 .. Len(ls)] == [malformed \in BOOLEAN |->
        IF i = 0
        THEN IF malformed THEN Malformed ELSE Nothing
        ELSE IF ~EndsWithBrace(ls[i]) THEN scan[i - 1][malformed]
        ELSE LET j == OpensAt(ls, i)
             IN  CASE j = 0 -> Truncated
                   [] j # 0 /\ IsSummary(ls, j, i) -> Found(j, i)
                   [] OTHER -> scan[j - 1][malformed \/ ~Unmarshals(ls, j, i)]]
  IN  scan[Len(ls)][FALSE]

\* Gives up at the first object that is not a summary.
BugFindSummaryJSONFirst(ls) ==
  LET ends == {i \in DOMAIN ls : EndsWithBrace(ls[i])}
      j == OpensAt(ls, Max(ends))
  IN  CASE ends = {} -> Nothing
        [] ends # {} /\ j = 0 -> Truncated
        [] ends # {} /\ j # 0 /\ IsSummary(ls, j, Max(ends)) -> Found(j, Max(ends))
        [] OTHER -> Malformed

(***************************************************************************)
(* Backwards from line i: a candidate ends at each line with a brace at    *)
(* its end; one that has no beginning is the end of the search, one that   *)
(* is no JSON, or no summary, sends it on to the lines before it. Only a   *)
(* log without candidates is asked for an opening brace.                   *)
(***************************************************************************)
FindSummaryJSON(ls) ==
  LET scan[i \in 0 .. Len(ls)] == [malformed \in BOOLEAN |->
        IF i = 0
        THEN CASE malformed -> Malformed
               [] ~malformed /\ (\A l \in ToSet(ls) : ~EndsWithBrace(l))
                             /\ (\E l \in ToSet(ls) : HasOpeningBrace(l))
                  -> Truncated
               [] OTHER -> Nothing
        ELSE IF ~EndsWithBrace(ls[i]) THEN scan[i - 1][malformed]
        ELSE LET j == OpensAt(ls, i)
             IN  CASE j = 0 -> Truncated
                   [] j # 0 /\ IsSummary(ls, j, i) -> Found(j, i)
                   [] OTHER -> scan[j - 1][malformed \/ ~Unmarshals(ls, j, i)]]
  IN  scan[Len(ls)][FALSE]

-----------------------------------------------------------------------------
(* The values.                                                             *)

Value(v) == IF v = NoKey THEN 0 ELSE v

\* "med", with "p(50)" as fallback; the requests that failed, times 100.
ExtractMetrics(s) ==
  [ count       |-> Value(s.count),
    rate        |-> Value(s.rate),
    failed      |-> Value(s.failed),
    failedCount |-> Value(s.failed) * Value(s.count),
    p50         |-> IF s.med # NoKey THEN s.med ELSE Value(s.p50),
    p95         |-> Value(s.p95) ]

Sum(terms) ==
  LET sum[n \in 0 .. Len(terms)] == IF n = 0 THEN 0 ELSE sum[n - 1] + terms[n]
  IN  sum[Len(terms)]

Total(ms, field)    == Sum([n \in DOMAIN ms |-> ms[n][field]])
Weighted(ms, field) == Sum([n \in DOMAIN ms |-> ms[n][field] * ms[n].count])

\* A result is a record of fractions, numerator and denominator.
Whole(n) == <<n, 1>>
ZeroResult == [failed |-> Whole(0), p50 |-> Whole(0), p95 |-> Whole(0), rate |-> 0]

\* Takes the last pod's rate for that of all.
BugAggregateRate(ms) ==
  LET count == Total(ms, "count")
  IN  CASE ms = <<>> -> ZeroResult
        [] ms # <<>> /\ count = 0 -> ZeroResult
        [] OTHER ->
             [ failed |-> << Total(ms, "failedCount"), count >>,
               p50    |-> << Weighted(ms, "p50"), count >>,
               p95    |-> << Weighted(ms, "p95"), count >>,
               rate   |-> Last(ms).rate ]

\* Divides the weighted sums by the number of pods.
BugAggregateWeights(ms) ==
  IF ms = <<>> THEN ZeroResult
  ELSE [ failed |-> << Total(ms, "failedCount"), Len(ms) >>,
         p50    |-> << Weighted(ms, "p50"), Len(ms) >>,
         p95    |-> << Weighted(ms, "p95"), Len(ms) >>,
         rate   |-> Total(ms, "rate") ]

\* Averages weighted by the requests of the pods, and the sum of the rates.
AggregateMetrics(ms) ==
  LET count == Total(ms, "count")
  IN  CASE ms = <<>>   -> ZeroResult
        [] Len(ms) = 1 -> [ failed |-> Whole(ms[1].failed), p50 |-> Whole(ms[1].p50),
                            p95 |-> Whole(ms[1].p95), rate |-> ms[1].rate ]
        [] Len(ms) > 1 /\ count = 0 -> ZeroResult
        [] OTHER ->
             [ failed |-> << Total(ms, "failedCount"), count >>,
               p50    |-> << Weighted(ms, "p50"), count >>,
               p95    |-> << Weighted(ms, "p95"), count >>,
               rate   |-> Total(ms, "rate") ]

-----------------------------------------------------------------------------
(* parseSummaryFromPods, on the pods of a run that is over.                *)

(***************************************************************************)
(* The last TailLines lines, of which the limit of bytes may cut off the   *)
(* end, between two lines or within a summary on one line.                 *)
(***************************************************************************)
Views ==
  LET tail == SubSeq(lines, IF Len(lines) > TailLines
                            THEN Len(lines) - TailLines + 1 ELSE 1, Len(lines))
      cuts == {SubSeq(tail, 1, n) : n \in 0 .. Len(tail)}
  IN  cuts \cup UNION { {Append(Front(v), "cut"), Append(Front(v), "cut}")} :
                          v \in {u \in cuts : u # <<>> /\ Last(u) = "summary"} }

ReadPodLogs ==
  /\ podsRead < Pods
  /\ k6 = "over"
  /\ view = NoView
  /\ view' \in Views
  /\ UNCHANGED <<runnerVars, podsRead, collected>>

\* The next pod's runner has written its log by the time it is read.
NextPod(ms) ==
  /\ collected' = ms
  /\ podsRead' = podsRead + 1
  /\ view' = NoView
  /\ k6' = "script"
  /\ lines' = <<>>
  /\ before' = 0
  /\ after' = 0
  /\ left' = <<>>
  /\ written' \in Summaries

ParseSummary ==
  /\ view # NoView
  /\ NextPod(IF FindSummaryJSON(view).type = "summary"
             THEN Append(collected, ExtractMetrics(written)) ELSE collected)

\* The log cannot be read: the pod is skipped.
ReadFails ==
  /\ podsRead < Pods
  /\ k6 = "over"
  /\ view = NoView
  /\ NextPod(collected)

Result == AggregateMetrics(collected)

LogNext ==
  \/ /\ podsRead < Pods
     /\ ScriptWrites \/ SummaryStarts \/ SummaryWrites \/ RestWrites \/ RunnerEnds
  \/ ReadPodLogs \/ ParseSummary \/ ReadFails

LogSpec == LogInit /\ [][LogNext]_logVars

-----------------------------------------------------------------------------
(* Safety.                                                                 *)

\* The summary is the lines from i to j of the log v.
SummaryAt(v, i, j) ==
  /\ v[i] # "blank" /\ v[j] # "blank"
  /\ IsSummary(v, i, j)

BalancedAfter(v, j) ==
  \A k \in j + 1 .. Len(v) : EndsWithBrace(v[k]) => Depth(v[k]) = 0

(***************************************************************************)
(* A summary that was read whole is found, whatever the script has written *)
(* before it, unbalanced braces included, if the braces in the strings of  *)
(* each of its lines are balanced: those are counted like the others ("not *)
(* inside strings, but sufficient for structured handleSummary JSON"), so  *)
(* that a name with a brace left open hides the summary. After it, lines   *)
(* may end with a brace only if they are balanced (findSummaryJSON counts  *)
(* braces from the end, and gives up when it cannot balance them).         *)
(***************************************************************************)
SummaryFound ==
  view # NoView =>
    \A i, j \in DOMAIN view :
      ( /\ i <= j
        /\ SummaryAt(view, i, j)
        /\ \A k \in i .. j : InStrings(view[k]) = 0
        /\ BalancedAfter(view, j) )
      => FindSummaryJSON(view) = Found(i, j)

(***************************************************************************)
(* A summary of which only a part was read is reported as an error, never  *)
(* as an absent one (findSummaryJSON, step 8), as long as no other JSON    *)
(* object was read: a candidate keeps the last lines of the function from  *)
(* looking for an opening brace.                                           *)
(***************************************************************************)
CutSummaryReported ==
  ( /\ view # NoView
    /\ ToSet(view) \cap SummaryKinds # {}
    /\ \A i, j \in DOMAIN view : i <= j => ~Unmarshals(view, i, j) )
  => FindSummaryJSON(view) \in {Truncated, Malformed}

\* n / d is between the values of a field for the pods with requests.
Between(x, field) ==
  LET served == {m \in ToSet(collected) : m.count > 0}
  IN  /\ x[2] > 0
      /\ \E m \in served : x[1] >= m[field] * x[2]
      /\ \E m \in served : x[1] <= m[field] * x[2]

(***************************************************************************)
(* The aggregates are those of the requests: defined, and between the      *)
(* values of the pods that served some, whichever pods were skipped and    *)
(* whatever pods without requests are among them (aggregateMetrics).       *)
(***************************************************************************)
AggregateOfRequests ==
  (\E m \in ToSet(collected) : m.count > 0) =>
    /\ Between(Result.failed, "failed")
    /\ Between(Result.p50, "p50")
    /\ Between(Result.p95, "p95")

(***************************************************************************)
(* "Zero http_reqs means no data" (GetRunResult, on metrics it could not   *)
(* read): the reported rate is zero only if no pod whose summary was read  *)
(* had requests.                                                           *)
(***************************************************************************)
ZeroMeansNoData ==
  Result.rate = 0 => \A m \in ToSet(collected) : m.count = 0

=============================================================================

----------------------------- MODULE Latencies -----------------------------
(***************************************************************************)
(* The rolling window of stage timings and its summary (src/src/report.rs),*)
(* as detect and object workers fill it and snapshot() and report() read   *)
(* it.  q * n in 32-bit floats, then ceil, is taken to be exact.           *)
(***************************************************************************)
EXTENDS Integers, Sequences, FiniteSets

CONSTANTS
  Windows,     \* sizes of a window; Unbounded keeps every sample
  Unbounded,
  Workloads    \* sequences of samples, in microseconds

\* A window of no samples would never stop dropping them.
ASSUME LatenciesAssumption ==
  /\ Windows \subseteq (Nat \ {0}) \union {Unbounded}
  /\ Unbounded \notin Nat
  /\ Workloads \subseteq Seq(Nat)

VARIABLES
  window, samples,
  workload,    \* the samples this one is given
  given        \* how many of them so far

latencyVars == <<window, samples, workload, given>>

LatenciesInit ==
  /\ window = Unbounded /\ samples = <<>>
  /\ workload = <<>> /\ given = 0

\* new(), with_capacity(n) and rolling(n)
NewLatencies ==
  /\ workload = <<>>
  /\ window' \in Windows
  /\ workload' \in Workloads
  /\ UNCHANGED <<samples, given>>

\* Mutant: room is made when the window is overfull.
RoomOverfull == IF window = Unbounded \/ Len(samples) <= window THEN samples
                ELSE SubSeq(samples, Len(samples) - window + 1, Len(samples))

\* The oldest samples go until one more fits.
Room == IF window = Unbounded \/ Len(samples) < window THEN samples
        ELSE SubSeq(samples, Len(samples) - window + 2, Len(samples))

RecordSample ==
  /\ given < Len(workload)
  /\ samples' = Append(Room, workload[given + 1])
  /\ given' = given + 1
  /\ UNCHANGED <<window, workload>>

LatenciesNext == NewLatencies \/ RecordSample

LatenciesSpec == LatenciesInit /\ [][LatenciesNext]_latencyVars

-----------------------------------------------------------------------------
(* summary()                                                               *)

\* The samples, ascending: at each place the one that as many come before.  It is SortSeq
\* of module TLC, which no prover sees into.
Sorted ==
  LET before(i) == {j \in DOMAIN samples : \/ samples[j] < samples[i]
                                           \/ samples[j] = samples[i] /\ j < i}
  IN  [place \in DOMAIN samples |->
         samples[CHOOSE i \in DOMAIN samples : Cardinality(before(i)) = place - 1]]

\* Mutant: the rank is the sample below the quantile.
NearestRankBelow(sorted, percent) ==
  LET rank == (percent * Len(sorted)) \div 100
  IN  sorted[IF rank = 0 THEN 1 ELSE rank]

\* The rank, at least the first and at most the last.
NearestRank(sorted, percent) ==
  LET rank == (percent * Len(sorted) + 99) \div 100
  IN  sorted[CASE rank = 0 -> 1 [] rank > Len(sorted) -> Len(sorted) [] OTHER -> rank]

Summary ==
  LET sorted == Sorted
      sum[i \in 0..Len(sorted)] == IF i = 0 THEN 0 ELSE sum[i - 1] + sorted[i]
  IN  [p50 |-> NearestRank(sorted, 50), p95 |-> NearestRank(sorted, 95),
       max |-> sorted[Len(sorted)],
       mean |-> sum[Len(sorted)] \div Len(sorted), count |-> Len(sorted)]

-----------------------------------------------------------------------------
(* Properties                                                              *)

LatenciesTypeOK ==
  /\ window \in (Nat \ {0}) \union {Unbounded}
  /\ samples \in Seq(Nat) /\ workload \in Seq(Nat)
  /\ given \in 0..Len(workload)

\* The place in the workload of the first sample still counted.
Oldest == IF window = Unbounded \/ given <= window THEN 1 ELSE given - window + 1

\* The window is the last of what was recorded, in order, and never more than it
\* may hold (report.rs:115-122).
WindowIsRecent ==
  /\ Len(samples) = given - Oldest + 1
  /\ \A i \in 1..Len(samples) : samples[i] = workload[Oldest + i - 1]

AtMost(value) == Cardinality({i \in Oldest..given : workload[i] <= value})
Below(value) == Cardinality({i \in Oldest..given : workload[i] < value})
Quantile(value, percent) ==
  /\ AtMost(value) * 100 >= percent * (given - Oldest + 1)
  /\ Below(value) * 100 < percent * (given - Oldest + 1)

\* A summary is of the window: a percentile is the smallest of its samples with
\* that share of them at or below it, nothing is interpolated and the tail is not
\* rounded away (report.rs:136-160).
SummaryDescribesWindow ==
  given > 0 =>
    /\ WindowIsRecent
    /\ Quantile(Summary.p50, 50) /\ Quantile(Summary.p95, 95)
    /\ Summary.max \in {workload[i] : i \in Oldest..given}
    /\ AtMost(Summary.max) = Summary.count
    /\ Summary.count = given - Oldest + 1
=============================================================================

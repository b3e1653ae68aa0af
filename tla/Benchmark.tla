----------------------------- MODULE Benchmark -----------------------------
(***************************************************************************)
(* The benchmark program's argument and its statistics.  Times are whole   *)
(* microseconds; the ceiling is taken of the exact quotient, which is what *)
(* the floating-point expression gives for the percentages in use and for  *)
(* the numbers of samples a benchmark has.                                 *)
(***************************************************************************)
EXTENDS Integers, Sequences, FiniteSetsExt, TLC

CONSTANTS
  UllMax,  \* the largest unsigned long long
  SizeMax, \* the largest size_t
  kDefaultOperations

ASSUME WidthAssumption == UllMax \in Nat \ {0} /\ SizeMax \in 1..UllMax
ASSUME DefaultAssumption == kDefaultOperations \in 1..SizeMax

Rejected == 0

Digit == [c \in {"0", "1", "2", "3", "4", "5", "6", "7", "8", "9"} |->
            CHOOSE d \in 0..9 :
              <<"0", "1", "2", "3", "4", "5", "6", "7", "8", "9">>[d + 1] = c]

Decimal(digits) ==
  LET upTo[i \in 0..Len(digits)] ==
        IF i = 0 THEN 0 ELSE 10 * upTo[i - 1] + Digit[digits[i]]
  IN  upTo[Len(digits)]

\* std::stoull: spaces, a sign, digits.  A minus sign negates modulo the width.
\* The value and the number of characters it took; none of them means it threw.
stoull(input) ==
  LET From(i, chars) == \* the first position from i on that holds none of chars
        CHOOSE j \in i..(Len(input) + 1) :
          /\ \A m \in i..(j - 1) : input[m] \in chars
          /\ j > Len(input) \/ input[j] \notin chars
      sign == From(1, {" "})
      first == IF sign <= Len(input) /\ input[sign] \in {"+", "-"}
               THEN sign + 1 ELSE sign
      end == From(first, DOMAIN Digit)
      magnitude == Decimal(SubSeq(input, first, end - 1))
  IN  IF end = first \/ magnitude > UllMax THEN [value |-> 0, parsed |-> 0]
      ELSE [value |-> IF input[sign] = "-" THEN (-magnitude) % (UllMax + 1)
                      ELSE magnitude,
            parsed |-> end - 1]

\* Mutant of ParseOperations: what follows the number is ignored.
ParseOperationsPrefix(arguments) ==
  IF arguments = <<>> THEN kDefaultOperations
  ELSE stoull(arguments[1]).value

\* The number of operations to run, or Rejected: main prints why and fails.
ParseOperations(arguments) ==
  IF arguments = <<>> THEN kDefaultOperations
  ELSE LET input == arguments[1]
           number == stoull(input)
       IN  IF /\ Len(arguments) = 1
              /\ input # <<>> /\ input[1] # "-"
              /\ number.parsed = Len(input) /\ number.value # 0
              /\ number.value <= SizeMax
           THEN number.value ELSE Rejected

----------------------------------------------------------------------------
\* Mutant of PercentileNearestRank: the rank is rounded down.
PercentileFloor(samples, percentile) ==
  IF samples = <<>> THEN 0
  ELSE LET sorted == SortSeq(samples, <)
           rank == (percentile * Len(sorted)) \div 100
       IN  sorted[Min({Max({1, rank}), Len(sorted)})]

\* Mutant of PercentileNearestRank: the samples are not sorted first.
PercentileUnsorted(samples, percentile) ==
  IF samples = <<>> THEN 0
  ELSE samples[Max({1, (percentile * Len(samples) + 99) \div 100})]

PercentileNearestRank(samples, percentile) ==
  IF samples = <<>> THEN 0
  ELSE LET sorted == SortSeq(samples, <)
           rank == (percentile * Len(sorted) + 99) \div 100
       IN  sorted[Min({Max({1, rank}), Len(sorted)})]

\* Averages are rounded down.
ComputeLatencyStats(samples) ==
  IF samples = <<>> THEN [average |-> 0, p50 |-> 0, p95 |-> 0, p99 |-> 0]
  ELSE [average |-> FoldFunction(+, 0, samples) \div Len(samples),
        p50 |-> PercentileNearestRank(samples, 50),
        p95 |-> PercentileNearestRank(samples, 95),
        p99 |-> PercentileNearestRank(samples, 99)]
=============================================================================

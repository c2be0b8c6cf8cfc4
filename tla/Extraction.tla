------------------------------ MODULE Extraction ------------------------------
(***************************************************************************)
(* The signals that the configuration has taken out of the output of       *)
(* commands (extract.rs), and of which commands they are taken             *)
(* (analysis.rs).                                                          *)
(*                                                                         *)
(* A line of output says per pattern what matching it yields: nothing, a   *)
(* match whose `val` is no number, or a number. A value is a fraction      *)
(* [num, den].                                                             *)
(***************************************************************************)
EXTENDS Rules

CONSTANTS NoMatch, NoNumber

Aggregates == {"count", "last", "max", "min", "avg"}
Extract(id, pattern, aggregate) == [id |-> id, pattern |-> pattern, aggregate |-> aggregate]

Fraction(n, d) == [num |-> n, den |-> d]

Matching(lines, pattern) == Pick(lines, {i \in DOMAIN lines : lines[i][pattern] # NoMatch})

(* Mutant: a match that is no number counts as zero.                        *)
CapturedAsZero(lines, pattern) ==
    LET with == Matching(lines, pattern)
    IN  [i \in DOMAIN with |-> IF with[i][pattern] = NoNumber THEN 0 ELSE with[i][pattern]]

(* What `val` captured as far as it is a number, line by line.               *)
Captured(lines, pattern) ==
    LET with == Pick(lines, {i \in DOMAIN lines : lines[i][pattern] \notin {NoMatch, NoNumber}})
    IN  [i \in DOMAIN with |-> with[i][pattern]]

Aggregated(values, aggregate) ==
    CASE aggregate = "last" -> Fraction(Last(values), 1)
      [] aggregate = "max" -> Fraction(Sorted(values)[Len(values)], 1)
      [] aggregate = "min" -> Fraction(Sorted(values)[1], 1)
      [] aggregate = "avg" -> Fraction(SumOver(values), Len(values))

(* extract_signals, in the order of the extracts. A count is always there, of *)
(* the others only those for which there was a number.                       *)
ExtractSignals(lines, extracts) ==
    LET taken == Pick(extracts, {i \in DOMAIN extracts :
                     extracts[i].aggregate = "count" \/ Captured(lines, extracts[i].pattern) # <<>>})
    IN  [i \in DOMAIN taken |->
            Signal(taken[i].id,
                   Number(IF taken[i].aggregate = "count"
                          THEN Fraction(Len(Matching(lines, taken[i].pattern)), 1)
                          ELSE Aggregated(Captured(lines, taken[i].pattern), taken[i].aggregate)),
                   NoSamples)]

(* run_diagnostics: only commands that succeeded have output to extract from,  *)
(* and only those of the first repetition.                                   *)
ExtractedSignals(repetitions) ==
    IF repetitions = <<>> THEN <<>>
    ELSE LET ran == repetitions[1]
         IN  FlattenSeq([i \in DOMAIN ran |->
                 IF ran[i].status = "success" THEN ExtractSignals(ran[i].lines, ran[i].extracts)
                 ELSE <<>>])
===============================================================================

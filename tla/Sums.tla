-------------------------------- MODULE Sums --------------------------------
(***************************************************************************)
(* Sums of integers over a sequence and over a finite set, for properties  *)
(* that compare what the programs count with what they should.  The        *)
(* recursion is a function, whose value for every sequence can be proved   *)
(* (Exp3StatsProofs).                                                      *)
(***************************************************************************)
EXTENDS Integers, SequencesExt

(* PartialSums(s)[n] = s[1] + ... + s[n]                                   *)
PartialSums(s) ==
    LET upTo[n \in 0 .. Len(s)] == IF n = 0 THEN 0 ELSE upTo[n - 1] + s[n]
    IN  upTo

SumOf(s) == PartialSums(s)[Len(s)]

(* The sum of f[x] for all x in the finite set S.                          *)
SumOver(S, f) == SumOf([i \in 1 .. Cardinality(S) |-> f[SetToSeq(S)[i]]])

=============================================================================

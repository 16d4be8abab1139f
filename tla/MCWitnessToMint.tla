--------------------------- MODULE MCWitnessToMint --------------------------
(***************************************************************************)
(* Model-checks WitnessPipeline within WitnessToMint: two outpoints of     *)
(* different value, one address that is both an outsider and a contract of *)
(* unknown code, and the tokens reduced to their first unit.               *)
(***************************************************************************)
EXTENDS WitnessToMint

CONSTANTS o1, o2

MCSats == [o \in Outpoints |-> IF o = o1 THEN 1 ELSE 2]

\* Bounds: the token nothing here is about stays out of it, and one outpoint
\* is declared at a time (the solvency layer by itself is run with more).
FewConsumers ==
  /\ token # NaiveWBTC /\ supply[NaiveWBTC] = 0
  /\ Len(reserves) <= 1

=============================================================================

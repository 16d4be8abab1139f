--------------------------- MODULE MCSolvencyLayer --------------------------
(***************************************************************************)
(* Model-checks SolvencyLayer with two outpoints of different value.       *)
(***************************************************************************)
EXTENDS SolvencyLayer

CONSTANTS o1, o2

MCSats == [o \in Outpoints |-> IF o = o1 THEN 1 ELSE 2]

=============================================================================

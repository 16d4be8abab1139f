--------------------------- MODULE MCSolvencyDemo ---------------------------
(***************************************************************************)
(* Model-checks SolvencyDemo with two outpoints of different value.        *)
(***************************************************************************)
EXTENDS SolvencyDemo

CONSTANTS o1, o2

MCSats == [o \in Outpoints |-> IF o = o1 THEN 2 ELSE 3]

=============================================================================

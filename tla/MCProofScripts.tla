--------------------------- MODULE MCProofScripts ---------------------------
(***************************************************************************)
(* Model-checks ProofScripts: outputs o1 and o2 of one Bitcoin transaction *)
(* and o3 of another.                                                      *)
(***************************************************************************)
EXTENDS ProofScripts

CONSTANTS o1, o2, o3

MCSats == [o \in Outpoints |-> 1]
MCTxid == [o \in Outpoints |-> IF o = o3 THEN "b" ELSE "a"]

=============================================================================

---------------------------- MODULE MCUtxoLookup ----------------------------
(***************************************************************************)
(* Model-checks UtxoLookup: an output that is spent a block after it was   *)
(* made, one of a later block, one that its transaction does not have, and *)
(* the coinbase behind the button.                                         *)
(***************************************************************************)
EXTENDS UtxoLookup

CONSTANTS spent, late, none, coinbase

MCMinedIn == [o \in Outpoints |-> IF o = spent THEN 2 ELSE IF o = late THEN 3 ELSE 1]
MCSpentIn == [o \in Outpoints |-> IF o = spent THEN 3 ELSE 0]

=============================================================================

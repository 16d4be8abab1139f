----------------------------- MODULE ReserveSet -----------------------------
(***************************************************************************)
(* What the reserve registry of ReserveGuard promises its callers: one set *)
(* of outpoints, seen from two sides.  `declared` decides whether a call   *)
(* to declare or remove an outpoint is accepted; `counted` is what the     *)
(* reserve is summed over.  Each call adds to both, or takes from both,    *)
(* the outpoint it names and disturbs no other.  How the contract stores   *)
(* the set (an array and a map of slots) is the business of ReserveGuard.  *)
(***************************************************************************)

CONSTANT
  Outpoints   \* the Bitcoin outpoints (txid, vout) an issuer may declare

VARIABLES declared, counted

vars == <<declared, counted>>

Init ==
  /\ declared = {}
  /\ counted = {}

Declare(o) ==
  /\ o \notin declared
  /\ declared' = declared \cup {o}
  /\ counted' = counted \cup {o}

Remove(o) ==
  /\ o \in declared
  /\ declared' = declared \ {o}
  /\ counted' = counted \ {o}

Next == \E o \in Outpoints : Declare(o) \/ Remove(o)

Spec == Init /\ [][Next]_vars

=============================================================================

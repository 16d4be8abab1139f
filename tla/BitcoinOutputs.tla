--------------------------- MODULE BitcoinOutputs ---------------------------
(***************************************************************************)
(* Bitcoin's transaction outputs, which every part of the system names in  *)
(* the same way.                                                           *)
(***************************************************************************)

CONSTANTS
  Outpoints,   \* Bitcoin outpoints (txid, vout)
  Sats         \* the value of each, fixed by Bitcoin

=============================================================================

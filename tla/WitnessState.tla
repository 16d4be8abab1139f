---------------------------- MODULE WitnessState ----------------------------
(***************************************************************************)
(* The state the witness pipeline and the consumers of its facts share:    *)
(* the clock, the Bitcoin index at one end and the recorded facts at the   *)
(* other.                                                                  *)
(***************************************************************************)
EXTENDS BitcoinOutputs

CONSTANTS
  MaxHeight,   \* bound: blocks of exSat's EVM
  MaxTime      \* bound: the clock

VARIABLES
  now,    \* wall-clock time, and the timestamp of a block made now
  utxos,  \* the outpoints that have a row in utxomng.xsat's utxos table now
  facts   \* the verifier's mapping on Creditcoin: outpoint -> recorded fact

=============================================================================

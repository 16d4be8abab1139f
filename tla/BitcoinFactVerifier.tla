------------------------ MODULE BitcoinFactVerifier -------------------------
(***************************************************************************)
(* contracts/asc/BitcoinFactVerifier.sol, deployed on Creditcoin: decodes  *)
(* a transaction of exSat's EVM that the BlockProver precompile has shown  *)
(* to have happened, and records the Bitcoin fact its receipt carries.     *)
(*                                                                         *)
(* A transaction is its recipient, its receipt status and its logs.  The   *)
(* byte encoding is abstracted: the precompile accepts only payloads in    *)
(* Attestcoin's V1 encoding, which always hold the two chunks the contract *)
(* checks for.  A log's topics are abstracted to the event they sign, the  *)
(* outpoint and the relayer.                                               *)
(***************************************************************************)
EXTENDS Integers, Sequences

CONSTANTS
  Outpoints,         \* (txid, index) pairs
  ExpectedEmitter,   \* our BitcoinWitnessReceiver on exSat
  ExpectedRelayer,   \* the reserved address of the native btcwitness account
  Attested,          \* the event BitcoinUtxoAttested: EVENT_SIGNATURE, three topics
  NoFact             \* _extractFact reverted

VARIABLE facts       \* facts[txid][index]

ProvenFact == [value : Nat, sourceHeight : Nat, provenAt : Nat, proven : BOOLEAN]

Unproven == [value |-> 0, sourceHeight |-> 0, provenAt |-> 0, proven |-> FALSE]

VerifierTypeOK == facts \in [Outpoints -> ProvenFact]

VerifierInit == facts = [o \in Outpoints |-> Unproven]

-----------------------------------------------------------------------------

\* The three tests a log must pass: our contract emitted it, it is our event,
\* and the relayer topic names the account that reads the Bitcoin index.
LogMatches(log) ==
  /\ log.addr = ExpectedEmitter
  /\ log.event = Attested
  /\ log.relayer = ExpectedRelayer

\* _extractFact: the first matching log of a successful transaction sent to
\* our receiver.
ExtractFact(tx) ==
  LET matching == {i \in 1 .. Len(tx.logs) : LogMatches(tx.logs[i])}
      first    == CHOOSE i \in matching : \A j \in matching : i <= j
  IN  IF tx.to = ExpectedEmitter /\ tx.status = 1 /\ matching # {}
        THEN [outpoint |-> tx.logs[first].outpoint, value |-> tx.logs[first].value]
        ELSE NoFact

\* proveBitcoinFact, once verifyAndEmit has accepted tx at that height: any
\* caller, any attested height, and an earlier record is overwritten whatever
\* its height.
ProveBitcoinFact(tx, height, ts) ==
  LET fact == ExtractFact(tx)
  IN  /\ fact # NoFact
      /\ facts' = [facts EXCEPT ![fact.outpoint] =
                     [value |-> fact.value, sourceHeight |-> height,
                      provenAt |-> ts, proven |-> TRUE]]

=============================================================================

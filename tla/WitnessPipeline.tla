-------------------------- MODULE WitnessPipeline ---------------------------
(***************************************************************************)
(* The witness pipeline from the Bitcoin index to the recorded fact:       *)
(*                                                                         *)
(*   utxomng.xsat --relayutxo--> evm.xsat --receiveUtxoFact--> event       *)
(*        --attestation--> BlockProver --proveBitcoinFact--> facts         *)
(*                                                                         *)
(* contracts/native/src/btcwitness.cpp, contracts/evm/                     *)
(* BitcoinWitnessReceiver.sol and contracts/asc/BitcoinFactVerifier.sol.   *)
(* The index, the EVM's outcome and the attestors are external.  Every EVM *)
(* transaction is a block of its own, so a block height is a position in   *)
(* evmTxs; blocks are final.                                               *)
(***************************************************************************)
EXTENDS Integers, Sequences, WitnessState

CONSTANTS
  Values,                  \* the amounts a log can carry
  Receiver, Relayer,       \* BitcoinWitnessReceiver; btcwitness' EVM address
  Others,                  \* every other EVM address: callers and contracts
  Attested,                \* the event BitcoinUtxoAttested
  NoFact,
  MinGas, MaxGas, Gas      \* MIN_GAS_LIMIT, MAX_GAS_LIMIT and the limits tried

ASSUME PipelineAssumption ==
  /\ Sats \in [Outpoints -> Values]
  /\ Values \subseteq Nat
  /\ NoFact \notin [outpoint : Outpoints, value : Values]
  /\ Receiver # Relayer
  /\ {Receiver, Relayer} \cap Others = {}
  /\ MaxHeight \in Nat
  /\ MaxTime \in Nat

VARIABLES
  evmTxs,     \* exSat's EVM chain, one transaction per block
  attested    \* the height up to which Creditcoin's attestors have attested

pipelineVars == <<now, utxos, evmTxs, attested, facts>>

INSTANCE BitcoinFactVerifier WITH ExpectedEmitter <- Receiver,
                                  ExpectedRelayer <- Relayer

Addresses == Others \cup {Receiver, Relayer}

Log == [addr : Addresses, event : {Attested}, relayer : Addresses,
        outpoint : Outpoints, value : Values]

Tx == [to : Addresses, sender : Addresses, status : {0, 1}, logs : Seq(Log),
       time : 0 .. MaxTime]

PipelineTypeOK ==
  /\ now \in 0 .. MaxTime
  /\ utxos \subseteq Outpoints
  /\ evmTxs \in Seq(Tx)
  /\ Len(evmTxs) <= MaxHeight
  /\ attested \in 0 .. Len(evmTxs)
  /\ VerifierTypeOK

PipelineInit ==
  /\ now = 0
  /\ utxos \in SUBSET Outpoints
  /\ evmTxs = << >>
  /\ attested = 0
  /\ VerifierInit

-----------------------------------------------------------------------------
(* External: time, the Bitcoin index and the attestors.                    *)

Tick ==
  /\ now < MaxTime
  /\ now' = now + 1
  /\ UNCHANGED <<utxos, evmTxs, attested, facts>>

\* exSat's synchronizers add a row for a new output and erase a spent one; a
\* Bitcoin reorganisation undoes either.
IndexChange(o) ==
  /\ \/ utxos' = utxos \cup {o}
     \/ utxos' = utxos \ {o}
  /\ UNCHANGED <<now, evmTxs, attested, facts>>

\* Variant: the block being made is attested already.
AttestAhead ==
  /\ attested <= Len(evmTxs)
  /\ attested' \in (attested + 1) .. (Len(evmTxs) + 1)
  /\ UNCHANGED <<now, utxos, evmTxs, facts>>

Attest ==
  /\ attested < Len(evmTxs)
  /\ attested' \in (attested + 1) .. Len(evmTxs)
  /\ UNCHANGED <<now, utxos, evmTxs, facts>>

-----------------------------------------------------------------------------
(* exSat's EVM: what a call leaves in its block.                           *)

Mined(to, sender, status, logs) ==
  /\ Len(evmTxs) < MaxHeight
  /\ evmTxs' = Append(evmTxs, [to |-> to, sender |-> sender, status |-> status,
                               logs |-> logs, time |-> now])
  /\ UNCHANGED <<now, utxos, attested, facts>>

AttestedLog(addr, relayer, o, value) ==
  [addr |-> addr, event |-> Attested, relayer |-> relayer,
   outpoint |-> o, value |-> value]

\* Variant: any caller, and the event names the stored relayer.
ReceiveFromAnyone(sender, o, value) ==
  Mined(Receiver, sender, 1, <<AttestedLog(Receiver, Relayer, o, value)>>)

\* receiveUtxoFact: reverts for every caller but the relayer, and otherwise
\* emits the fact it was handed.
ReceiveUtxoFact(sender, o, value) ==
  IF sender = Relayer
    THEN Mined(Receiver, sender, 1, <<AttestedLog(Receiver, sender, o, value)>>)
    ELSE Mined(Receiver, sender, 0, << >>)

\* The EVM transaction fails (out of gas, no BTC for the fee) and leaves no log.
Fails(to, sender) == Mined(to, sender, 0, << >>)

\* Another contract runs whatever it likes.  The logs it leaves carry its own
\* address; the topics and the data in them are its choice.
RunsOther(to, sender) ==
  \/ Mined(to, sender, 1, << >>)
  \/ \E r \in Addresses, o \in Outpoints, v \in Values :
       Mined(to, sender, 1, <<AttestedLog(to, r, o, v)>>)

\* Variant: the operator supplies the value.
RelayUtxoAnyValue(o, evmTo, gas) ==
  /\ gas \in MinGas .. MaxGas
  /\ o \in utxos
  /\ \E value \in Values : evmTo = Receiver /\ ReceiveUtxoFact(Relayer, o, value)

\* Variant: a row that is not found is not noticed.
RelayUtxoUnindexed(o, evmTo, gas) ==
  /\ gas \in MinGas .. MaxGas
  /\ evmTo = Receiver
  /\ ReceiveUtxoFact(Relayer, o, Sats[o])

\* relayutxo: the gas limit is within bounds, the output has a row now, and
\* the row's value goes to the EVM address the operator named.  The Antelope
\* transaction succeeds whether or not the EVM one does.
RelayUtxo(o, evmTo, gas) ==
  /\ gas >= MinGas
  /\ gas <= MaxGas
  /\ o \in utxos
  /\ \/ evmTo = Receiver /\ ReceiveUtxoFact(Relayer, o, Sats[o])
     \/ evmTo # Receiver /\ RunsOther(evmTo, Relayer)
     \/ Fails(evmTo, Relayer)

\* Any other account calls any contract, the receiver included, with any
\* arguments.
OutsiderCall(sender, to, o, value) ==
  \/ to = Receiver /\ ReceiveUtxoFact(sender, o, value)
  \/ to # Receiver /\ RunsOther(to, sender)
  \/ Fails(to, sender)

-----------------------------------------------------------------------------

\* verifyAndEmit accepts a block the attestation covers, from anyone and any
\* number of times.
Prove(height) ==
  /\ height \in 1 .. attested
  /\ ProveBitcoinFact(evmTxs[height], height, now)
  /\ UNCHANGED <<now, utxos, evmTxs, attested>>

PipelineNext ==
  \/ Tick
  \/ Attest
  \/ \E o \in Outpoints : IndexChange(o)
  \/ \E o \in Outpoints, to \in Others \cup {Receiver}, g \in Gas : RelayUtxo(o, to, g)
  \/ \E s \in Others, to \in Others \cup {Receiver}, o \in Outpoints, v \in Values :
       OutsiderCall(s, to, o, v)
  \/ \E h \in 1 .. MaxHeight : Prove(h)

PipelineSpec == PipelineInit /\ [][PipelineNext]_pipelineVars

-----------------------------------------------------------------------------
(* Correctness.                                                            *)

RelayHeights == {h \in 1 .. Len(evmTxs) : ExtractFact(evmTxs[h]) # NoFact}

\* Every recorded fact is backed by a block of exSat's EVM that the attestors
\* cover, in which the relayer itself called our receiver about that outpoint,
\* and it carries the value Bitcoin gives the output: look-alike events of
\* other contracts, calls by other accounts and failed relays never surface.
FactsAreAuthored ==
  \A o \in Outpoints : facts[o].proven =>
    LET h == facts[o].sourceHeight
    IN  /\ h \in 1 .. attested
        /\ evmTxs[h].sender = Relayer
        /\ evmTxs[h].to = Receiver
        /\ ExtractFact(evmTxs[h]) = [outpoint |-> o, value |-> Sats[o]]
        /\ evmTxs[h].time <= facts[o].provenAt
        /\ facts[o].value = Sats[o]

\* Once a value is proven it is proven for good and never changes, however
\* many relays of the same output are proven in whatever order.
ValueIsStable ==
  [][\A o \in Outpoints : facts[o].proven =>
       facts'[o].proven /\ facts'[o].value = facts[o].value]_facts

\* The pipeline implements the fact feed: a proven relay is a reading taken
\* while the index held the output, and proving repeats a reading.
RelayReadings ==
  {[outpoint |-> ExtractFact(evmTxs[h]).outpoint, height |-> h,
    readAt |-> evmTxs[h].time] : h \in RelayHeights}

RelayFeed == INSTANCE FactFeed WITH readings <- RelayReadings
ImplementsFactFeed == RelayFeed!FeedSpec

=============================================================================

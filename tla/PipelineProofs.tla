--------------------------- MODULE PipelineProofs ---------------------------
(***************************************************************************)
(* Theorems about WitnessPipeline, ProofScripts and WitnessToMint, for any *)
(* outpoints, addresses, gas limits and bounds.  Of the pipeline: what is  *)
(* recorded on Creditcoin was written by the native relay about a row of   *)
(* the Bitcoin index, and the pipeline implements the fact feed its        *)
(* consumers rely on.  Of the scripts: a run that ends well has proven an  *)
(* output, and, when it has its transaction to itself, the one it was      *)
(* asked for, whatever happens on the pipeline between its awaits.  Of the *)
(* whole: a guarded token rests on outputs that were reported this way.    *)
(***************************************************************************)
EXTENDS ProofScripts, WitnessToMint, SolvencyLayerProofs

-----------------------------------------------------------------------------
(* The pipeline.                                                           *)

Facts == [outpoint : Outpoints, value : Values]

\* A transaction the verifier would accept was sent by the relayer to our
\* receiver and carries Bitcoin's value.
GenuineRelay(tx) ==
  ExtractFact(tx) # NoFact =>
    /\ tx.sender = Relayer
    /\ tx.to = Receiver
    /\ ExtractFact(tx) \in Facts
    /\ ExtractFact(tx).value = Sats[ExtractFact(tx).outpoint]

\* Authorship is inductive only together with the fact that every acceptable
\* block on the EVM chain, proven or not yet, is a genuine relay.
PipelineInv ==
  /\ PipelineTypeOK
  /\ \A h \in 1 .. Len(evmTxs) : GenuineRelay(evmTxs[h]) /\ evmTxs[h].time <= now
  /\ FactsAreAuthored

-----------------------------------------------------------------------------
(* What the verifier makes of the transactions the EVM can hold.           *)

\* The event the receiver emits for the relayer decodes to what it was handed.
LEMMA ExtractOwnRelay ==
  ASSUME NEW o \in Outpoints, NEW v \in Values, NEW tx,
         tx.to = Receiver, tx.status = 1,
         tx.logs = <<AttestedLog(Receiver, Relayer, o, v)>>
  PROVE  ExtractFact(tx) = [outpoint |-> o, value |-> v]
<1> DEFINE matching == {i \in 1 .. Len(tx.logs) : LogMatches(tx.logs[i])}
<1>1. Len(tx.logs) = 1 /\ tx.logs[1] = AttestedLog(Receiver, Relayer, o, v)
  OBVIOUS
<1>2. matching = {1}
  BY <1>1 DEF LogMatches, AttestedLog
<1>3. (CHOOSE i \in matching : \A j \in matching : i <= j) = 1
  BY <1>2
<1>4. tx.logs[1].outpoint = o /\ tx.logs[1].value = v
  BY <1>1 DEF AttestedLog
<1>5. QED
  BY <1>2, <1>3, <1>4 DEF ExtractFact

\* A transaction sent elsewhere, failed or without logs is not accepted.
LEMMA ExtractNothing ==
  ASSUME NEW tx, tx.to # Receiver \/ tx.status # 1 \/ tx.logs = << >>
  PROVE  ExtractFact(tx) = NoFact
<1>1. CASE tx.to # Receiver \/ tx.status # 1
  BY <1>1 DEF ExtractFact
<1>2. CASE tx.logs = << >>
  <2>1. {i \in 1 .. Len(tx.logs) : LogMatches(tx.logs[i])} = {}
    BY <1>2
  <2>2. QED
    BY <2>1 DEF ExtractFact
<1>3. QED
  BY <1>1, <1>2

-----------------------------------------------------------------------------
(* Steps that mine a block.                                                *)

\* The shape of every step that adds a block: either the verifier finds
\* nothing in it, or it is a relay of an outpoint the index holds.
MinedStep ==
  \E tx \in Tx :
    /\ Len(evmTxs) < MaxHeight
    /\ evmTxs' = Append(evmTxs, tx)
    /\ UNCHANGED <<now, utxos, attested, facts>>
    /\ tx.time = now
    /\ \/ ExtractFact(tx) = NoFact
       \/ \E o \in utxos :
            /\ ExtractFact(tx) = [outpoint |-> o, value |-> Sats[o]]
            /\ tx.sender = Relayer /\ tx.to = Receiver

LEMMA RunsOtherIsMined ==
  ASSUME PipelineTypeOK, NEW to \in Others, NEW s \in Addresses, RunsOther(to, s)
  PROVE  MinedStep
<1>1. to # Receiver /\ to \in Addresses
  BY PipelineAssumption DEF Addresses
<1>2. CASE Mined(to, s, 1, << >>)
  <2> DEFINE tx == [to |-> to, sender |-> s, status |-> 1, logs |-> << >>, time |-> now]
  <2>1. tx \in Tx
    BY <1>1 DEF Tx, PipelineTypeOK
  <2>2. ExtractFact(tx) = NoFact
    BY <1>1, ExtractNothing
  <2> HIDE DEF tx
  <2>3. QED
    BY <1>2, <2>1, <2>2 DEF Mined, MinedStep, tx
<1>3. ASSUME NEW r \in Addresses, NEW o \in Outpoints, NEW v \in Values,
             Mined(to, s, 1, <<AttestedLog(to, r, o, v)>>)
      PROVE  MinedStep
  <2> DEFINE tx == [to |-> to, sender |-> s, status |-> 1,
                    logs |-> <<AttestedLog(to, r, o, v)>>, time |-> now]
  <2>1. AttestedLog(to, r, o, v) \in Log
    BY <1>1 DEF AttestedLog, Log
  <2>2. tx \in Tx
    BY <1>1, <2>1 DEF Tx, PipelineTypeOK
  <2>3. ExtractFact(tx) = NoFact
    BY <1>1, ExtractNothing
  <2> HIDE DEF tx
  <2>4. QED
    BY <1>3, <2>2, <2>3 DEF Mined, MinedStep, tx
<1>4. QED
  BY <1>2, <1>3 DEF RunsOther

LEMMA FailureIsMined ==
  ASSUME PipelineTypeOK, NEW to \in Addresses, NEW s \in Addresses,
         Mined(to, s, 0, << >>)
  PROVE  MinedStep
<1> DEFINE tx == [to |-> to, sender |-> s, status |-> 0, logs |-> << >>, time |-> now]
<1>1. tx \in Tx
  BY DEF Tx, PipelineTypeOK
<1>2. ExtractFact(tx) = NoFact
  BY ExtractNothing
<1> HIDE DEF tx
<1>3. QED
  BY <1>1, <1>2 DEF Mined, MinedStep, tx

LEMMA RelayIsMined ==
  ASSUME PipelineTypeOK, NEW o \in Outpoints, NEW to \in Others \cup {Receiver},
         NEW g \in Gas, RelayUtxo(o, to, g)
  PROVE  MinedStep
<1>1. to \in Addresses /\ Relayer \in Addresses /\ Receiver \in Addresses
  BY DEF Addresses
<1>2. CASE to = Receiver /\ ReceiveUtxoFact(Relayer, o, Sats[o])
  <2> DEFINE log == AttestedLog(Receiver, Relayer, o, Sats[o])
             tx  == [to |-> Receiver, sender |-> Relayer, status |-> 1,
                     logs |-> <<log>>, time |-> now]
  <2>1. o \in utxos /\ Sats[o] \in Values
    BY PipelineAssumption DEF RelayUtxo
  <2>2. log \in Log
    BY <1>1, <2>1 DEF AttestedLog, Log
  <2>3. tx \in Tx
    BY <1>1, <2>2 DEF Tx, PipelineTypeOK
  <2>4. ExtractFact(tx) = [outpoint |-> o, value |-> Sats[o]]
    BY <2>1, ExtractOwnRelay
  <2>5. Mined(Receiver, Relayer, 1, <<log>>)
    BY <1>2 DEF ReceiveUtxoFact
  <2>6. tx.time = now /\ tx.sender = Relayer /\ tx.to = Receiver
    OBVIOUS
  <2>7. evmTxs' = Append(evmTxs, tx) /\ Len(evmTxs) < MaxHeight
        /\ UNCHANGED <<now, utxos, attested, facts>>
    BY <2>5 DEF Mined
  <2> HIDE DEF tx
  <2>8. QED
    BY <2>1, <2>3, <2>4, <2>6, <2>7 DEF MinedStep
<1>3. CASE to # Receiver /\ RunsOther(to, Relayer)
  BY <1>1, <1>3, RunsOtherIsMined
<1>4. CASE Fails(to, Relayer)
  BY <1>1, <1>4, FailureIsMined DEF Fails
<1>5. QED
  BY <1>2, <1>3, <1>4 DEF RelayUtxo

LEMMA OutsiderIsMined ==
  ASSUME PipelineTypeOK, NEW s \in Others, NEW to \in Others \cup {Receiver},
         NEW o \in Outpoints, NEW v \in Values, OutsiderCall(s, to, o, v)
  PROVE  MinedStep
<1>1. to \in Addresses /\ s \in Addresses /\ s # Relayer /\ Receiver \in Addresses
  BY PipelineAssumption DEF Addresses
<1>2. CASE to = Receiver /\ ReceiveUtxoFact(s, o, v)
  BY <1>1, <1>2, FailureIsMined DEF ReceiveUtxoFact
<1>3. CASE to # Receiver /\ RunsOther(to, s)
  BY <1>1, <1>3, RunsOtherIsMined
<1>4. CASE Fails(to, s)
  BY <1>1, <1>4, FailureIsMined DEF Fails
<1>5. QED
  BY <1>2, <1>3, <1>4 DEF OutsiderCall

\* Every step is one of five, and mining hides how the block came about.
LEMMA PipelineSteps ==
  ASSUME PipelineTypeOK, [PipelineNext]_pipelineVars
  PROVE  \/ Tick
         \/ Attest
         \/ \E o \in Outpoints : IndexChange(o)
         \/ MinedStep
         \/ \E h \in 1 .. MaxHeight : Prove(h)
         \/ UNCHANGED pipelineVars
BY RelayIsMined, OutsiderIsMined DEF PipelineNext

-----------------------------------------------------------------------------
(* Authorship.                                                             *)

\* What a block looked like when it was mined is what it looks like later.
LEMMA MinedKeepsBlocks ==
  ASSUME PipelineInv, MinedStep
  PROVE  \E tx \in Tx :
           /\ evmTxs' \in Seq(Tx)
           /\ Len(evmTxs') = Len(evmTxs) + 1
           /\ Len(evmTxs') <= MaxHeight
           /\ \A h \in 1 .. Len(evmTxs) : evmTxs'[h] = evmTxs[h]
           /\ evmTxs'[Len(evmTxs) + 1] = tx
           /\ UNCHANGED <<now, utxos, attested, facts>>
           /\ tx.time = now
           /\ \/ ExtractFact(tx) = NoFact
              \/ \E o \in utxos :
                   /\ ExtractFact(tx) = [outpoint |-> o, value |-> Sats[o]]
                   /\ tx.sender = Relayer /\ tx.to = Receiver
<1>1. evmTxs \in Seq(Tx) /\ Len(evmTxs) \in Nat /\ MaxHeight \in Nat
  BY PipelineAssumption DEF PipelineInv, PipelineTypeOK
<1>2. PICK tx \in Tx :
        /\ Len(evmTxs) < MaxHeight
        /\ evmTxs' = Append(evmTxs, tx)
        /\ UNCHANGED <<now, utxos, attested, facts>>
        /\ tx.time = now
        /\ \/ ExtractFact(tx) = NoFact
           \/ \E o \in utxos :
                /\ ExtractFact(tx) = [outpoint |-> o, value |-> Sats[o]]
                /\ tx.sender = Relayer /\ tx.to = Receiver
  BY DEF MinedStep
<1>3. /\ evmTxs' \in Seq(Tx)
      /\ Len(evmTxs') = Len(evmTxs) + 1
      /\ \A h \in 1 .. Len(evmTxs) : evmTxs'[h] = evmTxs[h]
      /\ evmTxs'[Len(evmTxs) + 1] = tx
  BY <1>1, <1>2
<1>4. Len(evmTxs') <= MaxHeight
  BY <1>1, <1>2, <1>3
<1>5. WITNESS tx \in Tx
<1>6. QED
  BY <1>2, <1>3, <1>4

LEMMA MinedPreserves ==
  ASSUME PipelineInv, MinedStep
  PROVE  PipelineInv'
<1>1. PICK tx \in Tx :
           /\ evmTxs' \in Seq(Tx)
           /\ Len(evmTxs') = Len(evmTxs) + 1
           /\ Len(evmTxs') <= MaxHeight
           /\ \A h \in 1 .. Len(evmTxs) : evmTxs'[h] = evmTxs[h]
           /\ evmTxs'[Len(evmTxs) + 1] = tx
           /\ UNCHANGED <<now, utxos, attested, facts>>
           /\ tx.time = now
           /\ \/ ExtractFact(tx) = NoFact
              \/ \E o \in utxos :
                   /\ ExtractFact(tx) = [outpoint |-> o, value |-> Sats[o]]
                   /\ tx.sender = Relayer /\ tx.to = Receiver
  BY MinedKeepsBlocks
<1>2. Len(evmTxs) \in Nat /\ attested \in 0 .. Len(evmTxs) /\ now \in Nat
  BY PipelineAssumption DEF PipelineInv, PipelineTypeOK
<1>3. PipelineTypeOK'
  BY <1>1, <1>2 DEF PipelineInv, PipelineTypeOK, VerifierTypeOK
<1>4. GenuineRelay(tx)
  <2>1. CASE ExtractFact(tx) = NoFact
    BY <2>1 DEF GenuineRelay
  <2>2. ASSUME NEW o \in utxos, tx.sender = Relayer, tx.to = Receiver,
               ExtractFact(tx) = [outpoint |-> o, value |-> Sats[o]]
        PROVE  GenuineRelay(tx)
    <3>1. o \in Outpoints /\ Sats[o] \in Values
      BY PipelineAssumption DEF PipelineInv, PipelineTypeOK
    <3>2. QED
      BY <2>2, <3>1 DEF GenuineRelay, Facts
  <2>3. QED
    BY <1>1, <2>1, <2>2
<1>5. ASSUME NEW h \in 1 .. Len(evmTxs')
      PROVE  GenuineRelay(evmTxs'[h]) /\ evmTxs'[h].time <= now'
  <2>1. CASE h = Len(evmTxs) + 1
    BY <1>1, <1>2, <1>4, <2>1
  <2>2. CASE h # Len(evmTxs) + 1
    <3>1. h \in 1 .. Len(evmTxs)
      BY <1>1, <1>2, <2>2
    <3>2. QED
      BY <1>1, <3>1 DEF PipelineInv
  <2>3. QED
    BY <2>1, <2>2
<1>6. \A h \in 1 .. Len(evmTxs') : (GenuineRelay(evmTxs[h]) /\ evmTxs[h].time <= now)'
  BY <1>5
<1>7. FactsAreAuthored'
  <2>1. ASSUME NEW o \in Outpoints, facts'[o].proven
        PROVE  LET h == facts'[o].sourceHeight
               IN  /\ h \in 1 .. attested'
                   /\ evmTxs'[h].sender = Relayer
                   /\ evmTxs'[h].to = Receiver
                   /\ ExtractFact(evmTxs'[h]) = [outpoint |-> o, value |-> Sats[o]]
                   /\ evmTxs'[h].time <= facts'[o].provenAt
                   /\ facts'[o].value = Sats[o]
    <3> DEFINE h == facts[o].sourceHeight
    <3>1. facts' = facts /\ attested' = attested
      BY <1>1
    <3>2. /\ h \in 1 .. attested
          /\ evmTxs[h].sender = Relayer
          /\ evmTxs[h].to = Receiver
          /\ ExtractFact(evmTxs[h]) = [outpoint |-> o, value |-> Sats[o]]
          /\ evmTxs[h].time <= facts[o].provenAt
          /\ facts[o].value = Sats[o]
      BY <2>1, <3>1 DEF PipelineInv, FactsAreAuthored
    <3>3. evmTxs'[h] = evmTxs[h]
      BY <1>1, <1>2, <3>2
    <3>4. QED
      BY <3>1, <3>2, <3>3
  <2>2. QED
    BY <2>1 DEF FactsAreAuthored
<1>8. QED
  BY <1>3, <1>6, <1>7 DEF PipelineInv

LEMMA ProvePreserves ==
  ASSUME PipelineInv, NEW h \in 1 .. MaxHeight, Prove(h)
  PROVE  /\ PipelineInv'
         /\ \E o \in Outpoints :
              /\ h \in 1 .. Len(evmTxs)
              /\ ExtractFact(evmTxs[h]) = [outpoint |-> o, value |-> Sats[o]]
              /\ ExtractFact(evmTxs[h]) # NoFact
              /\ facts' = [facts EXCEPT ![o] =
                             [value |-> Sats[o], sourceHeight |-> h,
                              provenAt |-> now, proven |-> TRUE]]
<1> DEFINE fact == ExtractFact(evmTxs[h])
           o == fact.outpoint
<1>1. /\ Len(evmTxs) \in Nat /\ attested \in 0 .. Len(evmTxs) /\ now \in 0 .. MaxTime
      /\ now \in Nat /\ h \in 1 .. attested /\ h \in 1 .. Len(evmTxs)
      /\ UNCHANGED <<now, utxos, evmTxs, attested>>
      /\ ProveBitcoinFact(evmTxs[h], h, now)
  BY PipelineAssumption DEF PipelineInv, PipelineTypeOK, Prove
<1>2. fact # NoFact /\ GenuineRelay(evmTxs[h]) /\ evmTxs[h].time <= now
  BY <1>1 DEF ProveBitcoinFact, PipelineInv
<1>3. /\ fact \in Facts /\ fact.value = Sats[o]
      /\ evmTxs[h].sender = Relayer /\ evmTxs[h].to = Receiver
  BY <1>2 DEF GenuineRelay
<1>4. o \in Outpoints /\ Sats[o] \in Nat /\ fact = [outpoint |-> o, value |-> Sats[o]]
  BY <1>3, PipelineAssumption DEF Facts
<1>5. facts' = [facts EXCEPT ![o] = [value |-> Sats[o], sourceHeight |-> h,
                                     provenAt |-> now, proven |-> TRUE]]
  BY <1>1, <1>3 DEF ProveBitcoinFact
<1> HIDE DEF o, fact
<1>6. PipelineTypeOK'
  BY <1>1, <1>4, <1>5 DEF PipelineInv, PipelineTypeOK, VerifierTypeOK, ProvenFact
<1>7. \A k \in 1 .. Len(evmTxs') : (GenuineRelay(evmTxs[k]) /\ evmTxs[k].time <= now)'
  BY <1>1 DEF PipelineInv
<1>8. facts \in [Outpoints -> ProvenFact]
  BY DEF PipelineInv, PipelineTypeOK, VerifierTypeOK
<1>9. ASSUME NEW p \in Outpoints, facts'[p].proven
      PROVE  LET k == facts'[p].sourceHeight
             IN  /\ k \in 1 .. attested
                 /\ evmTxs[k].sender = Relayer
                 /\ evmTxs[k].to = Receiver
                 /\ ExtractFact(evmTxs[k]) = [outpoint |-> p, value |-> Sats[p]]
                 /\ evmTxs[k].time <= facts'[p].provenAt
                 /\ facts'[p].value = Sats[p]
  <2>1. CASE p = o
    <3>1. /\ facts'[p].sourceHeight = h /\ facts'[p].provenAt = now
          /\ facts'[p].value = Sats[p]
      BY <1>5, <1>8, <2>1
    <3>2. QED
      BY <1>1, <1>2, <1>3, <1>4, <2>1, <3>1 DEF fact
  <2>2. CASE p # o
    <3>1. facts'[p] = facts[p]
      BY <1>5, <1>8, <2>2
    <3>2. QED
      BY <1>9, <3>1 DEF PipelineInv, FactsAreAuthored
  <2>3. QED
    BY <2>1, <2>2
<1>10. FactsAreAuthored'
  BY <1>1, <1>9 DEF FactsAreAuthored
<1>11. PipelineInv'
  BY <1>6, <1>7, <1>10 DEF PipelineInv
<1>12. QED
  BY <1>1, <1>2, <1>4, <1>5, <1>11 DEF fact

\* Time passes, the index follows Bitcoin, or the attestors advance.
LEMMA ExternalPreserves ==
  ASSUME PipelineInv,
         \/ Tick
         \/ Attest
         \/ \E o \in Outpoints : IndexChange(o)
         \/ UNCHANGED pipelineVars
  PROVE  PipelineInv' /\ UNCHANGED <<evmTxs, facts>>
<1>1. UNCHANGED <<evmTxs, facts>>
  BY DEF Tick, Attest, IndexChange, pipelineVars
<1>2. /\ Len(evmTxs) \in Nat /\ attested \in 0 .. Len(evmTxs)
      /\ now \in Nat /\ MaxTime \in Nat /\ now <= MaxTime
      /\ \A h \in 1 .. Len(evmTxs) : evmTxs[h] \in Tx /\ evmTxs[h].time \in Nat
  <2>1. evmTxs \in Seq(Tx) /\ \A tx \in Tx : tx.time \in Nat
    BY PipelineAssumption DEF PipelineInv, PipelineTypeOK, Tx
  <2>2. \A h \in 1 .. Len(evmTxs) : evmTxs[h] \in Tx
    BY <2>1
  <2>3. QED
    BY <2>1, <2>2, PipelineAssumption DEF PipelineInv, PipelineTypeOK
<1>3. now' \in now .. MaxTime /\ attested' \in attested .. Len(evmTxs) /\ utxos' \subseteq Outpoints
  BY <1>2 DEF Tick, Attest, IndexChange, pipelineVars, PipelineInv, PipelineTypeOK
<1>4. PipelineTypeOK'
  BY <1>1, <1>2, <1>3 DEF PipelineInv, PipelineTypeOK, VerifierTypeOK
<1>5. \A h \in 1 .. Len(evmTxs') : (GenuineRelay(evmTxs[h]) /\ evmTxs[h].time <= now)'
  BY <1>1, <1>2, <1>3 DEF PipelineInv
<1>6. FactsAreAuthored'
  <2>1. \A h : h \in 1 .. attested => h \in 1 .. attested'
    BY <1>2, <1>3
  <2>2. QED
    BY <1>1, <2>1 DEF PipelineInv, FactsAreAuthored
<1>7. QED
  BY <1>1, <1>4, <1>5, <1>6 DEF PipelineInv

LEMMA PipelineInvInductive ==
  /\ PipelineInit => PipelineInv
  /\ PipelineInv /\ [PipelineNext]_pipelineVars => PipelineInv'
<1>1. PipelineInit => PipelineInv
  <2> SUFFICES ASSUME PipelineInit PROVE PipelineInv
    OBVIOUS
  <2>1. Len(evmTxs) = 0 /\ evmTxs \in Seq(Tx)
    BY DEF PipelineInit
  <2>2. facts \in [Outpoints -> ProvenFact] /\ \A o \in Outpoints : ~facts[o].proven
    BY DEF PipelineInit, VerifierInit, Unproven, ProvenFact
  <2>3. QED
    BY <2>1, <2>2, PipelineAssumption
       DEF PipelineInit, PipelineInv, PipelineTypeOK, VerifierTypeOK, FactsAreAuthored
<1>2. PipelineInv /\ [PipelineNext]_pipelineVars => PipelineInv'
  <2> SUFFICES ASSUME PipelineInv, [PipelineNext]_pipelineVars PROVE PipelineInv'
    OBVIOUS
  <2>1. PipelineTypeOK
    BY DEF PipelineInv
  <2>2. QED
    BY <2>1, PipelineSteps, MinedPreserves, ProvePreserves, ExternalPreserves
<1>3. QED
  BY <1>1, <1>2

\* Heights, times and records stay in range: attestation never runs ahead of
\* the EVM chain, whatever is mined, attested and proven in whatever order.
THEOREM PipelineTypeCorrect == PipelineSpec => []PipelineTypeOK
<1>1. PipelineInv => PipelineTypeOK
  BY DEF PipelineInv
<1>2. QED
  BY PipelineInvInductive, <1>1, PTL DEF PipelineSpec

\* No call by another account, no look-alike event of another contract and no
\* failed relay is ever recorded as a Bitcoin fact on Creditcoin: the relayer
\* itself called our receiver in the block the record names
\* (BitcoinFactVerifier.sol, _extractFact).
THEOREM FactsAreAlwaysAuthored == PipelineSpec => []FactsAreAuthored
<1>1. PipelineInv => FactsAreAuthored
  BY DEF PipelineInv
<1>2. QED
  BY PipelineInvInductive, <1>1, PTL DEF PipelineSpec

\* A proven value is final: a later proof of any relay of the same output, an
\* older one included, writes the same amount, and no step unproves a fact.
THEOREM ProvenValuesAreStable == PipelineSpec => ValueIsStable
<1> DEFINE Stable == \A o \in Outpoints : facts[o].proven =>
                       facts'[o].proven /\ facts'[o].value = facts[o].value
<1>1. PipelineInv /\ [PipelineNext]_pipelineVars => [Stable]_facts
  <2> SUFFICES ASSUME PipelineInv, [PipelineNext]_pipelineVars, facts' # facts
               PROVE  Stable
    OBVIOUS
  <2>1. facts \in [Outpoints -> ProvenFact] /\ PipelineTypeOK
    BY DEF PipelineInv, PipelineTypeOK, VerifierTypeOK
  <2>2. ASSUME NEW h \in 1 .. MaxHeight, Prove(h) PROVE Stable
    <3>1. PICK o \in Outpoints :
            facts' = [facts EXCEPT ![o] = [value |-> Sats[o], sourceHeight |-> h,
                                           provenAt |-> now, proven |-> TRUE]]
      BY <2>2, ProvePreserves
    <3>2. \A p \in Outpoints : facts[p].proven => facts[p].value = Sats[p]
      BY DEF PipelineInv, FactsAreAuthored
    <3>3. QED
      BY <2>1, <3>1, <3>2
  <2>3. QED
    BY <2>1, <2>2, PipelineSteps, ExternalPreserves DEF MinedStep
<1>2. QED
  BY PipelineInvInductive, <1>1, PTL DEF PipelineSpec, ValueIsStable

-----------------------------------------------------------------------------
(* The pipeline implements the fact feed.                                  *)

ReadingAt(h) ==
  [outpoint |-> ExtractFact(evmTxs[h]).outpoint, height |-> h, readAt |-> evmTxs[h].time]

\* A mined block adds no reading, or one of an outpoint the index holds.
LEMMA MinedReads ==
  ASSUME PipelineInv, MinedStep
  PROVE  [RelayFeed!FeedNext]_RelayFeed!feedVars
<1>1. PICK tx \in Tx :
           /\ evmTxs' \in Seq(Tx)
           /\ Len(evmTxs') = Len(evmTxs) + 1
           /\ Len(evmTxs') <= MaxHeight
           /\ \A h \in 1 .. Len(evmTxs) : evmTxs'[h] = evmTxs[h]
           /\ evmTxs'[Len(evmTxs) + 1] = tx
           /\ UNCHANGED <<now, utxos, attested, facts>>
           /\ tx.time = now
           /\ \/ ExtractFact(tx) = NoFact
              \/ \E o \in utxos :
                   /\ ExtractFact(tx) = [outpoint |-> o, value |-> Sats[o]]
                   /\ tx.sender = Relayer /\ tx.to = Receiver
  BY MinedKeepsBlocks
<1> DEFINE n == Len(evmTxs) + 1
<1>2. Len(evmTxs) \in Nat /\ MaxHeight \in Nat /\ utxos \subseteq Outpoints
  BY PipelineAssumption DEF PipelineInv, PipelineTypeOK
<1>3. n \in 1 .. MaxHeight /\ 1 .. Len(evmTxs') = (1 .. Len(evmTxs)) \cup {n}
  BY <1>1, <1>2
<1>4. RelayReadings = {ReadingAt(h) : h \in RelayHeights}
  BY DEF RelayReadings, ReadingAt
<1>5. RelayReadings' = {[outpoint |-> ExtractFact(evmTxs'[h]).outpoint, height |-> h,
                    readAt |-> evmTxs'[h].time] :
                     h \in {k \in 1 .. Len(evmTxs') : ExtractFact(evmTxs'[k]) # NoFact}}
  BY DEF RelayReadings, RelayHeights
<1>6. CASE ExtractFact(tx) = NoFact
  <2>1. {k \in 1 .. Len(evmTxs') : ExtractFact(evmTxs'[k]) # NoFact} = RelayHeights
    BY <1>1, <1>2, <1>3, <1>6 DEF RelayHeights
  <2>2. \A h \in RelayHeights : evmTxs'[h] = evmTxs[h]
    BY <1>1 DEF RelayHeights
  <2>3. RelayReadings' = RelayReadings
    BY <1>4, <1>5, <2>1, <2>2 DEF ReadingAt
  <2>4. QED
    BY <1>1, <2>3 DEF RelayFeed!feedVars
<1>7. ASSUME NEW o \in utxos, ExtractFact(tx) = [outpoint |-> o, value |-> Sats[o]]
      PROVE  RelayFeed!Read(o, n)
  <2>1. ExtractFact(tx) # NoFact
    BY <1>2, <1>7, PipelineAssumption
  <2>2. {k \in 1 .. Len(evmTxs') : ExtractFact(evmTxs'[k]) # NoFact} = RelayHeights \cup {n}
    BY <1>1, <1>2, <1>3, <2>1 DEF RelayHeights
  <2>3. \A h \in RelayHeights : evmTxs'[h] = evmTxs[h] /\ h < n
    BY <1>1, <1>2 DEF RelayHeights
  <2>4. evmTxs'[n] = tx /\ ExtractFact(tx).outpoint = o /\ tx.time = now
    BY <1>1, <1>7
  <2> HIDE DEF n
  <2>5. RelayReadings' = RelayReadings \cup {[outpoint |-> o, height |-> n, readAt |-> now]}
    BY <1>4, <1>5, <2>2, <2>3, <2>4 DEF ReadingAt
  <2>6. \A r \in RelayReadings : r.height < n
    BY <1>4, <2>3 DEF ReadingAt
  <2>7. QED
    BY <1>1, <1>7, <2>5, <2>6 DEF RelayFeed!Read
<1>8. QED
  BY <1>1, <1>2, <1>3, <1>6, <1>7 DEF RelayFeed!FeedNext

\* Proving a block repeats the reading it carries.
LEMMA ProveRecords ==
  ASSUME PipelineInv, NEW h \in 1 .. MaxHeight, Prove(h)
  PROVE  RelayFeed!FeedNext
<1>1. PICK o \in Outpoints :
        /\ h \in 1 .. Len(evmTxs)
        /\ ExtractFact(evmTxs[h]) = [outpoint |-> o, value |-> Sats[o]]
        /\ ExtractFact(evmTxs[h]) # NoFact
        /\ facts' = [facts EXCEPT ![o] = [value |-> Sats[o], sourceHeight |-> h,
                                          provenAt |-> now, proven |-> TRUE]]
  BY ProvePreserves
<1> DEFINE r == ReadingAt(h)
<1>2. r \in RelayReadings
  BY <1>1 DEF RelayReadings, RelayHeights, ReadingAt
<1>3. r.outpoint = o /\ r.height = h
  BY <1>1 DEF ReadingAt
<1>4. facts' = [facts EXCEPT ![r.outpoint] = RelayFeed!FactOf(r.outpoint, r.height, now)]
  BY <1>1, <1>3 DEF RelayFeed!FactOf
<1>5. UNCHANGED <<now, utxos, RelayReadings>>
  BY DEF Prove, RelayReadings, RelayHeights
<1>6. RelayFeed!Record(r)
  BY <1>4, <1>5 DEF RelayFeed!Record
<1>7. QED
  BY <1>2, <1>6 DEF RelayFeed!FeedNext

LEMMA ExternalFeeds ==
  ASSUME PipelineInv,
         \/ Tick
         \/ Attest
         \/ \E o \in Outpoints : IndexChange(o)
         \/ UNCHANGED pipelineVars
  PROVE  [RelayFeed!FeedNext]_RelayFeed!feedVars
<1>1. RelayReadings' = RelayReadings /\ facts' = facts
  BY ExternalPreserves DEF RelayReadings, RelayHeights
<1>2. QED
  BY <1>1 DEF Tick, Attest, IndexChange, pipelineVars,
              RelayFeed!FeedNext, RelayFeed!feedVars, RelayFeed!Tick, RelayFeed!IndexChange

LEMMA PipelineFeedsInit == PipelineInit => RelayFeed!FeedInit
<1> SUFFICES ASSUME PipelineInit PROVE RelayFeed!FeedInit
  OBVIOUS
<1>1. Len(evmTxs) = 0
  BY DEF PipelineInit
<1>2. RelayHeights = {}
  BY <1>1 DEF RelayHeights
<1>3. RelayReadings = {}
  BY <1>2 DEF RelayReadings
<1>4. QED
  BY <1>3 DEF PipelineInit, VerifierInit, Unproven, RelayFeed!FeedInit, RelayFeed!Unproven

LEMMA PipelineFeeds ==
  ASSUME PipelineInv, [PipelineNext]_pipelineVars
  PROVE  [RelayFeed!FeedNext]_RelayFeed!feedVars
<1>1. PipelineTypeOK
  BY DEF PipelineInv
<1>2. QED
  BY <1>1, PipelineSteps, MinedReads, ProveRecords, ExternalFeeds

\* Seen from Creditcoin, the whole of relay, event, attestation and proof is
\* a feed of readings: each fact recorded repeats one that was taken while
\* exSat's index held the output, and nothing else is ever recorded.
THEOREM PipelineImplementsFeed == PipelineSpec => ImplementsFactFeed
<1>1. PipelineInv /\ [PipelineNext]_pipelineVars => [RelayFeed!FeedNext]_RelayFeed!feedVars
  BY PipelineFeeds
<1>2. QED
  BY PipelineInvInductive, PipelineFeedsInit, <1>1, PTL
     DEF PipelineSpec, ImplementsFactFeed, RelayFeed!FeedSpec

-----------------------------------------------------------------------------
(* The scripts.                                                            *)

\* An event of the receiver is the fact of its block: the one log there is.
OwnLogs(tx) ==
  \A i \in 1 .. Len(tx.logs) :
    tx.logs[i].addr = Receiver =>
      ExtractFact(tx) # NoFact /\ ExtractFact(tx).outpoint = tx.logs[i].outpoint

UnderWay == {"chain", "attest", "prove", "submit", "report", "done"}

FoundFact == ExtractFact(evmTxs[found])

\* The block found is on the chain; demo.ts found it by the receiver's event.
FoundInv ==
  phase \in UnderWay /\ script # "dry_run" =>
    /\ found \in 1 .. Len(evmTxs)
    /\ script = "demo" =>
         /\ before <= found
         /\ FoundFact # NoFact
         /\ Txid[FoundFact.outpoint] = Txid[target]

\* Its proof has been accepted, for good.
ProvenInv ==
  phase \in {"report", "done"} /\ script # "dry_run" =>
    FoundFact # NoFact /\ facts[FoundFact.outpoint].proven

ReportInv ==
  script = "demo" /\ phase = "done" /\ FoundFact.outpoint = target =>
    reported.proven /\ reported.value = Sats[target]

\* The run is only as sure of its facts as the pipeline is: the invariant of
\* the pipeline is a part of it.
WorldInv == PipelineInv /\ \A h \in 1 .. Len(evmTxs) : OwnLogs(evmTxs[h])

RunTypes ==
  /\ script \in {"demo", "dry_run", "prove_fact"}
  /\ target \in Outpoints
  /\ phase \in Phases
  /\ before \in 0 .. Len(evmTxs)
  /\ found \in 0 .. Len(evmTxs)
  /\ attempts \in 0 .. MaxRetries \cup 0 .. (MaxWaits - 1)
  /\ reported \in ProvenFact
  /\ phase = "start" => script = "prove_fact"
  /\ script = "dry_run" => phase \in {"read", "done", "failed"}

RunInv == RunTypes /\ FoundInv /\ ProvenInv /\ ReportInv

ScriptsInv == WorldInv /\ RunInv

-----------------------------------------------------------------------------
(* The world beside the run.                                               *)

\* A block that is added owns its logs.
LEMMA NewBlockOwnsLogs ==
  ASSUME PipelineTypeOK,
         \/ \E o \in Outpoints, to \in Others \cup {Receiver}, g \in Gas : RelayUtxo(o, to, g)
         \/ \E s \in Others, to \in Others \cup {Receiver}, o \in Outpoints, v \in Values :
              OutsiderCall(s, to, o, v)
  PROVE  \E tx : evmTxs' = Append(evmTxs, tx) /\ OwnLogs(tx)
<1>1. ASSUME NEW to, NEW s, NEW status, Mined(to, s, status, << >>)
      PROVE  \E tx : evmTxs' = Append(evmTxs, tx) /\ OwnLogs(tx)
  <2> DEFINE tx == [to |-> to, sender |-> s, status |-> status, logs |-> << >>, time |-> now]
  <2>1. OwnLogs(tx)
    BY DEF OwnLogs
  <2>2. evmTxs' = Append(evmTxs, tx)
    BY <1>1 DEF Mined
  <2> HIDE DEF tx
  <2>3. QED
    BY <2>1, <2>2
<1>2. ASSUME NEW to \in Others, NEW s, RunsOther(to, s)
      PROVE  \E tx : evmTxs' = Append(evmTxs, tx) /\ OwnLogs(tx)
  <2>1. ASSUME NEW r \in Addresses, NEW o \in Outpoints, NEW v \in Values,
               Mined(to, s, 1, <<AttestedLog(to, r, o, v)>>)
        PROVE  \E tx : evmTxs' = Append(evmTxs, tx) /\ OwnLogs(tx)
    <3> DEFINE tx == [to |-> to, sender |-> s, status |-> 1,
                      logs |-> <<AttestedLog(to, r, o, v)>>, time |-> now]
    <3>1. to # Receiver
      BY PipelineAssumption
    <3>2. \A i \in 1 .. Len(tx.logs) : tx.logs[i].addr = to
      BY DEF AttestedLog
    <3>3. OwnLogs(tx)
      BY <3>1, <3>2 DEF OwnLogs
    <3>4. evmTxs' = Append(evmTxs, tx)
      BY <2>1 DEF Mined
    <3> HIDE DEF tx
    <3>5. QED
      BY <3>3, <3>4
  <2>2. QED
    BY <1>1, <1>2, <2>1 DEF RunsOther
<1>3. ASSUME NEW s, NEW o \in Outpoints, NEW v \in Values, ReceiveUtxoFact(s, o, v)
      PROVE  \E tx : evmTxs' = Append(evmTxs, tx) /\ OwnLogs(tx)
  <2>1. CASE s = Relayer
    <3> DEFINE tx == [to |-> Receiver, sender |-> Relayer, status |-> 1,
                      logs |-> <<AttestedLog(Receiver, Relayer, o, v)>>, time |-> now]
    <3>1. ExtractFact(tx) = [outpoint |-> o, value |-> v]
      BY ExtractOwnRelay
    <3>2. ExtractFact(tx) # NoFact
      BY <3>1, PipelineAssumption
    <3>3. \A i \in 1 .. Len(tx.logs) : tx.logs[i].outpoint = o
      BY DEF AttestedLog
    <3>4. evmTxs' = Append(evmTxs, tx)
      BY <1>3, <2>1 DEF ReceiveUtxoFact, Mined
    <3> HIDE DEF tx
    <3>5. OwnLogs(tx)
      BY <3>1, <3>2, <3>3 DEF OwnLogs
    <3>6. QED
      BY <3>4, <3>5
  <2>2. CASE s # Relayer
    BY <1>1, <1>3, <2>2 DEF ReceiveUtxoFact
  <2>3. QED
    BY <2>1, <2>2
<1>4. \A o \in Outpoints : Sats[o] \in Values
  BY PipelineAssumption
<1>5. QED
  BY <1>1, <1>2, <1>3, <1>4 DEF RelayUtxo, OutsiderCall, Fails

\* What the run has seen of the world stays as it was.
LEMMA WorldKeeps ==
  ASSUME PipelineInv, \A h \in 1 .. Len(evmTxs) : OwnLogs(evmTxs[h]),
         [PipelineNext]_pipelineVars
  PROVE  /\ PipelineInv'
         /\ \A h \in 1 .. Len(evmTxs') : OwnLogs(evmTxs'[h])
         /\ Len(evmTxs) \in Nat /\ Len(evmTxs') \in Nat /\ Len(evmTxs) <= Len(evmTxs')
         /\ \A h \in 1 .. Len(evmTxs) : evmTxs'[h] = evmTxs[h]
         /\ \A o \in Outpoints : facts[o].proven => facts'[o].proven
<1>1. PipelineInv' /\ PipelineTypeOK /\ evmTxs \in Seq(Tx)
  BY PipelineInvInductive DEF PipelineInv, PipelineTypeOK
<1>2. ASSUME NEW tx, evmTxs' = Append(evmTxs, tx), OwnLogs(tx)
      PROVE  /\ \A h \in 1 .. Len(evmTxs') : OwnLogs(evmTxs'[h])
             /\ Len(evmTxs') = Len(evmTxs) + 1
             /\ \A h \in 1 .. Len(evmTxs) : evmTxs'[h] = evmTxs[h]
  <2>1. /\ Len(evmTxs') = Len(evmTxs) + 1
        /\ \A h \in 1 .. Len(evmTxs) : evmTxs'[h] = evmTxs[h]
        /\ evmTxs'[Len(evmTxs) + 1] = tx
    BY <1>1, <1>2
  <2>2. Len(evmTxs) \in Nat
    BY <1>1
  <2>3. \A h \in 1 .. Len(evmTxs') : h = Len(evmTxs) + 1 \/ h \in 1 .. Len(evmTxs)
    BY <2>1, <2>2
  <2>4. QED
    BY <1>2, <2>1, <2>3
<1>3. CASE \/ \E o \in Outpoints, to \in Others \cup {Receiver}, g \in Gas : RelayUtxo(o, to, g)
           \/ \E s \in Others, to \in Others \cup {Receiver}, o \in Outpoints, v \in Values :
                OutsiderCall(s, to, o, v)
  <2>1. PICK tx : evmTxs' = Append(evmTxs, tx) /\ OwnLogs(tx)
    BY <1>1, <1>3, NewBlockOwnsLogs
  <2>2. facts' = facts
    BY <1>1, <1>3, RelayIsMined, OutsiderIsMined DEF MinedStep
  <2>3. Len(evmTxs) \in Nat
    BY <1>1
  <2>4. QED
    BY <1>1, <1>2, <2>1, <2>2, <2>3
<1>4. ASSUME NEW h \in 1 .. MaxHeight, Prove(h)
      PROVE  evmTxs' = evmTxs /\ \A o \in Outpoints : facts[o].proven => facts'[o].proven
  <2>1. PICK o \in Outpoints :
          facts' = [facts EXCEPT ![o] = [value |-> Sats[o], sourceHeight |-> h,
                                         provenAt |-> now, proven |-> TRUE]]
    BY <1>4, ProvePreserves
  <2>2. facts \in [Outpoints -> ProvenFact]
    BY <1>1 DEF PipelineTypeOK, VerifierTypeOK
  <2>3. QED
    BY <1>4, <2>1, <2>2 DEF Prove
<1>5. CASE Tick \/ Attest \/ (\E o \in Outpoints : IndexChange(o)) \/ UNCHANGED pipelineVars
  BY <1>1, <1>5 DEF Tick, Attest, IndexChange, pipelineVars
<1>6. CASE \E h \in 1 .. MaxHeight : Prove(h)
  BY <1>1, <1>4, <1>6
<1>7. QED
  BY <1>3, <1>5, <1>6 DEF PipelineNext

-----------------------------------------------------------------------------
(* The run.                                                                *)

\* A fact found on the chain is about one of the outpoints.
LEMMA FoundFactIsTyped ==
  ASSUME WorldInv, found \in 1 .. Len(evmTxs), FoundFact # NoFact
  PROVE  FoundFact.outpoint \in Outpoints /\ FoundFact.value = Sats[FoundFact.outpoint]
         /\ evmTxs[found].sender = Relayer
BY DEF WorldInv, PipelineInv, GenuineRelay, FoundFact, Facts

\* Whatever the world does, the run may go on relying on what it has seen.
LEMMA WorldPreserves ==
  ASSUME ScriptsInv, [PipelineNext]_pipelineVars, UNCHANGED runVars
  PROVE  ScriptsInv'
<1>1. WorldInv /\ RunInv /\ UNCHANGED <<script, target, phase, before, found, attempts, reported>>
  BY DEF ScriptsInv, runVars
<1>2. /\ WorldInv'
      /\ Len(evmTxs) \in Nat /\ Len(evmTxs') \in Nat /\ Len(evmTxs) <= Len(evmTxs')
      /\ \A h \in 1 .. Len(evmTxs) : evmTxs'[h] = evmTxs[h]
      /\ \A o \in Outpoints : facts[o].proven => facts'[o].proven
  BY <1>1, WorldKeeps DEF WorldInv
<1>3. found \in 1 .. Len(evmTxs) => FoundFact' = FoundFact /\ found \in 1 .. Len(evmTxs')
  BY <1>1, <1>2 DEF FoundFact
<1>4. FoundInv'
  BY <1>1, <1>3 DEF RunInv, FoundInv
<1>5. ProvenInv'
  <2> SUFFICES ASSUME phase \in {"report", "done"}, script # "dry_run"
               PROVE  FoundFact' # NoFact /\ facts'[FoundFact'.outpoint].proven
    BY <1>1 DEF ProvenInv
  <2>1. found \in 1 .. Len(evmTxs) /\ FoundFact # NoFact /\ facts[FoundFact.outpoint].proven
    BY <1>1 DEF RunInv, FoundInv, ProvenInv, UnderWay
  <2>2. FoundFact.outpoint \in Outpoints
    BY <1>1, <2>1, FoundFactIsTyped
  <2>3. QED
    BY <1>2, <1>3, <2>1, <2>2
<1>6. ReportInv'
  <2> SUFFICES ASSUME script = "demo", phase = "done", FoundFact'.outpoint = target
               PROVE  reported.proven /\ reported.value = Sats[target]
    BY <1>1 DEF ReportInv
  <2>1. FoundFact' = FoundFact
    BY <1>1, <1>3 DEF RunInv, FoundInv, UnderWay
  <2>2. QED
    BY <1>1, <2>1 DEF RunInv, ReportInv
<1>7. RunTypes'
  BY <1>1, <1>2 DEF RunInv, RunTypes
<1>8. QED
  BY <1>2, <1>4, <1>5, <1>6, <1>7 DEF ScriptsInv, RunInv

\* A step that reads the world and leaves it alone.
LEMMA StandStill ==
  ASSUME WorldInv, UNCHANGED pipelineVars
  PROVE  /\ WorldInv' /\ UNCHANGED <<evmTxs, facts>>
         /\ found' = found => FoundFact' = FoundFact
<1>1. UNCHANGED <<evmTxs, facts>>
  BY DEF pipelineVars
<1>2. PipelineInv'
  BY PipelineInvInductive DEF WorldInv
<1>3. QED
  BY <1>1, <1>2 DEF WorldInv, FoundFact

\* A run that throws claims nothing any more.
LEMMA ThrowsPreserves ==
  ASSUME ScriptsInv, Throws
  PROVE  ScriptsInv'
<1>1. WorldInv' /\ UNCHANGED evmTxs /\ WorldInv /\ RunInv
  BY StandStill DEF ScriptsInv, Throws
<1>2. /\ phase' = "failed" /\ attempts' = 0
      /\ UNCHANGED <<script, target, before, found, reported>>
  BY DEF Throws, GoTo
<1>3. FoundInv' /\ ProvenInv' /\ ReportInv'
  BY <1>2 DEF FoundInv, ProvenInv, ReportInv, UnderWay
<1>4. RunTypes'
  BY <1>1, <1>2, ScriptsAssumption DEF RunInv, RunTypes, Phases
<1>5. QED
  BY <1>1, <1>3, <1>4 DEF ScriptsInv, RunInv

\* Another turn of a loop changes its counter.
LEMMA TryAgainPreserves ==
  ASSUME ScriptsInv, TryAgain, attempts + 1 \in 0 .. MaxRetries \cup 0 .. (MaxWaits - 1)
  PROVE  ScriptsInv'
<1>1. WorldInv' /\ UNCHANGED <<evmTxs, facts>> /\ FoundFact' = FoundFact /\ RunInv
  BY StandStill DEF ScriptsInv, TryAgain
<1>2. attempts' = attempts + 1 /\ UNCHANGED <<script, target, phase, before, found, reported>>
  BY DEF TryAgain
<1>3. FoundInv' /\ ProvenInv' /\ ReportInv'
  BY <1>1, <1>2 DEF RunInv, FoundInv, ProvenInv, ReportInv
<1>4. RunTypes'
  BY <1>1, <1>2 DEF RunInv, RunTypes
<1>5. QED
  BY <1>1, <1>3, <1>4 DEF ScriptsInv, RunInv

\* The awaits up to the event claim nothing.
LEMMA EarlyPreserves ==
  ASSUME ScriptsInv, NEW p \in {"head", "relay", "event", "done"}, GoTo(p),
         WorldInv', Len(evmTxs) <= Len(evmTxs'), p = "done" <=> script = "dry_run",
         before' \in {before, Len(evmTxs)}, found' = found, reported' = reported
  PROVE  ScriptsInv'
<1>1. RunInv /\ phase' = p /\ attempts' = 0 /\ UNCHANGED <<script, target>>
  BY DEF ScriptsInv, GoTo
<1>2. Len(evmTxs) \in Nat /\ Len(evmTxs') \in Nat
  BY DEF ScriptsInv, WorldInv, PipelineInv, PipelineTypeOK
<1>3. FoundInv' /\ ProvenInv' /\ ReportInv'
  BY <1>1 DEF FoundInv, ProvenInv, ReportInv, UnderWay
<1>4. RunTypes'
  BY <1>1, <1>2, ScriptsAssumption DEF RunInv, RunTypes, Phases
<1>5. QED
  BY <1>3, <1>4 DEF ScriptsInv, RunInv

\* The awaits between the event and the proof carry the block found along.
LEMMA WaitingPreserves ==
  ASSUME ScriptsInv, phase \in UnderWay, script # "dry_run",
         NEW p \in {"attest", "prove", "submit"}, GoTo(p),
         UNCHANGED <<before, found, reported, pipelineVars>>
  PROVE  ScriptsInv'
<1>1. WorldInv' /\ UNCHANGED <<evmTxs, facts>> /\ FoundFact' = FoundFact /\ RunInv
  BY StandStill DEF ScriptsInv
<1>2. phase' = p /\ attempts' = 0 /\ UNCHANGED <<script, target, before, found, reported>>
  BY DEF GoTo
<1>3. FoundInv' /\ ProvenInv' /\ ReportInv'
  BY <1>1, <1>2 DEF RunInv, FoundInv, ProvenInv, ReportInv, UnderWay
<1>4. RunTypes'
  BY <1>1, <1>2, ScriptsAssumption DEF RunInv, RunTypes, Phases
<1>5. QED
  BY <1>1, <1>3, <1>4 DEF ScriptsInv, RunInv

-----------------------------------------------------------------------------
(* The awaits of a run, one by one.                                        *)

LEMMA ReadUtxoPreserves ==
  ASSUME ScriptsInv, ReadUtxo
  PROVE  ScriptsInv'
<1>1. CASE Throws
  BY <1>1, ThrowsPreserves
<1>2. CASE /\ GoTo(IF script = "dry_run" THEN "done" ELSE "head")
           /\ UNCHANGED <<before, found, reported, pipelineVars>>
  <2>1. WorldInv' /\ Len(evmTxs) <= Len(evmTxs')
    <3>1. WorldInv' /\ evmTxs' = evmTxs /\ Len(evmTxs) \in Nat
      BY <1>2, StandStill DEF ScriptsInv, WorldInv, PipelineInv, PipelineTypeOK
    <3>2. QED
      BY <3>1
  <2>2. CASE script = "dry_run"
    BY <1>2, <2>1, <2>2, EarlyPreserves
  <2>3. CASE script # "dry_run"
    BY <1>2, <2>1, <2>3, EarlyPreserves
  <2>4. QED
    BY <2>2, <2>3
<1>3. QED
  BY <1>1, <1>2 DEF ReadUtxo

LEMMA NoteHeadPreserves ==
  ASSUME ScriptsInv, NoteHead
  PROVE  ScriptsInv'
<1>1. CASE Throws
  BY <1>1, ThrowsPreserves
<1>2. CASE /\ before' = Len(evmTxs) /\ GoTo("relay")
           /\ UNCHANGED <<found, reported, pipelineVars>>
  <2>1. WorldInv' /\ evmTxs' = evmTxs /\ Len(evmTxs) \in Nat
    BY <1>2, StandStill DEF ScriptsInv, WorldInv, PipelineInv, PipelineTypeOK
  <2>2. Len(evmTxs) <= Len(evmTxs')
    BY <2>1
  <2>3. QED
    <3>1. script # "dry_run"
      BY DEF NoteHead, ScriptsInv, RunInv, RunTypes
    <3>2. QED
      BY <1>2, <2>1, <2>2, <3>1, EarlyPreserves
<1>3. QED
  BY <1>1, <1>2 DEF NoteHead

\* The relay is a step of the pipeline like any operator's.
LEMMA RelayOnChainPreserves ==
  ASSUME ScriptsInv, RelayOnChain
  PROVE  ScriptsInv'
<1>1. CASE Throws
  BY <1>1, ThrowsPreserves
<1>2. CASE /\ RelayUtxo(target, Receiver, GasLimit)
           /\ GoTo("event") \/ GoTo("failed")
           /\ UNCHANGED <<before, found, reported>>
  <2>1. target \in Outpoints /\ GasLimit \in Gas /\ Receiver \in Others \cup {Receiver}
    BY ScriptsAssumption DEF ScriptsInv, RunInv, RunTypes
  <2>2. PipelineNext
    BY <1>2, <2>1 DEF PipelineNext
  <2>3. WorldInv' /\ Len(evmTxs) <= Len(evmTxs') /\ Len(evmTxs) \in Nat /\ Len(evmTxs') \in Nat
    BY <2>2, WorldKeeps DEF ScriptsInv, WorldInv
  <2>4. CASE GoTo("event")
    <3>1. script # "dry_run"
      BY DEF RelayOnChain, ScriptsInv, RunInv, RunTypes
    <3>2. QED
      BY <1>2, <2>3, <2>4, <3>1, EarlyPreserves
  <2>5. CASE GoTo("failed")
    <3>1. /\ phase' = "failed" /\ attempts' = 0
          /\ UNCHANGED <<script, target, before, found, reported>> /\ RunInv
      BY <1>2, <2>5 DEF GoTo, ScriptsInv
    <3>2. FoundInv' /\ ProvenInv' /\ ReportInv'
      BY <3>1 DEF FoundInv, ProvenInv, ReportInv, UnderWay
    <3>3. RunTypes'
      BY <2>3, <3>1, ScriptsAssumption DEF RunInv, RunTypes, Phases
    <3>4. QED
      BY <2>3, <3>2, <3>3 DEF ScriptsInv, RunInv
  <2>6. QED
    BY <1>2, <2>4, <2>5
<1>3. QED
  BY <1>1, <1>2 DEF RelayOnChain

\* An event of the receiver under the run's transaction is a proper relay of
\* an output of that transaction, because a block owns its logs.
LEMMA WaitForEventPreserves ==
  ASSUME ScriptsInv, WaitForEvent
  PROVE  ScriptsInv'
<1>1. CASE Throws
  BY <1>1, ThrowsPreserves
<1>2. CASE /\ found' \in EventBlocks /\ GoTo("chain")
           /\ UNCHANGED <<before, reported, pipelineVars>>
  <2>1. WorldInv' /\ evmTxs' = evmTxs /\ Len(evmTxs) \in Nat /\ WorldInv /\ RunInv
    BY <1>2, StandStill DEF ScriptsInv, WorldInv, PipelineInv, PipelineTypeOK
  <2>2. phase' = "chain" /\ attempts' = 0 /\ UNCHANGED <<script, target, before, reported>>
        /\ script # "dry_run"
    BY <1>2, <2>1 DEF GoTo, WaitForEvent, RunInv, RunTypes
  <2>3. found' \in 1 .. Len(evmTxs) /\ found' >= before
    BY <1>2 DEF EventBlocks
  <2>4. PICK i \in 1 .. Len(evmTxs[found'].logs) :
          /\ evmTxs[found'].logs[i].addr = Receiver
          /\ Txid[evmTxs[found'].logs[i].outpoint] = Txid[target]
    BY <1>2 DEF EventBlocks
  <2>5. OwnLogs(evmTxs[found'])
    BY <2>1, <2>3 DEF WorldInv
  <2>6. /\ ExtractFact(evmTxs[found']) # NoFact
        /\ Txid[ExtractFact(evmTxs[found']).outpoint] = Txid[target]
    BY <2>4, <2>5 DEF OwnLogs
  <2>7. FoundInv'
    <3>1. before <= found'
      BY <2>1, <2>3 DEF RunInv, RunTypes
    <3>2. QED
      BY <2>1, <2>2, <2>3, <2>6, <3>1 DEF FoundInv, FoundFact
  <2>8. ProvenInv' /\ ReportInv'
    BY <2>2 DEF ProvenInv, ReportInv
  <2>9. RunTypes'
    BY <2>1, <2>2, <2>3, ScriptsAssumption DEF RunInv, RunTypes, Phases
  <2>10. QED
    BY <2>1, <2>7, <2>8, <2>9 DEF ScriptsInv, RunInv
<1>3. QED
  BY <1>1, <1>2 DEF WaitForEvent

LEMMA StartPreserves ==
  ASSUME ScriptsInv, Start
  PROVE  ScriptsInv'
<1>1. WorldInv' /\ evmTxs' = evmTxs /\ Len(evmTxs) \in Nat /\ RunInv
  BY StandStill DEF Start, ScriptsInv, WorldInv, PipelineInv, PipelineTypeOK
<1>2. /\ phase' = "chain" /\ attempts' = 0 /\ found' \in 1 .. Len(evmTxs)
      /\ UNCHANGED <<script, target, before, reported>> /\ script = "prove_fact"
  BY <1>1 DEF Start, GoTo, RunInv, RunTypes
<1>3. FoundInv' /\ ProvenInv' /\ ReportInv'
  BY <1>1, <1>2 DEF FoundInv, ProvenInv, ReportInv
<1>4. RunTypes'
  BY <1>1, <1>2, ScriptsAssumption DEF RunInv, RunTypes, Phases
<1>5. QED
  BY <1>1, <1>3, <1>4 DEF ScriptsInv, RunInv

\* Waiting for the attestation and for the proof.  A dry run never comes here.
LEMMA WaitsPreserve ==
  ASSUME ScriptsInv, CheckChain \/ WaitUntilAttested \/ GenerateProof
  PROVE  ScriptsInv'
<1>1. phase \in UnderWay /\ script # "dry_run"
  BY DEF CheckChain, WaitUntilAttested, GenerateProof, UnderWay, ScriptsInv, RunInv, RunTypes
<1>2. CASE Throws
  BY <1>2, ThrowsPreserves
<1>3. attempts \in Nat /\ MaxRetries \in Nat /\ MaxWaits \in Nat \ {0}
  BY ScriptsAssumption DEF ScriptsInv, RunInv, RunTypes
<1>4. ASSUME NEW p \in {"attest", "prove", "submit"}, GoTo(p),
             UNCHANGED <<before, found, reported, pipelineVars>>
      PROVE  ScriptsInv'
  BY <1>1, <1>4, WaitingPreserves
<1>5. CASE CheckChain
  <2>1. CASE script = "demo"
    BY <1>2, <1>4, <1>5, <2>1 DEF CheckChain
  <2>2. CASE script # "demo"
    BY <1>2, <1>4, <1>5, <2>2 DEF CheckChain
  <2>3. QED
    BY <2>1, <2>2
<1>6. CASE WaitUntilAttested
  <2>1. CASE GoTo(IF script = "demo" THEN "prove" ELSE "submit")
             /\ UNCHANGED <<before, found, reported, pipelineVars>>
    <3>1. CASE script = "demo"
      BY <1>4, <2>1, <3>1
    <3>2. CASE script # "demo"
      BY <1>4, <2>1, <3>2
    <3>3. QED
      BY <3>1, <3>2
  <2>2. CASE TryAgain /\ attempts + 1 < MaxWaits
    <3>1. attempts + 1 \in 0 .. (MaxWaits - 1)
      BY <1>3, <2>2
    <3>2. QED
      BY <2>2, <3>1, TryAgainPreserves
  <2>3. QED
    BY <1>2, <1>6, <2>1, <2>2 DEF WaitUntilAttested
<1>7. CASE GenerateProof
  <2>1. CASE GoTo(IF script = "demo" THEN "submit" ELSE "attest")
             /\ UNCHANGED <<before, found, reported, pipelineVars>>
    <3>1. CASE script = "demo"
      BY <1>4, <2>1, <3>1
    <3>2. CASE script # "demo"
      BY <1>4, <2>1, <3>2
    <3>3. QED
      BY <3>1, <3>2
  <2>2. CASE TryAgain /\ attempts < MaxRetries
    <3>1. attempts + 1 \in 0 .. MaxRetries
      BY <1>3, <2>2
    <3>2. QED
      BY <2>2, <3>1, TryAgainPreserves
  <2>3. QED
    BY <1>2, <1>7, <2>1, <2>2 DEF GenerateProof
<1>8. QED
  BY <1>5, <1>6, <1>7

\* The block found is proven, at Bitcoin's value, by the proof accepted now.
LEMMA SubmitProofPreserves ==
  ASSUME ScriptsInv, SubmitProof
  PROVE  ScriptsInv'
<1>1. CASE Throws
  BY <1>1, ThrowsPreserves
<1>2. CASE /\ Prove(found) /\ GoTo(IF script = "demo" THEN "report" ELSE "done")
           /\ UNCHANGED <<before, found, reported>>
  <2>1. WorldInv /\ RunInv /\ phase = "submit" /\ script # "dry_run"
    BY DEF SubmitProof, ScriptsInv, RunInv, RunTypes
  <2>2. found \in 1 .. MaxHeight /\ found \in 1 .. Len(evmTxs) /\ Len(evmTxs) \in Nat
    BY <1>2, <2>1, PipelineAssumption DEF Prove, WorldInv, PipelineInv, PipelineTypeOK
  <2>3. PICK o \in Outpoints :
          /\ ExtractFact(evmTxs[found]) = [outpoint |-> o, value |-> Sats[o]]
          /\ ExtractFact(evmTxs[found]) # NoFact
          /\ facts' = [facts EXCEPT ![o] = [value |-> Sats[o], sourceHeight |-> found,
                                            provenAt |-> now, proven |-> TRUE]]
    BY <1>2, <2>1, <2>2, ProvePreserves DEF WorldInv
  <2>4. WorldInv' /\ evmTxs' = evmTxs
    BY <1>2, <2>1, <2>2, WorldKeeps DEF WorldInv, PipelineNext, Prove
  <2>5. /\ phase' \in {"report", "done"} /\ (phase' = "done" => script # "demo")
        /\ attempts' = 0 /\ UNCHANGED <<script, target, before, found, reported>>
    BY <1>2 DEF GoTo
  <2>6. FoundFact' = FoundFact /\ FoundFact.outpoint = o /\ FoundFact # NoFact
    BY <2>3, <2>4, <2>5 DEF FoundFact
  <2>7. FoundInv'
    BY <2>1, <2>4, <2>5, <2>6 DEF RunInv, FoundInv, UnderWay
  <2>8. ProvenInv'
    <3>1. facts'[o].proven
      BY <2>1, <2>3 DEF WorldInv, PipelineInv, PipelineTypeOK, VerifierTypeOK
    <3>2. QED
      BY <2>6, <3>1 DEF ProvenInv
  <2>9. ReportInv'
    BY <2>5 DEF ReportInv
  <2>10. RunTypes'
    BY <2>1, <2>4, <2>5, ScriptsAssumption DEF RunInv, RunTypes, Phases
  <2>11. QED
    BY <2>4, <2>7, <2>8, <2>9, <2>10 DEF ScriptsInv, RunInv
<1>3. QED
  BY <1>1, <1>2 DEF SubmitProof

\* What is reported is the record of the target as it stands by then.
LEMMA ReportPreserves ==
  ASSUME ScriptsInv, Report
  PROVE  ScriptsInv'
<1>1. CASE Throws
  BY <1>1, ThrowsPreserves
<1>2. CASE /\ reported' = facts[target] /\ GoTo("done")
           /\ UNCHANGED <<before, found, pipelineVars>>
  <2>1. WorldInv /\ RunInv /\ phase = "report" /\ script # "dry_run"
    BY DEF Report, ScriptsInv, RunInv, RunTypes
  <2>2. WorldInv' /\ UNCHANGED <<evmTxs, facts>> /\ FoundFact' = FoundFact
    BY <1>2, <2>1, StandStill
  <2>3. phase' = "done" /\ attempts' = 0 /\ UNCHANGED <<script, target, before, found>>
    BY <1>2 DEF GoTo
  <2>4. FoundFact # NoFact /\ facts[FoundFact.outpoint].proven
    BY <2>1 DEF RunInv, ProvenInv
  <2>5. FoundInv' /\ ProvenInv'
    BY <2>1, <2>2, <2>3 DEF RunInv, FoundInv, ProvenInv, UnderWay
  <2>6. ReportInv'
    <3>1. facts[target].proven => facts[target].value = Sats[target]
      BY <2>1 DEF WorldInv, PipelineInv, FactsAreAuthored, RunInv, RunTypes
    <3>2. QED
      BY <1>2, <2>2, <2>3, <2>4, <3>1 DEF ReportInv
  <2>7. reported' \in ProvenFact
    BY <1>2, <2>1 DEF WorldInv, PipelineInv, PipelineTypeOK, VerifierTypeOK, RunInv, RunTypes
  <2>8. RunTypes'
    BY <2>1, <2>2, <2>3, <2>7, ScriptsAssumption DEF RunInv, RunTypes, Phases
  <2>9. QED
    BY <2>2, <2>5, <2>6, <2>8 DEF ScriptsInv, RunInv
<1>3. QED
  BY <1>1, <1>2 DEF Report

LEMMA InitHolds == ScriptsInit => ScriptsInv
<1> SUFFICES ASSUME ScriptsInit PROVE ScriptsInv
  OBVIOUS
<1>1. WorldInv
  BY PipelineInvInductive DEF ScriptsInit, PipelineInit, WorldInv
<1>2. (CHOOSE o \in Outpoints : TRUE) \in Outpoints
  BY ScriptsAssumption
<1>3. RunTypes
  <2>1. Len(evmTxs) = 0 /\ Unproven \in ProvenFact
    BY DEF ScriptsInit, PipelineInit, Unproven, ProvenFact
  <2>2. QED
    BY <1>2, <2>1, ScriptsAssumption DEF ScriptsInit, RunTypes, Phases
<1>4. FoundInv /\ ProvenInv /\ ReportInv
  BY DEF ScriptsInit, FoundInv, ProvenInv, ReportInv, UnderWay
<1>5. QED
  BY <1>1, <1>3, <1>4 DEF ScriptsInv, RunInv

LEMMA ScriptsInvariant == ScriptsSpec => []ScriptsInv
<1>1. ScriptsInv /\ [ScriptsNext]_scriptVars => ScriptsInv'
  <2> SUFFICES ASSUME ScriptsInv, [ScriptsNext]_scriptVars PROVE ScriptsInv'
    OBVIOUS
  <2>1. CASE PipelineNext /\ UNCHANGED runVars
    BY <2>1, WorldPreserves
  <2>2. CASE RunStep
    BY <2>2, ReadUtxoPreserves, NoteHeadPreserves, RelayOnChainPreserves,
       WaitForEventPreserves, StartPreserves, WaitsPreserve, SubmitProofPreserves,
       ReportPreserves DEF RunStep
  <2>3. CASE UNCHANGED scriptVars
    BY <2>3, WorldPreserves DEF scriptVars
  <2>4. QED
    BY <2>1, <2>2, <2>3 DEF ScriptsNext
<1>2. QED
  BY <1>1, InitHolds, PTL DEF ScriptsSpec

-----------------------------------------------------------------------------

\* Every variable of a run keeps its type; the counters of the loops stay
\* below their limits.
THEOREM ScriptsTypeCorrect == ScriptsSpec => []ScriptsTypeOK
<1>1. ScriptsInv => ScriptsTypeOK
  BY DEF ScriptsInv, WorldInv, PipelineInv, RunInv, RunTypes, ScriptsTypeOK
<1>2. QED
  BY <1>1, ScriptsInvariant, PTL

\* A run that ends well has proven an output that btcwitness relayed.
THEOREM FinishedRunsAlwaysHaveProven == ScriptsSpec => []FinishedRunsHaveProven
<1>1. ASSUME ScriptsInv PROVE FinishedRunsHaveProven
  <2> SUFFICES ASSUME phase \in {"report", "done"}, script # "dry_run"
               PROVE  /\ FoundFact # NoFact
                      /\ evmTxs[found].sender = Relayer
                      /\ script = "demo" => Txid[FoundFact.outpoint] = Txid[target]
                      /\ facts[FoundFact.outpoint].proven
                      /\ facts[FoundFact.outpoint].value = Sats[FoundFact.outpoint]
    BY DEF FinishedRunsHaveProven, FoundFact
  <2>1. /\ found \in 1 .. Len(evmTxs) /\ FoundFact # NoFact
        /\ facts[FoundFact.outpoint].proven
        /\ script = "demo" => Txid[FoundFact.outpoint] = Txid[target]
    BY <1>1 DEF ScriptsInv, RunInv, FoundInv, ProvenInv, UnderWay
  <2>2. FoundFact.outpoint \in Outpoints /\ evmTxs[found].sender = Relayer
    BY <1>1, <2>1, FoundFactIsTyped DEF ScriptsInv
  <2>3. facts[FoundFact.outpoint].value = Sats[FoundFact.outpoint]
    BY <1>1, <2>1, <2>2 DEF ScriptsInv, WorldInv, PipelineInv, FactsAreAuthored
  <2>4. QED
    BY <2>1, <2>2, <2>3
<1>2. QED
  BY <1>1, ScriptsInvariant, PTL

\* A demo that has its transaction to itself reports the output it relayed.
THEOREM UndisturbedRunAlwaysReportsTarget == ScriptsSpec => []UndisturbedRunReportsTarget
<1>1. ASSUME ScriptsInv PROVE UndisturbedRunReportsTarget
  <2> SUFFICES ASSUME script = "demo", phase = "done",
                      \A h \in before .. found :
                        h \in RelayHeights /\ Txid[ExtractFact(evmTxs[h]).outpoint] = Txid[target]
                          => ExtractFact(evmTxs[h]).outpoint = target
               PROVE  reported.proven /\ reported.value = Sats[target]
    BY DEF UndisturbedRunReportsTarget
  <2>1. /\ found \in 1 .. Len(evmTxs) /\ before <= found /\ FoundFact # NoFact
        /\ Txid[FoundFact.outpoint] = Txid[target]
    BY <1>1 DEF ScriptsInv, RunInv, FoundInv, UnderWay
  <2>2. found \in before .. found /\ found \in RelayHeights
    BY <1>1, <2>1 DEF ScriptsInv, RunInv, RunTypes, RelayHeights, FoundFact
  <2>3. FoundFact.outpoint = target
    BY <2>1, <2>2 DEF FoundFact
  <2>4. QED
    BY <1>1, <2>3 DEF ScriptsInv, RunInv, ReportInv
<1>2. QED
  BY <1>1, ScriptsInvariant, PTL

-----------------------------------------------------------------------------
(* The whole way, from the index to a mint.                                *)

\* The history the solvency layer is stated over is that of the blocks.
ReadingsAreRelayed == readings = RelayReadings

WholeInv == PipelineInv /\ ReadingsAreRelayed

\* A step of the whole is a step of the pipeline, and, by way of the feed the
\* pipeline implements, of the solvency layer.
LEMMA WholeSteps ==
  ASSUME WholeInv, [WholeNext]_wholeVars
  PROVE  /\ WholeInv'
         /\ [PipelineNext]_pipelineVars
         /\ [SolvencyNext]_solvencyVars
<1>1. PipelineInv /\ readings = RelayReadings
  BY DEF WholeInv, ReadingsAreRelayed
<1>2. CASE PipelineNext /\ UNCHANGED consumerVars /\ readings' = RelayReadings'
  <2>1. [RelayFeed!FeedNext]_RelayFeed!feedVars
    BY <1>1, <1>2, PipelineFeeds
  <2>2. CASE RelayFeed!FeedNext
    <3>1. Feed!FeedNext
      BY <1>1, <1>2, <2>2
         DEF RelayFeed!FeedNext, RelayFeed!Tick, RelayFeed!IndexChange, RelayFeed!Read,
             RelayFeed!Record, RelayFeed!FactOf,
             Feed!FeedNext, Feed!Tick, Feed!IndexChange, Feed!Read, Feed!Record, Feed!FactOf
    <3>2. SolvencyNext
      BY <1>2, <3>1 DEF SolvencyNext, consumerVars
    <3>3. QED
      BY <1>1, <1>2, <3>2, PipelineInvInductive DEF WholeInv, ReadingsAreRelayed
  <2>3. CASE UNCHANGED RelayFeed!feedVars
    <3>1. UNCHANGED solvencyVars
      BY <1>1, <1>2, <2>3 DEF RelayFeed!feedVars, solvencyVars, feedVars, consumerVars
    <3>2. QED
      BY <1>1, <1>2, <3>1, PipelineInvInductive DEF WholeInv, ReadingsAreRelayed
  <2>4. QED
    BY <2>1, <2>2, <2>3
<1>3. CASE UNCHANGED pipelineVars /\ ConsumerNext
  <2>1. UNCHANGED <<pipelineVars, feedVars>> /\ SolvencyNext
    BY <1>3 DEF ConsumerNext, SolvencyNext, GuardedMint, NaiveMint, AddSupply, Burn
  <2>2. RelayReadings' = RelayReadings /\ readings' = readings
    BY <2>1 DEF pipelineVars, feedVars, RelayReadings, RelayHeights
  <2>3. QED
    BY <1>1, <2>1, <2>2, PipelineInvInductive DEF WholeInv, ReadingsAreRelayed
<1>4. CASE UNCHANGED wholeVars
  <2>1. UNCHANGED <<pipelineVars, solvencyVars>>
    BY <1>4 DEF wholeVars, pipelineVars, consumerVars, solvencyVars, feedVars, guardVars
  <2>2. RelayReadings' = RelayReadings /\ readings' = readings
    BY <1>4 DEF wholeVars, pipelineVars, RelayReadings, RelayHeights
  <2>3. QED
    BY <1>1, <2>1, <2>2, PipelineInvInductive DEF WholeInv, ReadingsAreRelayed
<1>5. QED
  BY <1>2, <1>3, <1>4 DEF WholeNext

LEMMA WholeInits == WholeInit => WholeInv /\ SolvencyInit
<1> SUFFICES ASSUME WholeInit PROVE WholeInv /\ SolvencyInit
  OBVIOUS
<1>1. PipelineInit /\ readings = RelayReadings
  BY DEF WholeInit
<1>2. Feed!FeedInit
  BY <1>1, PipelineFeedsInit
     DEF RelayFeed!FeedInit, RelayFeed!Unproven, Feed!FeedInit, Feed!Unproven
<1>3. QED
  BY <1>1, <1>2, PipelineInvInductive DEF WholeInit, WholeInv, ReadingsAreRelayed, SolvencyInit

LEMMA WholeAlways == WholeSpec => []WholeInv /\ SolvencySpec
<1>1. WholeInv /\ [WholeNext]_wholeVars => WholeInv' /\ [SolvencyNext]_solvencyVars
  BY WholeSteps
<1>2. QED
  BY <1>1, WholeInits, PTL DEF WholeSpec, SolvencySpec

\* Put behind the pipeline itself instead of the abstract feed, with its
\* look-alike events, failed and late relays and repeated proofs, guard and
\* tokens behave as the solvency layer does, so that its theorems hold there.
THEOREM WholeImplementsLayer == WholeSpec => ImplementsSolvencyLayer
BY WholeAlways DEF ImplementsSolvencyLayer

\* An attested block stays what it is, and attested.
LEMMA WitnessedGrows ==
  ASSUME PipelineInv, [PipelineNext]_pipelineVars
  PROVE  Witnessed \subseteq Witnessed'
<1>1. /\ Len(evmTxs) \in Nat
      /\ attested \in 0 .. Len(evmTxs) /\ PipelineTypeOK
  BY DEF PipelineInv, PipelineTypeOK
<1>2. attested <= attested' /\ \A h \in 1 .. attested : evmTxs'[h] = evmTxs[h]
  <2>1. CASE MinedStep
    BY <1>1, <2>1, MinedKeepsBlocks
  <2>2. CASE Attest
    BY <1>1, <2>2 DEF Attest
  <2>3. CASE UNCHANGED <<evmTxs, attested>>
    BY <1>1, <2>3
  <2>4. QED
    BY <1>1, <2>1, <2>2, <2>3, PipelineSteps DEF Tick, IndexChange, Prove, pipelineVars
<1>3. attested' \in Nat
  BY PipelineInvInductive DEF PipelineInv, PipelineTypeOK
<1>4. \A h \in 1 .. attested : h \in 1 .. attested'
  BY <1>1, <1>2, <1>3
<1>5. QED
  BY <1>2, <1>4 DEF Witnessed

\* What is in the fresh reserve has been witnessed, and what has been
\* witnessed has a sum.
WitnessedFacts ==
  /\ FreshReserve \subseteq Witnessed
  /\ Witnessed \in SUBSET Outpoints /\ IsFiniteSet(Witnessed)

LEMMA FreshIsWitnessed == WholeInv /\ LayerInv => WitnessedFacts
<1> SUFFICES ASSUME WholeInv, LayerInv PROVE WitnessedFacts
  OBVIOUS
<1>1. FreshReserve \subseteq Witnessed
  BY ReserveIsFresh
     DEF WholeInv, PipelineInv, FactsAreAuthored, LoopSumsFresh, FreshReserve, Witnessed
<1>2. Relayed \in SUBSET Outpoints /\ IsFiniteSet(Relayed)
  BY RelayedFacts DEF LayerInv, SolvencyTypeOK, Relayed
<1>3. Witnessed \subseteq Relayed
  <2> SUFFICES ASSUME NEW o \in Witnessed PROVE o \in Relayed
    OBVIOUS
  <2>1. PICK h \in 1 .. attested : ExtractFact(evmTxs[h]) = [outpoint |-> o, value |-> Sats[o]]
    BY DEF Witnessed
  <2>2. h \in 1 .. Len(evmTxs) /\ Sats[o] \in Values /\ o \in Outpoints
    BY PipelineAssumption DEF WholeInv, PipelineInv, PipelineTypeOK, Witnessed
  <2>3. h \in RelayHeights
    BY <2>1, <2>2, PipelineAssumption DEF RelayHeights
  <2>4. ReadingAt(h) \in readings
    BY <2>3 DEF WholeInv, ReadingsAreRelayed, RelayReadings, ReadingAt
  <2>5. ReadingAt(h).outpoint = o
    BY <2>1 DEF ReadingAt
  <2>6. QED
    BY <2>4, <2>5 DEF Relayed
<1>4. QED
  BY <1>1, <1>2, <1>3, FS_Subset DEF Witnessed, WitnessedFacts

LEMMA FreshIsWitnessedNext == WholeInv' /\ LayerInv' => WitnessedFacts'
BY FreshIsWitnessed, PTL

LEMMA WitnessedStep ==
  ASSUME WholeInv, LayerInv, GuardedSupplyIsWitnessed, [WholeNext]_wholeVars
  PROVE  GuardedSupplyIsWitnessed'
<1>1. /\ PipelineInv /\ [PipelineNext]_pipelineVars /\ [SolvencyNext]_solvencyVars
      /\ WholeInv' /\ LayerInv'
  BY WholeSteps, LayerInvInductive DEF WholeInv
<1>2. /\ GuardedWBTC \in Tokens /\ NoToken \notin Tokens
      /\ supply[GuardedWBTC] \in Nat /\ supply'[GuardedWBTC] \in Nat
  BY <1>1, SolvencyAssumption, GuardAssumption DEF LayerInv, SolvencyTypeOK
<1>3. /\ SatsOf(FreshReserve) \in Nat /\ SatsOf(Witnessed) \in Nat
      /\ SatsOf(FreshReserve) <= SatsOf(Witnessed)
  BY FreshIsWitnessed, SatsFacts DEF WitnessedFacts
<1>4. SatsOf(Witnessed') \in Nat /\ SatsOf(Witnessed) <= SatsOf(Witnessed')
  <2>1. Witnessed' \in SUBSET Outpoints /\ IsFiniteSet(Witnessed')
    BY <1>1, FreshIsWitnessedNext DEF WitnessedFacts
  <2>2. Witnessed \subseteq Witnessed'
    BY <1>1, WitnessedGrows
  <2>3. QED
    BY <1>1, <2>1, <2>2, SatsFacts
<1>5. token' = token \/ (token = NoToken /\ token' \in Tokens)
  BY <1>1, PartsStep, TokenIsSetOnce
<1>6. CASE supply'[GuardedWBTC] > supply[GuardedWBTC]
  <2>1. /\ token # NoToken /\ token' = token
        /\ token = GuardedWBTC => supply'[GuardedWBTC] <= SatsOf(FreshReserve)
    BY <1>1, <1>6, MintFacts DEF guardVars
  <2>2. QED
    BY <1>2, <1>3, <1>4, <2>1 DEF GuardedSupplyIsWitnessed
<1>7. CASE supply'[GuardedWBTC] <= supply[GuardedWBTC]
  BY <1>2, <1>3, <1>4, <1>5, <1>7 DEF GuardedSupplyIsWitnessed
<1>8. QED
  BY <1>2, <1>6, <1>7

\* No unit of the guarded token exists without a satoshi in a distinct output
\* that btcwitness itself reported from the index in an attested block.
THEOREM GuardedSupplyAlwaysWitnessed == WholeSpec => []GuardedSupplyIsWitnessed
<1>1. WholeInit => GuardedSupplyIsWitnessed
  BY SolvencyAssumption DEF WholeInit, GuardInit, GuardedSupplyIsWitnessed
<1>2. WholeInv /\ LayerInv /\ GuardedSupplyIsWitnessed /\ [WholeNext]_wholeVars
        => GuardedSupplyIsWitnessed'
  BY WitnessedStep
<1>3. QED
  BY <1>1, <1>2, WholeAlways, LayerAlways, PTL DEF WholeSpec

=============================================================================

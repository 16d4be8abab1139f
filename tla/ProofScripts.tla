---------------------------- MODULE ProofScripts ----------------------------
(***************************************************************************)
(* scripts/demo.ts and scripts/prove_fact.ts: one live run of either,      *)
(* beside everything else that happens on the pipeline, other operators'   *)
(* relays, outsiders and the moving index included.  An action is what     *)
(* runs between two awaits of main().  A step that throws ends the run     *)
(* ("failed"); demo.ts retries its two waits, prove_fact.ts nothing.       *)
(*                                                                         *)
(*   demo        read head relay event chain attest prove submit report    *)
(*   dry_run     read                                                      *)
(*   prove_fact  start chain prove attest submit                           *)
(*                                                                         *)
(* EVM blocks are final, so what a query returned stays true.              *)
(***************************************************************************)
EXTENDS WitnessPipeline

CONSTANTS
  Txid,         \* the transaction an outpoint belongs to: a function
  GasLimit,     \* RELAY_GAS_LIMIT
  MaxWaits,     \* demo's attempts at waitUntilHeightAttested: 8 in the code
  MaxRetries    \* demo's retries of generateProof after the first call: 10

ASSUME ScriptsAssumption ==
  /\ Outpoints # {}
  /\ DOMAIN Txid = Outpoints
  /\ GasLimit \in Gas
  /\ MaxWaits \in Nat \ {0}
  /\ MaxRetries \in Nat

VARIABLES
  script,     \* which of the two runs; demo.ts may be a dry run
  target,     \* --txid and --index (demo)
  phase,      \* the await main() stands at
  before,     \* beforeBlock: the EVM head before the relay (demo)
  found,      \* the block of the transaction to prove, or 0
  attempts,   \* the counter of the loop main() is in
  reported    \* what getProvenValue answered at the end (demo)

runVars    == <<script, target, phase, before, found, attempts, reported>>
scriptVars == <<pipelineVars, runVars>>

Phases == {"start", "read", "head", "relay", "event", "chain", "attest", "prove",
           "submit", "report", "done", "failed"}

ScriptsTypeOK ==
  /\ PipelineTypeOK
  /\ script \in {"demo", "dry_run", "prove_fact"}
  /\ target \in Outpoints
  /\ phase \in Phases
  /\ before \in 0 .. Len(evmTxs)
  /\ found \in 0 .. Len(evmTxs)
  /\ attempts \in 0 .. MaxRetries \cup 0 .. (MaxWaits - 1)
  /\ reported \in ProvenFact

ScriptsInit ==
  /\ PipelineInit
  /\ \/ /\ script \in {"demo", "dry_run"} /\ phase = "read"
        /\ target \in Outpoints
     \/ /\ script = "prove_fact" /\ phase = "start"
        /\ target = CHOOSE o \in Outpoints : TRUE
  /\ before = 0
  /\ found = 0
  /\ attempts = 0
  /\ reported = Unproven

-----------------------------------------------------------------------------

\* The run goes on to phase p, its loop counter reset.
GoTo(p) ==
  /\ phase' = p
  /\ attempts' = 0
  /\ UNCHANGED <<script, target>>

\* The next turn of the loop the run is in.
TryAgain ==
  /\ attempts' = attempts + 1
  /\ UNCHANGED <<script, target, phase, before, found, reported, pipelineVars>>

Throws ==
  /\ GoTo("failed")
  /\ UNCHANGED <<before, found, reported, pipelineVars>>

-----------------------------------------------------------------------------
(* demo.ts, steps 1 to 3.                                                  *)

\* readUtxo throws for an output that has no row, or if the RPC fails.
HasRow == target \in utxos

\* A dry run ends here.
ReadUtxo ==
  /\ phase = "read"
  /\ \/ /\ HasRow
        /\ GoTo(IF script = "dry_run" THEN "done" ELSE "head")
        /\ UNCHANGED <<before, found, reported, pipelineVars>>
     \/ Throws

\* requireEnv throws before anything is sent; then the EVM head is noted.
NoteHead ==
  /\ phase = "head"
  /\ \/ /\ before' = Len(evmTxs)
        /\ GoTo("relay")
        /\ UNCHANGED <<found, reported, pipelineVars>>
     \/ Throws

\* relayOnChain: the transaction goes in and is answered; goes in while the
\* answer is lost; or is refused, because the row is gone or for any reason
\* of the RPC's own.
RelayOnChain ==
  /\ phase = "relay"
  /\ \/ /\ RelayUtxo(target, Receiver, GasLimit)
        /\ GoTo("event") \/ GoTo("failed")
        /\ UNCHANGED <<before, found, reported>>
     \/ Throws

\* Variant: the query is not filtered by txid.
AnyEventBlocks ==
  {h \in 1 .. Len(evmTxs) :
    /\ h >= before
    /\ \E i \in 1 .. Len(evmTxs[h].logs) : evmTxs[h].logs[i].addr = Receiver}

\* queryFilter: events of the receiver under the run's txid, whatever their
\* index, from beforeBlock itself on.
EventBlocks ==
  {h \in 1 .. Len(evmTxs) :
    /\ h >= before
    /\ \E i \in 1 .. Len(evmTxs[h].logs) :
         LET log == evmTxs[h].logs[i]
         IN  /\ log.addr = Receiver
             /\ log.event = Attested
             /\ Txid[log.outpoint] = Txid[target]}

\* Variant: no deadline.
WaitForEventForever ==
  /\ phase = "event"
  /\ found' \in EventBlocks
  /\ \A h \in EventBlocks : h <= found'
  /\ GoTo("chain")
  /\ UNCHANGED <<before, reported, pipelineVars>>

\* waitForEvent returns the last event, or throws at its deadline; a query
\* that finds nothing is repeated and changes nothing.
WaitForEvent ==
  /\ phase = "event"
  /\ \/ /\ found' \in EventBlocks
        /\ \A h \in EventBlocks : h <= found'
        /\ GoTo("chain")
        /\ UNCHANGED <<before, reported, pipelineVars>>
     \/ Throws

-----------------------------------------------------------------------------
(* prove_fact.ts is given a transaction of exSat's EVM.                    *)

Start ==
  /\ phase = "start"
  /\ found' \in 1 .. Len(evmTxs)
  /\ GoTo("chain")
  /\ UNCHANGED <<before, reported, pipelineVars>>

-----------------------------------------------------------------------------
(* Attestation, proof and submission; demo.ts waits before it generates    *)
(* the proof, prove_fact.ts after.                                         *)

\* A chain key that is not registered throws: in demo.ts after the relay.
CheckChain ==
  /\ phase = "chain"
  /\ \/ /\ GoTo(IF script = "demo" THEN "attest" ELSE "prove")
        /\ UNCHANGED <<before, found, reported, pipelineVars>>
     \/ Throws

\* Variant: the attempts are not limited.
WaitUntilAttestedForever ==
  /\ phase = "attest"
  /\ \/ /\ found <= attested
        /\ GoTo("prove")
        /\ UNCHANGED <<before, found, reported, pipelineVars>>
     \/ TryAgain

\* waitUntilHeightAttested returns once the height is covered; it throws when
\* it has waited too long or, attested or not, when a query of its own fails.
\* demo.ts takes either for the former and asks again, MaxWaits times in all.
WaitUntilAttested ==
  /\ phase = "attest"
  /\ \/ /\ found <= attested
        /\ GoTo(IF script = "demo" THEN "prove" ELSE "submit")
        /\ UNCHANGED <<before, found, reported, pipelineVars>>
     \/ IF script = "demo" /\ attempts + 1 < MaxWaits THEN TryAgain ELSE Throws

\* The proof API builds no proof for a height that is not attested (it answers
\* BlockNotReady) and may lag behind the attestations on the chain.  demo.ts
\* asks again after an answer without a proof; a request that is rejected ends
\* the run at once.
GenerateProof ==
  /\ phase = "prove"
  /\ \/ /\ found <= attested
        /\ GoTo(IF script = "demo" THEN "submit" ELSE "attest")
        /\ UNCHANGED <<before, found, reported, pipelineVars>>
     \/ script = "demo" /\ attempts < MaxRetries /\ TryAgain
     \/ Throws

\* Variant: the receipt of the transaction is not awaited.
SubmitProofUnawaited ==
  /\ phase = "submit"
  /\ GoTo(IF script = "demo" THEN "report" ELSE "done")
  /\ \/ Prove(found)
     \/ UNCHANGED pipelineVars
  /\ UNCHANGED <<before, found, reported>>

\* proveBitcoinFact and the wait for its receipt; the proof may have gone
\* stale, or the transaction may fail, in which case tx.wait() throws.
SubmitProof ==
  /\ phase = "submit"
  /\ \/ /\ Prove(found)
        /\ GoTo(IF script = "demo" THEN "report" ELSE "done")
        /\ UNCHANGED <<before, found, reported>>
     \/ Throws

\* demo.ts prints getProvenValue of the outpoint it was asked for.
Report ==
  /\ phase = "report"
  /\ \/ /\ reported' = facts[target]
        /\ GoTo("done")
        /\ UNCHANGED <<before, found, pipelineVars>>
     \/ Throws

RunStep ==
  \/ ReadUtxo \/ NoteHead \/ RelayOnChain \/ WaitForEvent \/ Start \/ CheckChain
  \/ WaitUntilAttested \/ GenerateProof \/ SubmitProof \/ Report

ScriptsNext ==
  \/ PipelineNext /\ UNCHANGED runVars
  \/ RunStep

ScriptsSpec == ScriptsInit /\ [][ScriptsNext]_scriptVars

\* The awaits that end of themselves: the two waits by the time the scripts and
\* the library give them, and single requests to a node, which is taken to
\* answer or to fail.  A proof that is being built (generateProof) and a
\* transaction that is not mined (tx.wait) are waited for without limit.
LimitedStep ==
  \/ ReadUtxo \/ NoteHead \/ RelayOnChain \/ WaitForEvent \/ Start \/ CheckChain
  \/ WaitUntilAttested \/ Report

\* The event loop of the script takes up what has ended; nothing is assumed of
\* the awaits without a limit.
FairScriptsSpec == ScriptsSpec /\ WF_runVars(LimitedStep)

-----------------------------------------------------------------------------
(* Correctness.                                                            *)

\* A run that ends well has put on record, for good and at Bitcoin's value,
\* an output that btcwitness itself relayed, and demo.ts one of the
\* transaction it was asked for: whatever else was relayed or proven in
\* between, and although nothing is re-checked on the way.
FinishedRunsHaveProven ==
  phase \in {"report", "done"} /\ script # "dry_run" =>
    LET fact == ExtractFact(evmTxs[found])
    IN  /\ fact # NoFact
        /\ evmTxs[found].sender = Relayer
        /\ script = "demo" => Txid[fact.outpoint] = Txid[target]
        /\ facts[fact.outpoint].proven
        /\ facts[fact.outpoint].value = Sats[fact.outpoint]

\* A finished run of demo.ts that had its transaction to itself, no other
\* output of it being relayed from beforeBlock to the event, reports the
\* output it was asked for as proven, at Bitcoin's value.
UndisturbedRunReportsTarget ==
  (/\ script = "demo" /\ phase = "done"
   /\ \A h \in before .. found :
        h \in RelayHeights /\ Txid[ExtractFact(evmTxs[h]).outpoint] = Txid[target]
          => ExtractFact(evmTxs[h]).outpoint = target)
    => reported.proven /\ reported.value = Sats[target]

\* No run that has begun stands still for ever but at an await without a limit:
\* from any other it comes to its end or to one of those two, though the relay
\* may leave no event and the attestors may stop.  A proof that the proof API
\* neither delivers nor denies, and a receipt that never comes, do hold a run
\* for ever.
RunsMoveOn ==
  phase \notin {"start", "prove", "submit"}
    ~> phase \in {"done", "failed", "prove", "submit"}

\* waitForEvent is to "find the event the relay produced": an event of the
\* output that the run relayed.
EventIsTheRelays ==
  script = "demo" /\ found # 0 => ExtractFact(evmTxs[found]).outpoint = target

=============================================================================

--------------------------- MODULE WitnessToMint ----------------------------
(***************************************************************************)
(* The whole way from the Bitcoin index to a mint.  The guard and the      *)
(* tokens of SolvencyLayer stand behind the pipeline of WitnessPipeline    *)
(* instead of the abstract feed: they read the very facts the verifier     *)
(* has recorded, relays, look-alikes, failures and repeated proofs         *)
(* included.  A transaction of the issuer or of a holder leaves the        *)
(* pipeline as it is, and the other way round.                             *)
(***************************************************************************)
EXTENDS WitnessPipeline, SolvencyLayer

consumerVars == <<guardVars, supply>>
wholeVars    == <<pipelineVars, consumerVars, readings>>

\* The feed's readings are history here: what the blocks so far have relayed.
WholeInit ==
  /\ PipelineInit
  /\ GuardInit
  /\ supply = [t \in Tokens |-> 0]
  /\ readings = RelayReadings

\* What the issuer and the holders do; readings is what a transaction of
\* theirs leaves alone.
ConsumerNext ==
  \/ GuardNext /\ UNCHANGED <<feedVars, supply>>
  \/ \E v \in 1 .. MaxUint :
       \/ GuardedMint(v)
       \/ NaiveMint(v)
       \/ \E t \in {GuardedWBTC, NaiveWBTC} : Burn(t, v)

WholeNext ==
  \/ PipelineNext /\ UNCHANGED consumerVars /\ readings' = RelayReadings'
  \/ UNCHANGED pipelineVars /\ ConsumerNext

WholeSpec == WholeInit /\ [][WholeNext]_wholeVars

-----------------------------------------------------------------------------
(* Correctness.                                                            *)

\* Guard and tokens behind the pipeline behave as they do behind the feed.  This
\* is proved (WholeImplementsLayer) and no property of a run: the consumers' steps
\* are the solvency layer's own, so that a run could only find what
\* ImplementsFactFeed finds.
ImplementsSolvencyLayer == SolvencySpec

\* The outputs about which, in a block of exSat's EVM that the attestors
\* cover, btcwitness itself called our receiver, with Bitcoin's value.
Witnessed ==
  {o \in Outpoints : \E h \in 1 .. attested :
     /\ evmTxs[h].sender = Relayer
     /\ evmTxs[h].to = Receiver
     /\ ExtractFact(evmTxs[h]) = [outpoint |-> o, value |-> Sats[o]]}

\* The promise of the whole system: once the guard watches it, no unit of the
\* guarded token exists without a satoshi in a distinct output that btcwitness
\* found in the index and reported in an attested block, whatever outsiders
\* call, whatever other contracts emit and however often it is proven.
GuardedSupplyIsWitnessed ==
  token \in {NoToken, GuardedWBTC} =>
    supply[GuardedWBTC] <= IF token = NoToken THEN 0 ELSE SatsOf(Witnessed)

=============================================================================

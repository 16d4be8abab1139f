--------------------------- MODULE SolvencyLayer ----------------------------
(***************************************************************************)
(* The consumer side on Creditcoin, composed: the fact feed, the reserve   *)
(* guard, and the two wrapped tokens whose mints it does and does not      *)
(* check.  A token is its total supply, because that is all the guard      *)
(* reads of it; WrappedBTC has the ledger behind it.  GuardedWBTC's mint   *)
(* and the guard's view run in one transaction and see one state.          *)
(***************************************************************************)
EXTENDS ReserveGuard, WitnessState, FiniteSetsExt

CONSTANTS
  GuardedWBTC, NaiveWBTC,   \* the two tokens deploy_guard.mjs deploys
  MaxUint                   \* type(uint256).max

ASSUME SolvencyAssumption ==
  /\ {GuardedWBTC, NaiveWBTC} \subseteq Tokens
  /\ GuardedWBTC # NaiveWBTC
  /\ Sats \in [Outpoints -> Nat]
  /\ {MaxHeight, MaxTime, MaxUint} \subseteq Nat

VARIABLES
  readings,   \* of the fact feed
  supply      \* totalSupply of each token

feedVars     == <<now, utxos, readings, facts>>
solvencyVars == <<feedVars, guardVars, supply>>

Feed == INSTANCE FactFeed

SolvencyTypeOK ==
  /\ GuardTypeOK
  /\ now \in 0 .. MaxTime
  /\ utxos \subseteq Outpoints
  /\ readings \subseteq Feed!Reading
  /\ facts \in [Outpoints -> Feed!Fact]
  /\ supply \in [Tokens -> 0 .. MaxUint]

SolvencyInit ==
  /\ Feed!FeedInit
  /\ GuardInit
  /\ supply = [t \in Tokens |-> 0]

-----------------------------------------------------------------------------

AddSupply(t, amount) ==
  /\ supply[t] + amount <= MaxUint
  /\ supply' = [supply EXCEPT ![t] = @ + amount]
  /\ UNCHANGED <<feedVars, guardVars>>

\* GuardedWBTC.mint: the guard's check, then _mint.
GuardedMint(amount) ==
  /\ CheckMint(supply, amount, facts, now)
  /\ AddSupply(GuardedWBTC, amount)

\* NaiveWBTC.mint
NaiveMint(amount) == AddSupply(NaiveWBTC, amount)

\* Variant: no balance check.
BurnUnchecked(t, amount) ==
  /\ supply' = [supply EXCEPT ![t] = @ - amount]
  /\ UNCHANGED <<feedVars, guardVars>>

Burn(t, amount) ==
  /\ amount <= supply[t]
  /\ supply' = [supply EXCEPT ![t] = @ - amount]
  /\ UNCHANGED <<feedVars, guardVars>>

SolvencyNext ==
  \/ Feed!FeedNext /\ UNCHANGED <<guardVars, supply>>
  \/ GuardNext /\ UNCHANGED <<feedVars, supply>>
  \/ \E v \in 1 .. MaxUint :
       \/ GuardedMint(v)
       \/ NaiveMint(v)
       \/ \E t \in {GuardedWBTC, NaiveWBTC} : Burn(t, v)

SolvencySpec == SolvencyInit /\ [][SolvencyNext]_solvencyVars

-----------------------------------------------------------------------------
(* Correctness.                                                            *)

SatsOf(S) == SumFunctionOnSet(Sats, S)

\* What the reserve is meant to be: each declared outpoint with a recorded
\* fact inside the window, counted once, at the value Bitcoin gives it.
FreshReserve ==
  {o \in Declared : /\ facts[o].proven
                    /\ maxFactAge = 0 \/ facts[o].provenAt + maxFactAge >= now}

\* The guarded supply only ever grows to a figure the distinct, proven and
\* fresh reserve outpoints cover, whatever was declared, removed, re-declared,
\* proven and re-proven before: the loop over the array neither counts an
\* outpoint twice nor misses the edge of the window.
MintsAreCovered ==
  [][supply'[GuardedWBTC] > supply[GuardedWBTC] =>
       /\ token # NoToken
       /\ token = GuardedWBTC => supply'[GuardedWBTC] <= SatsOf(FreshReserve)]_solvencyVars

\* Once the guard watches it, no unit of the guarded token exists without a
\* satoshi in some Bitcoin output that a relay found in the index, and none
\* exists before the guard is wired to a token.
SupplyNeverOutrunsBitcoin ==
  token \in {NoToken, GuardedWBTC} =>
    supply[GuardedWBTC] <=
      IF token = NoToken THEN 0
                         ELSE SatsOf({r.outpoint : r \in readings})

Solvent == Solvency(supply, facts, now).solvent

\* A wired, solvent token turns insolvent only when time passes, when the
\* issuer withdraws a declared outpoint, or when the issuer narrows the window.
\* Minting, burning, transfers, new declarations and new or repeated proofs,
\* whoever submits them, never cause it.
InsolvencyIsAgeingOrIssuer ==
  [][(token = GuardedWBTC /\ Solvent /\ ~Solvent') =>
       \/ now' > now
       \/ \E o \in Declared : o \notin Declared'
       \/ maxFactAge' # 0 /\ (maxFactAge = 0 \/ maxFactAge' < maxFactAge)]_solvencyVars

\* The notes on the guard say that lag makes it "stricter, never more
\* permissive" and that a fact older than the window "stops counting": a mint
\* under a window would rest on outputs found unspent within that window.
LagNeverLoosens ==
  [][(supply'[GuardedWBTC] > supply[GuardedWBTC] /\ token = GuardedWBTC /\ maxFactAge # 0)
       => supply'[GuardedWBTC] <=
            SatsOf({o \in Declared : \E r \in readings :
                      r.outpoint = o /\ r.readAt + maxFactAge >= now})]_solvencyVars

=============================================================================

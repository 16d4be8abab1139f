---------------------------- MODULE SolvencyDemo ----------------------------
(***************************************************************************)
(* scripts/demo_solvency.mjs run any number of times over the solvency     *)
(* layer, beside redeployments with deploy_guard.mjs and                   *)
(* deploy_verifier.mjs, new proofs by demo.ts, and passing time.           *)
(*                                                                         *)
(* One operator runs the three scripts, one after the other.  An action is *)
(* what runs between two awaits that matter; queries whose answer is only  *)
(* printed are left out.  A step that throws ends the run, before or after *)
(* its transaction took effect.                                            *)
(*                                                                         *)
(*   demo    list count declare solvency mint attack naive narrow stale    *)
(*           restore, then done; or empty, zero, failed                    *)
(*   deploy  contracts wire write, then deployed; or failed                *)
(***************************************************************************)
EXTENDS SolvencyLayer

CONSTANTS
  Window,         \* maxFactAge of guard-deployment.json
  ShareDivisor,   \* the honest mint is this part of the reserve: 5
  AttackFactor,   \* the attack asks for this multiple of it: 1000
  MaxStops        \* bound: how many runs fail

ShortWindow == 1  \* what beat 5 narrows the window to

ASSUME DemoAssumption ==
  /\ Windows = {ShortWindow, Window}
  /\ Window > ShortWindow
  /\ MaxTime > Window
  /\ {ShareDivisor, AttackFactor} \subseteq Nat \ {0}
  /\ MaxStops \in Nat
  /\ ExistsInjection(Outpoints, 1 .. MaxHeight)   \* a block for each relay
  /\ SatsOf(Outpoints) <= MaxUint                 \* Bitcoin has less than 2^256

VARIABLES
  phase,    \* the await the script stands at, or how the last run ended
  todo,     \* the outpoints still to be declared
  before,   \* before.reserves, read after the declarations
  draft,    \* the token of the guard that deploy_guard.mjs is deploying
  vfacts,   \* the facts of the verifier verifier-deployment.json names
  shared,   \* whether that is the verifier the guard reads
  stops     \* history: the runs that failed

runVars  == <<phase, todo, before, draft, stops>>
worldVars == <<now, utxos, readings, facts, vfacts, shared>>
demoVars == <<solvencyVars, runVars, vfacts, shared>>

DemoPhases == {"list", "count", "declare", "solvency", "mint", "attack",
               "naive", "narrow", "stale", "restore"}
DeployPhases == {"contracts", "wire", "write"}
Ended == {"done", "empty", "zero", "deployed", "failed"}

DemoTypeOK ==
  /\ SolvencyTypeOK
  /\ phase \in DemoPhases \cup DeployPhases \cup Ended
  /\ todo \subseteq Outpoints
  /\ before \in Nat
  /\ draft \in {NoToken, GuardedWBTC}
  /\ vfacts \in [Outpoints -> Feed!Fact]
  /\ shared \in BOOLEAN
  /\ stops \in 0 .. MaxStops

\* Each output has been relayed once and none is proven; the shipped
\* deployment files name a verifier and a guard wired to the guarded token.
\* The clock stands at MaxTime from the start, see Ages.
DemoInit ==
  /\ now = MaxTime
  /\ utxos = Outpoints
  /\ LET height == CHOOSE h \in Injection(Outpoints, 1 .. MaxHeight) : TRUE
     IN  readings = {[outpoint |-> o, height |-> height[o], readAt |-> 0] : o \in Outpoints}
  /\ facts = [o \in Outpoints |-> Feed!Unproven]
  /\ vfacts = facts
  /\ shared = TRUE
  /\ supply = [t \in Tokens |-> 0]
  /\ token = GuardedWBTC
  /\ maxFactAge = Window
  /\ reserves = << >>
  /\ slotPlusOne = [o \in Outpoints |-> 0]
  /\ phase = "deployed"
  /\ todo = {}
  /\ before = 0
  /\ draft = NoToken
  /\ stops = 0

-----------------------------------------------------------------------------
(* The world beside the scripts.                                           *)

\* Time passes: instead of moving the clock on, the records move into the
\* past, so that runs may be repeated for ever.  A record that has reached 0
\* is older than either window and stays so.
Ages ==
  LET older(f) == [o \in Outpoints |->
                    IF f[o].provenAt = 0 THEN f[o] ELSE [f[o] EXCEPT !.provenAt = @ - 1]]
  IN  /\ facts' = older(facts)
      /\ vfacts' = older(vfacts)
      /\ facts' # facts \/ vfacts' # vfacts
      /\ UNCHANGED <<now, utxos, readings, guardVars, supply, shared, runVars>>

\* A run of demo.ts, or anybody, submits a proof to the verifier of the file,
\* or anybody one to the verifier that the guard still reads.
ProveAgain(r) ==
  /\ LET proven(f) == [f EXCEPT ![r.outpoint] = Feed!FactOf(r.outpoint, r.height, now)]
     IN  \/ /\ vfacts' = proven(vfacts)
            /\ facts' = IF shared THEN vfacts' ELSE facts
         \/ ~shared /\ facts' = proven(facts) /\ UNCHANGED vfacts
  /\ UNCHANGED <<now, utxos, readings, guardVars, supply, shared, runVars>>

-----------------------------------------------------------------------------

GoTo(p) ==
  /\ phase' = p
  /\ UNCHANGED <<draft, stops>>

Stops ==
  /\ stops < MaxStops
  /\ phase' = "failed"
  /\ stops' = stops + 1
  /\ UNCHANGED draft

\* What follows an awaited transaction: the run goes on, or the answer is lost.
Answered(p) == GoTo(p) \/ Stops

Throws ==
  /\ phase \notin Ended
  /\ Stops
  /\ UNCHANGED <<worldVars, guardVars, supply, todo, before>>

-----------------------------------------------------------------------------
(* demo_solvency.mjs.                                                      *)

StartDemo ==
  /\ phase \in Ended
  /\ GoTo("list")
  /\ todo' = {}
  /\ before' = 0
  /\ UNCHANGED <<worldVars, guardVars, supply>>

\* The BitcoinFactProven events of the file's verifier, each outpoint once.
ListFacts ==
  /\ phase = "list"
  /\ todo' = {o \in Outpoints : vfacts[o].proven}
  /\ GoTo(IF todo' = {} THEN "empty" ELSE "count")
  /\ UNCHANGED <<worldVars, guardVars, supply, before>>

\* Nothing is declared when anything has been declared before.
CountReserves ==
  /\ phase = "count"
  /\ IF Len(reserves) = 0
       THEN GoTo("declare") /\ UNCHANGED todo
       ELSE GoTo("solvency") /\ todo' = {}
  /\ UNCHANGED <<worldVars, guardVars, supply, before>>

\* Variant: the loop also declares what has not been proven.
DeclareAny(o) ==
  /\ phase = "declare"
  /\ DeclareReserve(o)
  /\ todo' = todo \ {o}
  /\ Answered(IF todo' = {} THEN "solvency" ELSE "declare")
  /\ UNCHANGED <<worldVars, supply, before>>

DeclareNext(o) ==
  /\ phase = "declare"
  /\ o \in todo
  /\ DeclareReserve(o)
  /\ todo' = todo \ {o}
  /\ Answered(IF todo' = {} THEN "solvency" ELSE "declare")
  /\ UNCHANGED <<worldVars, supply, before>>

\* printSolvency: of what it prints, the reserve alone is looked at again.
ReservesPrinted == Solvency(supply, facts, now).provenReserveSats

ReadSolvency ==
  /\ phase = "solvency"
  /\ before' = ReservesPrinted
  /\ GoTo(IF before' = 0 THEN "zero" ELSE "mint")
  /\ UNCHANGED <<worldVars, guardVars, supply, todo>>

Mintable(amount) ==
  /\ CheckMint(supply, amount, facts, now)
  /\ supply[GuardedWBTC] + amount <= MaxUint

Refused == GoTo("failed") /\ UNCHANGED <<feedVars, guardVars, supply>>

\* Beat 2.  A refusal is not caught and ends the run.
MintHonest ==
  /\ phase = "mint"
  /\ \/ GuardedMint(before \div ShareDivisor) /\ Answered("attack")
     \/ ~Mintable(before \div ShareDivisor) /\ Refused
  /\ UNCHANGED <<shared, vfacts, todo, before>>

\* Beat 3.  Any error is caught, a refusal and a lost answer alike.
MintAttack ==
  /\ phase = "attack"
  /\ GoTo("naive")
  /\ \/ GuardedMint(AttackFactor * before)
     \/ UNCHANGED <<feedVars, guardVars, supply>>
  /\ UNCHANGED <<shared, vfacts, todo, before>>

\* Beat 4.  The token refuses nothing but an overflow of its supply.
MintNaive ==
  /\ phase = "naive"
  /\ \/ NaiveMint(AttackFactor * before) /\ Answered("narrow")
     \/ supply[NaiveWBTC] + AttackFactor * before > MaxUint /\ Refused
  /\ UNCHANGED <<shared, vfacts, todo, before>>

\* Variant: beat 5 does not narrow the window.
SkipNarrowing ==
  /\ phase = "narrow"
  /\ Answered("stale")
  /\ UNCHANGED <<worldVars, guardVars, supply, todo, before>>

\* Beat 5: the window is narrowed, a satoshi asked for, the window restored.
NarrowWindow ==
  /\ phase = "narrow"
  /\ SetMaxFactAge(ShortWindow)
  /\ Answered("stale")
  /\ UNCHANGED <<worldVars, supply, todo, before>>

MintStale ==
  /\ phase = "stale"
  /\ GoTo("restore")
  /\ \/ GuardedMint(1)
     \/ UNCHANGED <<feedVars, guardVars, supply>>
  /\ UNCHANGED <<shared, vfacts, todo, before>>

RestoreWindow ==
  /\ phase = "restore"
  /\ SetMaxFactAge(Window)
  /\ Answered("done")
  /\ UNCHANGED <<worldVars, supply, todo, before>>

-----------------------------------------------------------------------------
(* The deployments.  What a script deploys is known to nobody until the    *)
(* file that names it is written, last; a run that fails leaves the old    *)
(* file, and with it the old contracts, in use.                            *)

StartDeployGuard ==
  /\ phase \in Ended
  /\ phase' = "contracts"
  /\ draft' = NoToken
  /\ UNCHANGED <<worldVars, guardVars, supply, todo, before, stops>>

\* Variant: the file is written before setToken is called.
DeployContractsUnwired ==
  /\ phase = "contracts"
  /\ Answered("write")
  /\ UNCHANGED <<worldVars, guardVars, supply, todo, before>>

\* ReserveGuard, reading the verifier of the file, and the two tokens.
DeployContracts ==
  /\ phase = "contracts"
  /\ Answered("wire")
  /\ UNCHANGED <<worldVars, guardVars, supply, todo, before>>

WireToken ==
  /\ phase = "wire"
  /\ \/ phase' = "write" /\ draft' = GuardedWBTC /\ UNCHANGED stops
     \/ Stops
  /\ UNCHANGED <<worldVars, guardVars, supply, todo, before>>

\* Variant: only the guard is deployed anew; it is given the token in use.
WriteGuardOnly ==
  /\ phase = "write"
  /\ GoTo("deployed")
  /\ token' = draft
  /\ maxFactAge' = Window
  /\ reserves' = << >>
  /\ slotPlusOne' = [o \in Outpoints |-> 0]
  /\ facts' = vfacts
  /\ shared' = TRUE
  /\ UNCHANGED <<now, utxos, readings, vfacts, supply, todo, before>>

WriteDeployment ==
  /\ phase = "write"
  /\ GoTo("deployed")
  /\ token' = draft
  /\ maxFactAge' = Window
  /\ reserves' = << >>
  /\ slotPlusOne' = [o \in Outpoints |-> 0]
  /\ supply' = [t \in Tokens |-> 0]
  /\ facts' = vfacts
  /\ shared' = TRUE
  /\ UNCHANGED <<now, utxos, readings, vfacts, todo, before>>

\* deploy_verifier.mjs: the file names a new verifier, without facts; the
\* guard keeps the one it was constructed with.
DeployVerifier ==
  /\ phase \in Ended
  /\ vfacts' = [o \in Outpoints |-> Feed!Unproven]
  /\ shared' = FALSE
  /\ UNCHANGED <<now, utxos, readings, facts, guardVars, supply, runVars>>

-----------------------------------------------------------------------------

DemoStep ==
  \/ ListFacts \/ CountReserves \/ ReadSolvency \/ MintHonest \/ MintAttack
  \/ MintNaive \/ NarrowWindow \/ MintStale \/ RestoreWindow \/ Throws
  \/ DeployContracts \/ WireToken \/ WriteDeployment
  \/ \E o \in Outpoints : DeclareNext(o)

DemoNext ==
  \/ DemoStep \/ StartDemo \/ StartDeployGuard \/ DeployVerifier \/ Ages
  \/ \E r \in readings : ProveAgain(r)

DemoSpec == DemoInit /\ [][DemoNext]_demoVars

\* The operator follows the message of a run that found no reserve: re-prove,
\* run the script again, for ever, and deploy nothing.
RerunNext == DemoStep \/ StartDemo \/ Ages \/ \E r \in readings : ProveAgain(r)

RerunSpec ==
  /\ DemoInit /\ [][RerunNext]_demoVars
  /\ WF_demoVars(DemoStep) /\ WF_demoVars(StartDemo)
  /\ \A o \in Outpoints :
       WF_demoVars(\E r \in readings : r.outpoint = o /\ ProveAgain(r))

-----------------------------------------------------------------------------
(* Correctness.                                                            *)

\* Whatever is run, stopped, run again and deployed in between, the guarded
\* supply in use never exceeds the declared outputs that the guard's verifier
\* has recorded: a new guard never meets the supply of an old token.
DemoStaysBacked ==
  supply[GuardedWBTC] <= SatsOf({o \in Declared : facts[o].proven})

\* Beat 3 asks for a multiple of a reserve that was read some blocks earlier.
\* It mints nothing, though facts are re-proven and added in between, as long
\* as the multiple of the least output exceeds the value of all of them.
AttackIsRefused ==
  [][phase = "attack" => supply'[GuardedWBTC] = supply[GuardedWBTC]]_demoVars

\* The first run over fresh contracts is not refused its backed mint unless
\* the reserve it read has aged in between: the guard in the file is wired.
FirstBackedMintSucceeds ==
  [][(phase = "mint" /\ phase' = "failed" /\ stops' = stops /\ supply[GuardedWBTC] = 0)
       => SatsOf(FreshReserve) < before]_demoVars

\* "Reserve is declared but counts as zero: every proof is older than the
\* freshness window": so it is, if the script and the guard read the same
\* verifier; what is declared has been proven there, by whichever run.
ZeroReserveMeansStale ==
  [][(phase = "solvency" /\ phase' = "zero" /\ shared) =>
       /\ Declared # {}
       /\ \A o \in Declared : facts[o].proven /\ facts[o].provenAt + maxFactAge < now]_demoVars

\* In beat 5 "even a small mint is refused", unless someone has proven a
\* declared output again within the last second.
StaleMintNeedsFreshProof ==
  [][(phase = "stale" /\ supply' # supply) =>
       \E o \in Declared : facts[o].proven /\ facts[o].provenAt + ShortWindow >= now]_demoVars

\* "Re-run demo.ts to re-prove the reserve, then run this script again": doing
\* so brings the configured window back after a run that stopped in beat 5.
RerunRestoresWindow == maxFactAge = ShortWindow ~> maxFactAge = Window

=============================================================================

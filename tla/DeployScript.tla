---------------------------- MODULE DeployScript ----------------------------
(***************************************************************************)
(* deploy/deploy.mjs: inspects the account btcwitness11 on EOS, works out  *)
(* what is pending, and pushes up to three transactions: the active key    *)
(* with eosio.code, RAM, and the contract.  A run may fail at any of them, *)
(* before or after the chain applied it, and is run again.                 *)
(*                                                                         *)
(* A step's own inspection and its transaction are one action: the only    *)
(* change anybody else makes, a rotation of the key, commutes with both.   *)
(* RAM is counted in small units; the proportions are the code's.          *)
(***************************************************************************)
EXTENDS Integers, FiniteSets

CONSTANTS
  Billed,        \* RAM that setcode and setabi bill for the build
  Slack,         \* what the script adds to its estimate: 5000
  Spare,         \* what it buys beyond the shortfall: 8192
  InitialFree,   \* the account's free RAM before the first run
  MaxRotations   \* bound: key rotations by other tools

ASSUME DeployAssumption ==
  /\ {Billed, Slack, Spare, MaxRotations} \subseteq Nat
  /\ InitialFree \subseteq Nat

VARIABLES
  keys,        \* keys of the active permission
  eosioCode,   \* the active permission holds btcwitness11@eosio.code
  ramFree,     \* ram_quota - ram_usage
  code,        \* code has been set: last_code_update is not the epoch
  bought,      \* RAM bought by the script so far
  rotations,
  phase,       \* where the run is; a run starts from idle, done or failed
  only,        \* --step, or "all"
  force,       \* --force
  env,         \* the steps whose key is in .env
  pending      \* the steps preflight found to do

accountVars == <<keys, eosioCode, ramFree, code, bought, rotations>>
optionVars  == <<only, force, env>>
deployVars  == <<accountVars, phase, optionVars, pending>>

Steps == {"auth", "ram", "code"}

DeployTypeOK ==
  /\ keys \subseteq {"old", "new"}
  /\ eosioCode \in BOOLEAN
  /\ ramFree \in Nat
  /\ code \in BOOLEAN
  /\ bought \in Nat
  /\ rotations \in 0 .. MaxRotations
  /\ phase \in Steps \cup {"idle", "preflight", "done", "failed"}
  /\ only \in Steps \cup {"all"}
  /\ force \in BOOLEAN
  /\ env \subseteq Steps
  /\ pending \subseteq Steps

DeployInit ==
  /\ keys = {"old"}
  /\ eosioCode = FALSE
  /\ ramFree \in InitialFree
  /\ code = FALSE
  /\ bought = 0
  /\ rotations = 0
  /\ phase = "idle"
  /\ only = "all"
  /\ force = FALSE
  /\ env = {}
  /\ pending = {}

-----------------------------------------------------------------------------

\* Variant: the estimate without the chain's multiplier.
RawSize == Slack

\* setcode bills ten times the size of the wasm, which the estimate follows.
Needed == Billed + Slack

\* Variant: a flat amount, whatever the account owns already.
FlatAmount == Needed + Spare

\* Variant: the shortfall with its sign reversed.
ReversedShortfall == (ramFree - Needed) + Spare

BytesToBuy == (Needed - ramFree) + Spare

AuthIsRight == "new" \in keys /\ eosioCode

StillToDo(step, deployed) ==
  CASE step = "auth" -> ~AuthIsRight
    [] step = "ram"  -> ramFree <= Needed
    [] step = "code" -> force \/ ~deployed

\* The first step of S in the order of the script, or the end of the run.
FirstOf(S) ==
  IF "auth" \in S THEN "auth"
  ELSE IF "ram" \in S THEN "ram"
  ELSE IF "code" \in S THEN "code"
  ELSE "done"

Start(o, f, e) ==
  /\ phase \in {"idle", "done", "failed"}
  /\ phase' = "preflight"
  /\ only' = o /\ force' = f /\ env' = e
  /\ pending' = {}
  /\ UNCHANGED accountVars

Throws ==
  /\ phase' = "failed"
  /\ UNCHANGED <<accountVars, optionVars, pending>>

\* preflight: exits if a pending step's key is missing.  isDeployed takes an
\* account that it cannot read for one without code.
Preflight ==
  /\ phase = "preflight"
  /\ \E deployed \in {code, FALSE} :
       pending' = {s \in Steps : only \in {"all", s} /\ StillToDo(s, deployed)}
  /\ pending' \subseteq env
  /\ phase' = FirstOf(pending')
  /\ UNCHANGED <<accountVars, optionVars>>

PreflightFails == phase = "preflight" /\ Throws

\* The step at hand is over: on to the next one, or, when the answer to its
\* transaction is lost, out.
StepOver ==
  /\ \/ phase' = FirstOf(pending \ {phase})
     \/ phase' = "failed"
  /\ pending' = pending \ {phase}
  /\ UNCHANGED <<optionVars, rotations>>

\* Variant: a rotation that forgets eosio.code.
StepAuthKeyOnly ==
  /\ phase = "auth"
  /\ keys' = {"new"} /\ eosioCode' = FALSE
  /\ StepOver
  /\ UNCHANGED <<ramFree, code, bought>>

\* stepAuth replaces the permission wholesale.
StepAuth ==
  /\ phase = "auth"
  /\ IF AuthIsRight
       THEN UNCHANGED <<keys, eosioCode>>
       ELSE keys' = {"new"} /\ eosioCode' = TRUE
  /\ StepOver
  /\ UNCHANGED <<ramFree, code, bought>>

StepRam ==
  /\ phase = "ram"
  /\ LET bytes == IF ramFree > Needed THEN 0 ELSE BytesToBuy
     IN  /\ ramFree' = ramFree + bytes
         /\ bought' = bought + bytes
  /\ StepOver
  /\ UNCHANGED <<keys, eosioCode, code>>

\* The chain takes setcode only from the key in .env, and bills the RAM; the
\* same build set again costs nothing more.
StepCode ==
  LET bill == IF code THEN 0 ELSE Billed
  IN  /\ phase = "code"
      /\ "new" \in keys
      /\ bill <= ramFree
      /\ ramFree' = ramFree - bill
      /\ code' = TRUE
      /\ StepOver
      /\ UNCHANGED <<keys, eosioCode, bought>>

\* A transaction is refused, or the RPC fails before it is pushed.
StepFails == phase \in Steps /\ Throws

\* Another tool rotates the active key, which wipes eosio.code.
RotateKey(k) ==
  /\ rotations < MaxRotations
  /\ rotations' = rotations + 1
  /\ keys' = {k}
  /\ eosioCode' = FALSE
  /\ UNCHANGED <<ramFree, code, bought, phase, optionVars, pending>>

RunFully == Start("all", FALSE, Steps)

DeployNext ==
  \/ \E o \in Steps \cup {"all"}, f \in BOOLEAN, e \in SUBSET Steps : Start(o, f, e)
  \/ Preflight \/ PreflightFails
  \/ StepAuth \/ StepRam \/ StepCode \/ StepFails
  \/ \E k \in {"old", "new"} : RotateKey(k)

DeploySpec == DeployInit /\ [][DeployNext]_deployVars

\* The operator keeps running the whole script with all keys, and what can
\* succeed does not fail for ever; that an answer is lost is no failure.
DeployFairness ==
  /\ SF_deployVars(RunFully)
  /\ WF_deployVars(Preflight \/ PreflightFails)
  /\ WF_deployVars(StepAuth \/ StepRam \/ StepCode \/ StepFails)
  /\ SF_deployVars(Preflight /\ only = "all" /\ env = Steps)
  /\ SF_deployVars(StepAuth)
  /\ SF_deployVars(StepRam)
  /\ SF_deployVars(StepCode)

FairDeploySpec == DeploySpec /\ DeployFairness

-----------------------------------------------------------------------------
(* Correctness.                                                            *)

\* A full run that gets to the contract has RAM for it: whatever an earlier,
\* failed run bought or did not buy, and however stale the list of pending
\* steps has become.
CodeFindsItsRam == phase = "code" /\ only = "all" => code \/ ramFree >= Billed

\* Until the contract is in place, failed and repeated runs together buy no
\* more than one run that succeeds at once.
RamIsBoughtOnce ==
  ~code => \E free \in InitialFree :
             /\ bought <= IF free > Needed THEN 0 ELSE (Needed - free) + Spare
             /\ ramFree = free + bought

\* setcode uses up what was bought for it, and the next full run takes that for
\* a shortfall and buys it back; but that is all, however many runs follow: the
\* spare then keeps the account above what is needed.
RamIsRefilledOnce ==
  code => \E free \in InitialFree :
            /\ ramFree = (free + bought) - Billed
            /\ bought <= Billed + (IF free > Needed + Spare THEN 0
                                   ELSE (Needed + Spare) - free)

\* Run again and again, the script gets the account where it should be, and
\* keeps it there, from every state a failed run or a rotation may leave.
Ready == AuthIsRight /\ code
RunsConverge == <>[]Ready

\* "Each step checks the chain first and skips itself if already done": unless
\* forced to deploy again, a full run buys no RAM for a contract in its place.
RerunsBuyNothing ==
  [][bought' > bought /\ only = "all" /\ ~force => ~code]_deployVars

=============================================================================

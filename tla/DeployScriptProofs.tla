------------------------- MODULE DeployScriptProofs -------------------------
(***************************************************************************)
(* Theorems about DeployScript, for every size of the build, every slack   *)
(* and spare, and every amount of RAM the account may start with: types,   *)
(* that a full run never reaches setcode without the RAM it bills, and     *)
(* that failed and repeated runs do not buy the RAM twice before the       *)
(* contract is in place, and buy back after that what it used up, once.    *)
(***************************************************************************)
EXTENDS DeployScript, TLAPS

\* A run stands at the first of its pending steps.
AtFirstPending == phase \in Steps => phase = FirstOf(pending)

\* Once a full run no longer intends to buy RAM, the RAM is there, or the
\* contract is.
RamIsSettled ==
  phase \in Steps /\ only = "all" /\ "ram" \notin pending
    => code \/ ramFree >= Billed

\* The account holds what it started with and at most one purchase, of the
\* whole shortfall.
OnePurchase ==
  ~code => \E free \in InitialFree :
             /\ ramFree = free + bought
             /\ \/ bought = 0
                \/ free <= Needed /\ bought = (Needed - free) + Spare

\* Once the contract is in place, the account holds what it started with and
\* what was bought, less what setcode billed.
BooksBalance ==
  code => \E free \in InitialFree : ramFree = (free + bought) - Billed

\* A purchase fills the account up to one level, and no further.
OneLevel == bought = 0 \/ ramFree <= Needed + Spare

RefillInv == BooksBalance /\ OneLevel

DeployInv ==
  DeployTypeOK /\ AtFirstPending /\ RamIsSettled /\ OnePurchase /\ RefillInv

LEMMA NeededIsEnough ==
  /\ Needed \in Nat
  /\ Needed >= Billed
  /\ Billed \in Nat
  /\ Spare \in Nat
  /\ InitialFree \subseteq Nat
BY DeployAssumption DEF Needed

\* The order of the script: auth, RAM, code, end.
LEMMA FirstOfFacts ==
  ASSUME NEW S \in SUBSET Steps
  PROVE  /\ FirstOf(S) \in Steps \cup {"done"}
         /\ FirstOf(S) \in Steps => FirstOf(S) \in S
         /\ FirstOf(S) = "code" => "ram" \notin S
BY DEF FirstOf, Steps

\* What the end of any step leaves behind it: a run at its first pending step
\* or out, and a shorter list.
LEMMA StepOverFacts ==
  ASSUME DeployTypeOK, StepOver
  PROVE  /\ pending' \subseteq Steps
         /\ pending' = pending \ {phase}
         /\ phase' \in Steps \cup {"done", "failed"}
         /\ phase' \in Steps => phase' = FirstOf(pending')
         /\ only' = only /\ force' = force /\ env' = env
         /\ rotations' = rotations
BY FirstOfFacts DEF DeployTypeOK, StepOver, optionVars, Steps

LEMMA InitEstablishes == DeployInit => DeployInv
<1> SUFFICES ASSUME DeployInit PROVE DeployInv
  OBVIOUS
<1>1. DeployTypeOK
  <2>1. ramFree \in Nat /\ bought \in Nat /\ rotations \in 0 .. MaxRotations
    BY DeployAssumption DEF DeployInit
  <2>2. QED
    BY <2>1 DEF DeployInit, DeployTypeOK
<1>2. AtFirstPending /\ RamIsSettled
  BY DEF DeployInit, AtFirstPending, RamIsSettled, Steps
<1>3. OnePurchase /\ RefillInv
  BY NeededIsEnough DEF DeployInit, OnePurchase, RefillInv, BooksBalance, OneLevel
<1>4. QED
  BY <1>1, <1>2, <1>3 DEF DeployInv

\* The books depend on three variables only.
LEMMA RefillKeeps ==
  ASSUME RefillInv, UNCHANGED <<ramFree, code, bought>>
  PROVE  RefillInv'
BY DEF RefillInv, BooksBalance, OneLevel, Needed

\* Starting, inspecting and failing leave the account alone.
LEMMA RunControlPreserves ==
  ASSUME DeployInv
  PROVE  /\ \A o \in Steps \cup {"all"}, f \in BOOLEAN, e \in SUBSET Steps :
              Start(o, f, e) => DeployInv'
         /\ Preflight => DeployInv'
         /\ PreflightFails \/ StepFails => DeployInv'
<1> USE DEF DeployInv, DeployTypeOK, accountVars, optionVars
<1>1. ASSUME NEW o \in Steps \cup {"all"}, NEW f \in BOOLEAN, NEW e \in SUBSET Steps,
             Start(o, f, e)
      PROVE  DeployInv'
  BY <1>1, RefillKeeps DEF Start, AtFirstPending, RamIsSettled, OnePurchase, Steps
<1>2. ASSUME Preflight PROVE DeployInv'
  <2>0. PICK deployed \in {code, FALSE} :
          pending' = {s \in Steps : only \in {"all", s} /\ StillToDo(s, deployed)}
    BY <1>2 DEF Preflight
  <2> DEFINE todo == {s \in Steps : only \in {"all", s} /\ StillToDo(s, deployed)}
  <2>1. pending' = todo /\ todo \subseteq Steps /\ phase' = FirstOf(todo)
    BY <1>2, <2>0 DEF Preflight
  <2>2. /\ ramFree' = ramFree /\ code' = code /\ bought' = bought
        /\ keys' = keys /\ eosioCode' = eosioCode /\ rotations' = rotations
        /\ only' = only /\ force' = force /\ env' = env
    BY <1>2 DEF Preflight
  <2>3. DeployTypeOK'
    BY <2>1, <2>2, FirstOfFacts
  <2>4. AtFirstPending' /\ OnePurchase' /\ RefillInv'
    BY <2>1, <2>2, RefillKeeps DEF AtFirstPending, OnePurchase
  <2>5. only = "all" /\ "ram" \notin todo => ramFree >= Billed
    <3> SUFFICES ASSUME only = "all", "ram" \notin todo PROVE ramFree >= Billed
      OBVIOUS
    <3>1. ~StillToDo("ram", deployed)
      BY DEF Steps
    <3>2. ~(ramFree <= Needed)
      BY <3>1 DEF StillToDo
    <3>3. QED
      BY <3>2, NeededIsEnough
  <2>6. RamIsSettled'
    BY <2>1, <2>2, <2>5 DEF RamIsSettled
  <2>7. QED
    BY <2>3, <2>4, <2>6
<1>3. ASSUME PreflightFails \/ StepFails PROVE DeployInv'
  BY <1>3, RefillKeeps DEF PreflightFails, StepFails, Throws, AtFirstPending, RamIsSettled,
              OnePurchase, Steps
<1>4. QED
  BY <1>1, <1>2, <1>3

LEMMA StepAuthPreserves == DeployInv /\ StepAuth => DeployInv'
<1> SUFFICES ASSUME DeployInv, StepAuth PROVE DeployInv'
  OBVIOUS
<1> USE DEF DeployInv
<1>1. StepOver /\ phase = "auth"
  BY DEF StepAuth
<1>2. ramFree' = ramFree /\ code' = code /\ bought' = bought
  BY DEF StepAuth
<1>3. keys' \subseteq {"old", "new"} /\ eosioCode' \in BOOLEAN
  BY DEF StepAuth, DeployTypeOK
<1>4. DeployTypeOK'
  BY <1>1, <1>2, <1>3, StepOverFacts DEF DeployTypeOK
<1>5. AtFirstPending' /\ OnePurchase' /\ RefillInv'
  BY <1>1, <1>2, StepOverFacts, RefillKeeps DEF AtFirstPending, OnePurchase
<1>6. RamIsSettled'
  BY <1>1, <1>2, StepOverFacts DEF RamIsSettled, Steps
<1>7. QED
  BY <1>4, <1>5, <1>6

LEMMA StepRamPreserves == DeployInv /\ StepRam => DeployInv'
<1> SUFFICES ASSUME DeployInv, StepRam PROVE DeployInv'
  OBVIOUS
<1> USE DEF DeployInv
<1> DEFINE bytes == IF ramFree > Needed THEN 0 ELSE BytesToBuy
<1>1. StepOver /\ phase = "ram"
  BY DEF StepRam
<1>2. /\ ramFree' = ramFree + bytes /\ bought' = bought + bytes
      /\ code' = code /\ keys' = keys /\ eosioCode' = eosioCode
  BY DEF StepRam
<1>3. ramFree \in Nat /\ bought \in Nat
  BY DEF DeployTypeOK
<1>4. bytes = IF ramFree > Needed THEN 0 ELSE (Needed - ramFree) + Spare
  BY DEF BytesToBuy
<1> HIDE DEF bytes
<1>5. bytes \in Nat /\ ramFree + bytes >= Billed
  BY <1>3, <1>4, NeededIsEnough
<1>6. DeployTypeOK'
  <2>1. ramFree' \in Nat /\ bought' \in Nat
    BY <1>2, <1>3, <1>5
  <2>2. QED
    BY <1>1, <1>2, <2>1, StepOverFacts DEF DeployTypeOK
<1>7. AtFirstPending'
  BY <1>1, StepOverFacts DEF AtFirstPending
<1>8. RamIsSettled'
  BY <1>2, <1>5 DEF RamIsSettled
<1>9. ASSUME ~code PROVE OnePurchase'
  <2>1. PICK free \in InitialFree :
          /\ ramFree = free + bought
          /\ \/ bought = 0
             \/ free <= Needed /\ bought = (Needed - free) + Spare
    BY <1>9 DEF OnePurchase
  <2>2. free \in Nat
    BY NeededIsEnough
  <2>3. ramFree' = free + bought'
    BY <1>2, <1>3, <1>5, <2>1, <2>2
  <2>4. CASE bytes = 0
    BY <1>2, <1>3, <2>1, <2>2, <2>3, <2>4 DEF OnePurchase, Needed
  <2>5. CASE bytes # 0
    <3>1. bought = 0
      BY <1>3, <1>4, <2>1, <2>2, <2>5, NeededIsEnough
    <3>2. free <= Needed /\ bought' = (Needed - free) + Spare
      BY <1>2, <1>4, <2>1, <2>2, <2>5, <3>1, NeededIsEnough
    <3>3. Needed' = Needed
      BY DEF Needed
    <3>4. QED
      BY <2>3, <3>2, <3>3 DEF OnePurchase
  <2>6. QED
    BY <2>4, <2>5
<1>10. ASSUME code PROVE OnePurchase'
  BY <1>2, <1>10 DEF OnePurchase
<1>11. RefillInv'
  <2>1. Needed' = Needed
    BY DEF Needed
  <2>2. bytes = 0 \/ ramFree' <= Needed + Spare
    BY <1>2, <1>3, <1>4, NeededIsEnough
  <2>3. OneLevel'
    BY <1>2, <1>3, <2>1, <2>2 DEF RefillInv, OneLevel
  <2>4. ASSUME code PROVE \E free \in InitialFree : ramFree' = (free + bought') - Billed
    <3>1. PICK free \in InitialFree : ramFree = (free + bought) - Billed
      BY <2>4 DEF RefillInv, BooksBalance
    <3>2. free \in Nat
      BY NeededIsEnough
    <3>3. ramFree' = (free + bought') - Billed
      BY <1>2, <1>3, <1>5, <3>1, <3>2, NeededIsEnough
    <3>4. QED
      BY <3>3
  <2>5. QED
    BY <1>2, <2>3, <2>4 DEF RefillInv, BooksBalance
<1>12. QED
  BY <1>6, <1>7, <1>8, <1>9, <1>10, <1>11

LEMMA StepCodePreserves == DeployInv /\ StepCode => DeployInv'
<1> SUFFICES ASSUME DeployInv, StepCode PROVE DeployInv'
  OBVIOUS
<1> USE DEF DeployInv
<1>1. StepOver /\ code' = TRUE
  BY DEF StepCode
<1>2. /\ ramFree' \in Nat
      /\ keys' = keys /\ eosioCode' = eosioCode /\ bought' = bought
  BY NeededIsEnough DEF StepCode, DeployTypeOK
<1>3. DeployTypeOK'
  BY <1>1, <1>2, StepOverFacts DEF DeployTypeOK
<1>4. AtFirstPending' /\ RamIsSettled' /\ OnePurchase'
  BY <1>1, StepOverFacts DEF AtFirstPending, RamIsSettled, OnePurchase
<1>5. RefillInv'
  <2> DEFINE bill == IF code THEN 0 ELSE Billed
  <2>1. /\ ramFree' = ramFree - bill /\ bought' = bought /\ code' = TRUE
        /\ ramFree \in Nat /\ bought \in Nat
    BY DEF StepCode, DeployTypeOK
  <2>2. OneLevel'
    <3>1. ramFree' <= ramFree
      BY <2>1, NeededIsEnough
    <3>2. QED
      BY <1>2, <2>1, <3>1, NeededIsEnough DEF RefillInv, OneLevel, Needed
  <2>3. \E free \in InitialFree : ramFree' = (free + bought') - Billed
    <3>1. CASE code
      BY <2>1, <3>1 DEF RefillInv, BooksBalance
    <3>2. CASE ~code
      <4>1. PICK free \in InitialFree : ramFree = free + bought
        BY <3>2 DEF OnePurchase
      <4>2. ramFree' = (free + bought') - Billed
        BY <2>1, <3>2, <4>1
      <4>3. QED
        BY <4>2
    <3>3. QED
      BY <3>1, <3>2
  <2>4. QED
    BY <2>2, <2>3 DEF RefillInv, BooksBalance
<1>6. QED
  BY <1>3, <1>4, <1>5

LEMMA RotateKeyPreserves ==
  ASSUME DeployInv, NEW k \in {"old", "new"}, RotateKey(k)
  PROVE  DeployInv'
<1> USE DEF DeployInv, RotateKey, optionVars
<1>1. DeployTypeOK'
  <2>1. rotations' \in 0 .. MaxRotations
    BY DeployAssumption DEF DeployTypeOK
  <2>2. QED
    BY <2>1 DEF DeployTypeOK
<1>2. AtFirstPending' /\ RamIsSettled' /\ OnePurchase' /\ RefillInv'
  BY RefillKeeps DEF AtFirstPending, RamIsSettled, OnePurchase
<1>3. QED
  BY <1>1, <1>2

LEMMA DeployInvInductive == DeployInv /\ [DeployNext]_deployVars => DeployInv'
<1>1. DeployInv /\ UNCHANGED deployVars => DeployInv'
  BY RefillKeeps DEF DeployInv, DeployTypeOK, AtFirstPending, RamIsSettled, OnePurchase,
         deployVars, accountVars, optionVars
<1>2. DeployInv /\ DeployNext => DeployInv'
  BY RunControlPreserves, StepAuthPreserves, StepRamPreserves, StepCodePreserves,
     RotateKeyPreserves
     DEF DeployNext
<1>3. QED
  BY <1>1, <1>2

\* Every variable stays in its range, the RAM never below zero: what setcode
\* bills is there when it is billed (deploy.mjs, stepRam and stepCode).
THEOREM DeployTypeCorrect == DeploySpec => []DeployTypeOK
<1>1. DeployInv => DeployTypeOK
  BY DEF DeployInv
<1>2. QED
  BY InitEstablishes, DeployInvInductive, <1>1, PTL DEF DeploySpec

\* A full run that gets to setcode has the RAM for it, after any sequence of
\* failed runs, lost answers, partial runs and key rotations.
THEOREM CodeAlwaysFindsItsRam == DeploySpec => []CodeFindsItsRam
<1>1. DeployInv => CodeFindsItsRam
  BY FirstOfFacts
     DEF DeployInv, DeployTypeOK, AtFirstPending, RamIsSettled, CodeFindsItsRam, Steps
<1>2. QED
  BY InitEstablishes, DeployInvInductive, <1>1, PTL DEF DeploySpec

\* Until the contract is in place, all runs together have bought at most one
\* shortfall and its spare.
THEOREM RamIsNotBoughtTwice == DeploySpec => []RamIsBoughtOnce
<1>1. DeployInv => RamIsBoughtOnce
  <2> SUFFICES ASSUME DeployInv, ~code
               PROVE  \E free \in InitialFree :
                        /\ bought <= IF free > Needed THEN 0 ELSE (Needed - free) + Spare
                        /\ ramFree = free + bought
    BY DEF RamIsBoughtOnce
  <2>1. PICK free \in InitialFree :
          /\ ramFree = free + bought
          /\ \/ bought = 0
             \/ free <= Needed /\ bought = (Needed - free) + Spare
    BY DEF DeployInv, OnePurchase
  <2>2. free \in Nat /\ bought \in Nat
    BY NeededIsEnough DEF DeployInv, DeployTypeOK
  <2>3. bought <= IF free > Needed THEN 0 ELSE (Needed - free) + Spare
    BY <2>1, <2>2, NeededIsEnough
  <2>4. QED
    BY <2>1, <2>3
<1>2. QED
  BY InitEstablishes, DeployInvInductive, <1>1, PTL DEF DeploySpec

\* From the contract on, all later runs together buy back what setcode billed,
\* and no more than once.
THEOREM RamIsRefilledAtMostOnce == DeploySpec => []RamIsRefilledOnce
<1>1. DeployInv => RamIsRefilledOnce
  <2> SUFFICES ASSUME DeployInv, code
               PROVE  \E free \in InitialFree :
                        /\ ramFree = (free + bought) - Billed
                        /\ bought <= Billed + (IF free > Needed + Spare THEN 0
                                               ELSE (Needed + Spare) - free)
    BY DEF RamIsRefilledOnce
  <2>1. PICK free \in InitialFree : ramFree = (free + bought) - Billed
    BY DEF DeployInv, RefillInv, BooksBalance
  <2>2. free \in Nat /\ bought \in Nat /\ ramFree \in Nat
    BY NeededIsEnough DEF DeployInv, DeployTypeOK
  <2>3. bought = 0 \/ ramFree <= Needed + Spare
    BY DEF DeployInv, RefillInv, OneLevel
  <2>4. bought <= Billed + (IF free > Needed + Spare THEN 0 ELSE (Needed + Spare) - free)
    BY <2>1, <2>2, <2>3, NeededIsEnough
  <2>5. QED
    BY <2>1, <2>4
<1>2. QED
  BY InitEstablishes, DeployInvInductive, <1>1, PTL DEF DeploySpec
=============================================================================

------------------------ MODULE SolvencyLayerProofs -------------------------
(***************************************************************************)
(* Theorems about ReserveGuard and SolvencyLayer, for every set of         *)
(* outpoints, tokens, windows and values.  Of the guard: the integrity of  *)
(* its registry, that it implements a set, and what its loop adds up.  Of  *)
(* the composition: guard and fact feed each behave in it as they do by    *)
(* themselves, and no guarded supply outgrows the fresh reserve.           *)
(***************************************************************************)
EXTENDS SolvencyLayer, FiniteSums

-----------------------------------------------------------------------------
(* The guard by itself.                                                    *)

\* Typing alone is not inductive: a removal indexes the array at the slot it
\* reads, so the slot must be known to point into the array.
GuardInv == GuardTypeOK /\ SlotsMirrorArray

\* Moving the last element into place i and popping leaves a sequence of
\* outpoints that is one shorter and differs in place i only.
LEMMA SwapAndPopFacts ==
  ASSUME reserves \in Seq(Outpoints), NEW i \in 1 .. Len(reserves)
  PROVE  /\ SwapAndPop(i) \in Seq(Outpoints)
         /\ Len(SwapAndPop(i)) = Len(reserves) - 1
         /\ \A j \in 1 .. Len(reserves) - 1 :
              SwapAndPop(i)[j] = IF j = i THEN reserves[Len(reserves)]
                                          ELSE reserves[j]
<1> DEFINE last == Len(reserves)
<1>1. last \in Nat /\ last >= 1 /\ last - 1 \in Nat
  OBVIOUS
<1>2. \A j \in 1 .. last : reserves[j] \in Outpoints
  OBVIOUS
<1>3. SwapAndPop(i) \in [1 .. last - 1 -> Outpoints]
  BY <1>1, <1>2 DEF SwapAndPop
<1>4. SwapAndPop(i) \in Seq(Outpoints) /\ Len(SwapAndPop(i)) = last - 1
  BY <1>1, <1>3
<1>5. QED
  BY <1>1, <1>4 DEF SwapAndPop

\* Declaring keeps the array and the slots in step.
LEMMA DeclarePreserves ==
  ASSUME GuardInv, NEW o \in Outpoints, DeclareReserve(o)
  PROVE  GuardInv' /\ Declared' = Declared \cup {o} /\ o \notin Declared
<1> USE DEF GuardInv, GuardTypeOK, DeclareReserve
<1> DEFINE n == Len(reserves)
<1>1. /\ reserves' \in Seq(Outpoints)
      /\ Len(reserves') = n + 1
      /\ \A i \in 1 .. n : reserves'[i] = reserves[i]
      /\ reserves'[n + 1] = o
  OBVIOUS
<1>2. o \notin Declared
  BY DEF SlotsMirrorArray, Declared
<1>3. \A p \in Outpoints : slotPlusOne'[p] = IF p = o THEN n + 1 ELSE slotPlusOne[p]
  OBVIOUS
<1>4. GuardTypeOK'
  BY <1>1
<1>5. SlotsMirrorArray'
  <2>1. \A p \in Outpoints : slotPlusOne'[p] # 0 =>
          slotPlusOne'[p] \in 1 .. Len(reserves') /\ reserves'[slotPlusOne'[p]] = p
    BY <1>1, <1>3 DEF SlotsMirrorArray
  <2>2. \A i \in 1 .. Len(reserves') : slotPlusOne'[reserves'[i]] = i
    <3> TAKE i \in 1 .. Len(reserves')
    <3>1. CASE i = n + 1
      BY <1>1, <1>3, <3>1
    <3>2. CASE i \in 1 .. n
      BY <1>1, <1>2, <1>3, <3>2 DEF SlotsMirrorArray, Declared
    <3>3. QED
      BY <1>1, <3>1, <3>2
  <2>3. QED
    BY <2>1, <2>2 DEF SlotsMirrorArray
<1>6. Declared' = Declared \cup {o}
  BY <1>1 DEF Declared
<1>7. QED
  BY <1>2, <1>4, <1>5, <1>6

\* Removing keeps the array and the slots in step, whichever slot is freed.
LEMMA RemovePreserves ==
  ASSUME GuardInv, NEW o \in Outpoints, RemoveReserve(o)
  PROVE  GuardInv' /\ Declared' = Declared \ {o} /\ o \in Declared
<1> DEFINE n == Len(reserves)
           i == slotPlusOne[o]
           moved == reserves[n]
<1>1. i \in 1 .. n /\ reserves[i] = o /\ n \in Nat /\ n >= 1
  BY DEF GuardInv, GuardTypeOK, SlotsMirrorArray, RemoveReserve
<1>2. \A j \in 1 .. n : reserves[j] \in Outpoints /\ slotPlusOne[reserves[j]] = j
  BY DEF GuardInv, GuardTypeOK, SlotsMirrorArray
<1>3. /\ reserves' \in Seq(Outpoints)
      /\ 1 .. Len(reserves') = 1 .. (n - 1)
      /\ \A j \in 1 .. (n - 1) : reserves'[j] = IF j = i THEN moved ELSE reserves[j]
  BY <1>1, SwapAndPopFacts DEF GuardInv, GuardTypeOK, RemoveReserve
<1>4. moved \in Outpoints /\ slotPlusOne[moved] = n
  BY <1>1, <1>2
<1>5. \A p \in Outpoints :
        slotPlusOne'[p] = IF p = o THEN 0 ELSE IF p = moved THEN i ELSE slotPlusOne[p]
  BY <1>4 DEF RemoveReserve, GuardInv, GuardTypeOK
<1>6. GuardTypeOK'
  BY <1>1, <1>3, <1>4 DEF RemoveReserve, GuardInv, GuardTypeOK
<1>7. \A p \in Outpoints : slotPlusOne[p] # 0 =>
        slotPlusOne[p] \in 1 .. n /\ reserves[slotPlusOne[p]] = p
  BY DEF GuardInv, SlotsMirrorArray
<1> HIDE DEF n, i, moved
<1>8. ASSUME NEW p \in Outpoints, slotPlusOne'[p] # 0
      PROVE  slotPlusOne'[p] \in 1 .. (n - 1) /\ reserves'[slotPlusOne'[p]] = p
  <2>1. p # o
    BY <1>5, <1>8
  <2>2. CASE p = moved
    <3>1. slotPlusOne'[p] = i /\ i # n
      BY <1>1, <1>4, <1>5, <2>1, <2>2 DEF i, moved
    <3>2. i \in 1 .. (n - 1)
      BY <1>1, <3>1
    <3>3. QED
      BY <1>3, <2>2, <3>1, <3>2
  <2>3. CASE p # moved
    <3>1. slotPlusOne'[p] = slotPlusOne[p]
      BY <1>5, <2>1, <2>3
    <3>2. slotPlusOne[p] \in 1 .. n /\ reserves[slotPlusOne[p]] = p
      BY <1>7, <1>8, <3>1
    <3>3. slotPlusOne[p] # n /\ slotPlusOne[p] # i
      BY <1>1, <2>1, <2>3, <3>2 DEF moved
    <3>4. slotPlusOne[p] \in 1 .. (n - 1)
      BY <1>1, <3>2, <3>3
    <3>5. QED
      BY <1>3, <3>1, <3>2, <3>3, <3>4
  <2>4. QED
    BY <2>2, <2>3
<1>9. ASSUME NEW j \in 1 .. (n - 1)
      PROVE  slotPlusOne'[reserves'[j]] = j /\ reserves'[j] # o
  <2>1. j \in 1 .. n /\ j # n
    BY <1>1
  <2>2. CASE j = i
    <3>1. reserves'[j] = moved /\ moved # o
      BY <1>3, <1>4, <2>1, <2>2 DEF i
    <3>2. QED
      BY <1>4, <1>5, <2>2, <3>1
  <2>3. CASE j # i
    <3>1. reserves'[j] = reserves[j] /\ reserves[j] # o /\ reserves[j] # moved
      BY <1>2, <1>3, <1>4, <2>1, <2>3 DEF i
    <3>2. QED
      BY <1>2, <1>5, <2>1, <3>1
  <2>4. QED
    BY <2>2, <2>3
<1>10. SlotsMirrorArray'
  BY <1>3, <1>8, <1>9 DEF SlotsMirrorArray
<1>11. Declared = {reserves[j] : j \in 1 .. n}
  BY DEF Declared, n
<1>12. Declared' = {reserves'[j] : j \in 1 .. (n - 1)}
  BY <1>3 DEF Declared
<1>13. o \in Declared
  BY <1>1, <1>11
<1>14. ASSUME NEW p \in Declared' PROVE p \in Declared \ {o}
  <2>1. PICK j \in 1 .. (n - 1) : p = reserves'[j]
    BY <1>12, <1>14
  <2>2. p # o
    BY <1>9, <2>1
  <2>3. \E k \in 1 .. n : p = reserves[k]
    BY <1>1, <1>3, <2>1 DEF moved
  <2>4. QED
    BY <1>11, <2>2, <2>3
<1>15. ASSUME NEW p \in Declared \ {o} PROVE p \in Declared'
  <2>1. PICK j \in 1 .. n : p = reserves[j]
    BY <1>11, <1>15
  <2>2. j # i
    BY <1>1, <1>15, <2>1
  <2>3. CASE j = n
    <3>1. i \in 1 .. (n - 1)
      BY <1>1, <2>2, <2>3
    <3>2. reserves'[i] = p
      BY <1>3, <2>1, <2>3, <3>1 DEF moved
    <3>3. QED
      BY <1>12, <3>1, <3>2
  <2>4. CASE j # n
    <3>1. j \in 1 .. (n - 1)
      BY <1>1, <2>1, <2>4
    <3>2. QED
      BY <1>3, <1>12, <2>1, <2>2, <3>1
  <2>5. QED
    BY <2>3, <2>4
<1>16. QED
  BY <1>6, <1>10, <1>13, <1>14, <1>15 DEF GuardInv

\* Setting the token, the window, or nothing at all leaves the registry alone.
LEMMA OthersPreserve ==
  ASSUME GuardInv,
         \/ \E t \in Tokens : SetToken(t)
         \/ \E w \in Windows : SetMaxFactAge(w)
         \/ UNCHANGED guardVars
  PROVE  GuardInv' /\ Declared' = Declared
BY DEF GuardInv, GuardTypeOK, SlotsMirrorArray, Declared,
       SetToken, SetMaxFactAge, guardVars

LEMMA GuardInvInductive ==
  /\ GuardInit => GuardInv
  /\ GuardInv /\ [GuardNext]_guardVars => GuardInv'
<1>1. GuardInit => GuardInv
  BY DEF GuardInit, GuardInv, GuardTypeOK, SlotsMirrorArray
<1>2. GuardInv /\ [GuardNext]_guardVars => GuardInv'
  BY DeclarePreserves, RemovePreserves, OthersPreserve DEF GuardNext
<1>3. QED
  BY <1>1, <1>2

\* Every variable of the guard stays in its range: in particular a removal
\* leaves an array of outpoints, with no hole where one was taken out
\* (ReserveGuard.sol, removeReserve).
THEOREM GuardTypeCorrect == GuardSpec => []GuardTypeOK
<1>1. GuardInv => GuardTypeOK
  BY DEF GuardInv
<1>2. QED
  BY GuardInvInductive, <1>1, PTL DEF GuardSpec

\* Through any sequence of declareReserve and removeReserve calls, the array
\* and the slot map describe the same outpoints, each of them once.
THEOREM RegistryIntegrity == GuardSpec => []SlotsMirrorArray
<1>1. GuardInv => SlotsMirrorArray
  BY DEF GuardInv
<1>2. QED
  BY GuardInvInductive, <1>1, PTL DEF GuardSpec

\* In a state of the contract both views are the same set of outpoints, and
\* so they are in the next one.
LEMMA ViewsAgree ==
  /\ GuardInv => HasSlot = Declared
  /\ GuardInv' => HasSlot' = Declared'
BY DEF GuardInv, GuardTypeOK, SlotsMirrorArray, HasSlot, Declared

\* The contract's registry implements the set of declared outpoints: a call
\* adds or removes exactly the outpoint it names, in the slots and in the
\* array, and reverts otherwise.
THEOREM RegistryImplementsSet == GuardSpec => ImplementsReserveSet
<1>1. GuardInit => Registry!Init
  BY DEF GuardInit, Registry!Init, Declared, HasSlot
<1>2. GuardInv /\ [GuardNext]_guardVars => [Registry!Next]_(Registry!vars)
  <2> SUFFICES ASSUME GuardInv, [GuardNext]_guardVars
               PROVE  [Registry!Next]_(Registry!vars)
    OBVIOUS
  <2>1. HasSlot = Declared
    BY ViewsAgree
  <2>2. HasSlot' = Declared'
    BY GuardInvInductive, ViewsAgree
  <2>3. ASSUME NEW o \in Outpoints, DeclareReserve(o) PROVE Registry!Next
    BY <2>1, <2>2, <2>3, DeclarePreserves DEF Registry!Next, Registry!Declare
  <2>4. ASSUME NEW o \in Outpoints, RemoveReserve(o) PROVE Registry!Next
    BY <2>1, <2>2, <2>4, RemovePreserves DEF Registry!Next, Registry!Remove
  <2>5. ASSUME Declared' = Declared PROVE UNCHANGED (Registry!vars)
    BY <2>1, <2>2, <2>5 DEF Registry!vars
  <2>6. QED
    BY <2>3, <2>4, <2>5, OthersPreserve DEF GuardNext
<1>3. QED
  BY GuardInvInductive, <1>1, <1>2, PTL
     DEF GuardSpec, ImplementsReserveSet, Registry!Spec

-----------------------------------------------------------------------------
(* The loop of provenReserves.                                             *)

OneMore(acc, fact, ts) ==
  IF Counts(fact, ts)
    THEN [acc EXCEPT !.totalSats = @ + fact.value, !.counted = @ + 1]
    ELSE [acc EXCEPT !.stale = @ + 1]

ReserveStep(answers, ts, g) ==
  [i \in 0 .. Len(reserves) |->
     IF i = 0
       THEN [totalSats |-> 0, counted |-> 0, stale |-> 0]
       ELSE OneMore(g[i - 1], answers[reserves[i]], ts)]

ReserveLoop(answers, ts) == CHOOSE g : g = ReserveStep(answers, ts, g)

LEMMA LoopUnfolds ==
  \A answers, ts : ProvenReserves(answers, ts) = ReserveLoop(answers, ts)[Len(reserves)]
BY DEF ProvenReserves, ReserveStep, ReserveLoop, OneMore

\* What the loop has found after i elements, said of sets of outpoints.
Prefix(i) == {reserves[j] : j \in 1 .. i}

ValueIn(answers) == [o \in Outpoints |-> answers[o].value]

Figures(answers, ts, D) ==
  [totalSats |-> SumFunctionOnSet(ValueIn(answers), {o \in D : Counts(answers[o], ts)}),
   counted   |-> Cardinality({o \in D : Counts(answers[o], ts)}),
   stale     |-> Cardinality({o \in D : ~Counts(answers[o], ts)})]

\* One more outpoint, not yet among those looked at, is one more in the sum.
LEMMA FiguresAdd ==
  ASSUME NEW answers, \A o \in Outpoints : answers[o].value \in Nat, NEW ts,
         NEW D \in SUBSET Outpoints, IsFiniteSet(D), NEW o \in Outpoints, o \notin D
  PROVE  Figures(answers, ts, D \cup {o})
           = OneMore(Figures(answers, ts, D), answers[o], ts)
<1> DEFINE yes == {p \in D : Counts(answers[p], ts)}
           no == {p \in D : ~Counts(answers[p], ts)}
           val == ValueIn(answers)
<1>1. IsFiniteSet(yes) /\ IsFiniteSet(no) /\ o \notin yes /\ o \notin no
  BY FS_Subset
<1>2. Cardinality(yes \cup {o}) = Cardinality(yes) + 1
  BY <1>1, FS_AddElement
<1>3. Cardinality(no \cup {o}) = Cardinality(no) + 1
  BY <1>1, FS_AddElement
<1>4. \A p \in yes \cup {o} : val[p] \in Nat
  BY DEF ValueIn
<1>5. val[o] = answers[o].value
  BY DEF ValueIn
<1>6. SumFunctionOnSet(val, yes \cup {o}) = SumFunctionOnSet(val, yes) + answers[o].value
  <2>1. \A p \in yes : val[p] \in Nat
    BY <1>4
  <2> HIDE DEF yes, val
  <2>2. SumFunctionOnSet(val, yes \cup {o}) = val[o] + SumFunctionOnSet(val, yes)
    BY <1>1, <1>4, SumAdd
  <2>3. val[o] \in Nat /\ SumFunctionOnSet(val, yes) \in Nat
    BY <1>1, <1>4, <2>1, SumType
  <2>4. QED
    BY <1>5, <2>2, <2>3
<1>7. /\ Figures(answers, ts, D).totalSats = SumFunctionOnSet(val, yes)
      /\ Figures(answers, ts, D).counted = Cardinality(yes)
      /\ Figures(answers, ts, D).stale = Cardinality(no)
  BY DEF Figures
<1>8. CASE Counts(answers[o], ts)
  <2>1. /\ {p \in D \cup {o} : Counts(answers[p], ts)} = yes \cup {o}
        /\ {p \in D \cup {o} : ~Counts(answers[p], ts)} = no
    BY <1>8
  <2>2. Figures(answers, ts, D \cup {o})
          = [totalSats |-> SumFunctionOnSet(val, yes \cup {o}),
             counted |-> Cardinality(yes \cup {o}), stale |-> Cardinality(no)]
    BY <2>1 DEF Figures
  <2> HIDE DEF yes, no, val
  <2>3. Figures(answers, ts, D \cup {o})
          = [totalSats |-> SumFunctionOnSet(val, yes) + answers[o].value,
             counted |-> Cardinality(yes) + 1, stale |-> Cardinality(no)]
    BY <1>2, <1>6, <2>2, Zenon
  <2>4. QED
    BY <1>7, <1>8, <2>3 DEF Figures, OneMore
<1>9. CASE ~Counts(answers[o], ts)
  <2>1. /\ {p \in D \cup {o} : Counts(answers[p], ts)} = yes
        /\ {p \in D \cup {o} : ~Counts(answers[p], ts)} = no \cup {o}
    BY <1>9
  <2>2. Figures(answers, ts, D \cup {o})
          = [totalSats |-> SumFunctionOnSet(val, yes),
             counted |-> Cardinality(yes), stale |-> Cardinality(no \cup {o})]
    BY <2>1 DEF Figures
  <2> HIDE DEF yes, no, val
  <2>3. QED
    BY <1>3, <1>7, <1>9, <2>2 DEF Figures, OneMore
<1>10. QED
  BY <1>8, <1>9

LEMMA FiguresEmpty ==
  \A answers, ts : Figures(answers, ts, {}) = [totalSats |-> 0, counted |-> 0, stale |-> 0]
<1>1. ASSUME NEW answers, NEW ts
      PROVE  Figures(answers, ts, {}) = [totalSats |-> 0, counted |-> 0, stale |-> 0]
  <2>1. /\ {o \in {} : Counts(answers[o], ts)} = {}
        /\ {o \in {} : ~Counts(answers[o], ts)} = {}
    OBVIOUS
  <2>2. QED
    BY <2>1, SumEmpty, FS_EmptySet DEF Figures
<1>2. QED
  BY <1>1

\* The array holds each outpoint once, so the next element is a new one.
LEMMA PrefixGrows ==
  ASSUME GuardInv, NEW i \in 1 .. Len(reserves)
  PROVE  /\ Prefix(i) = Prefix(i - 1) \cup {reserves[i]}
         /\ reserves[i] \in Outpoints /\ reserves[i] \notin Prefix(i - 1)
         /\ Prefix(i - 1) \in SUBSET Outpoints /\ IsFiniteSet(Prefix(i - 1))
<1>1. /\ \A j \in 1 .. Len(reserves) : reserves[j] \in Outpoints /\ slotPlusOne[reserves[j]] = j
      /\ Len(reserves) \in Nat
  BY DEF GuardInv, GuardTypeOK, SlotsMirrorArray
<1>2. 1 .. i = (1 .. i - 1) \cup {i} /\ i \notin 1 .. i - 1 /\ 1 .. i \subseteq 1 .. Len(reserves)
  BY <1>1
<1>3. Prefix(i) = Prefix(i - 1) \cup {reserves[i]}
  BY <1>2 DEF Prefix
<1>4. reserves[i] \notin Prefix(i - 1)
  BY <1>1, <1>2 DEF Prefix
<1>5. IsFiniteSet(1 .. i - 1)
  BY <1>1, FS_Interval
<1>6. IsFiniteSet(Prefix(i - 1))
  BY <1>5, FiniteImage DEF Prefix
<1>7. QED
  BY <1>1, <1>2, <1>3, <1>4, <1>6 DEF Prefix

\* provenReserves counts each declared outpoint once: the loop over the array
\* adds up the values of those that count, and numbers them and the others.
THEOREM LoopSumsDeclared ==
  ASSUME GuardInv, NEW answers, \A o \in Outpoints : answers[o].value \in Nat, NEW ts
  PROVE  ProvenReserves(answers, ts) = Figures(answers, ts, Declared) /\ IsFiniteSet(Declared)
<1> DEFINE n == Len(reserves)
           fig == [i \in 0 .. n |-> Figures(answers, ts, Prefix(i))]
           run == ReserveLoop(answers, ts)
<1>1. n \in Nat
  BY DEF GuardInv, GuardTypeOK
<1>2. Prefix(0) = {} /\ Prefix(n) = Declared
  BY <1>1 DEF Prefix, Declared
<1>3. Figures(answers, ts, Prefix(0)) = [totalSats |-> 0, counted |-> 0, stale |-> 0]
  BY <1>2, FiguresEmpty
<1>4. ASSUME NEW i \in 1 .. n
      PROVE  Figures(answers, ts, Prefix(i))
               = OneMore(Figures(answers, ts, Prefix(i - 1)), answers[reserves[i]], ts)
  <2> DEFINE D == Prefix(i - 1)
             o == reserves[i]
  <2>1. /\ Prefix(i) = D \cup {o} /\ o \in Outpoints /\ o \notin D
        /\ D \in SUBSET Outpoints /\ IsFiniteSet(D)
    BY PrefixGrows
  <2> HIDE DEF D, o
  <2>2. Figures(answers, ts, D \cup {o}) = OneMore(Figures(answers, ts, D), answers[o], ts)
    BY <2>1, FiguresAdd
  <2>3. QED
    BY <2>1, <2>2, Zenon DEF D, o
<1>5. fig = ReserveStep(answers, ts, fig)
  <2>1. ASSUME NEW i \in 0 .. n PROVE fig[i] = ReserveStep(answers, ts, fig)[i]
    <3>1. CASE i = 0
      BY <1>3, <3>1 DEF ReserveStep
    <3>2. CASE i # 0
      <4>1. i \in 1 .. n /\ i - 1 \in 0 .. n
        BY <1>1, <3>2
      <4>2. QED
        BY <1>4, <3>2, <4>1 DEF ReserveStep
    <3>3. QED
      BY <3>1, <3>2
  <2>2. QED
    BY <2>1 DEF ReserveStep
<1> HIDE DEF fig
<1>6. run = ReserveStep(answers, ts, run)
  BY <1>5 DEF ReserveLoop
<1> DEFINE I == {i \in Nat : i <= n => run[i] = Figures(answers, ts, Prefix(i))}
<1> HIDE DEF run
<1>7. 0 \in I
  <2>1. run[0] = [totalSats |-> 0, counted |-> 0, stale |-> 0]
    BY <1>1, <1>6 DEF ReserveStep
  <2>2. run[0] = Figures(answers, ts, Prefix(0))
    BY <1>3, <2>1
  <2>3. QED
    BY <2>2
<1>8. ASSUME NEW i \in I PROVE i + 1 \in I
  <2> SUFFICES ASSUME i + 1 <= n PROVE run[i + 1] = Figures(answers, ts, Prefix(i + 1))
    OBVIOUS
  <2> DEFINE k == i + 1
  <2>1. k \in 1 .. n /\ k \in 0 .. n /\ k # 0 /\ k - 1 = i
    BY <1>1
  <2>2. run[k - 1] = Figures(answers, ts, Prefix(k - 1))
    BY <1>1, <2>1
  <2> HIDE DEF k
  <2>3. run[k] = OneMore(run[k - 1], answers[reserves[k]], ts)
    BY <1>6, <2>1 DEF ReserveStep
  <2>4. QED
    BY <1>4, <2>1, <2>2, <2>3 DEF k
<1>9. I = Nat
  <2>1. I \in SUBSET Nat
    OBVIOUS
  <2> HIDE DEF I
  <2>2. QED
    BY <1>7, <1>8, <2>1, NatSets
<1>10. run[n] = Figures(answers, ts, Declared)
  BY <1>1, <1>2, <1>9
<1>11. IsFiniteSet(1 .. n)
  BY <1>1, FS_Interval
<1>12. IsFiniteSet(Declared)
  BY <1>11, FiniteImage DEF Declared
<1>13. QED
  BY <1>10, <1>12, LoopUnfolds DEF run

-----------------------------------------------------------------------------
(* The composition.                                                        *)

\* A fact can only be typed when the readings it may repeat are.
FeedTypes ==
  /\ now \in 0 .. MaxTime
  /\ utxos \subseteq Outpoints
  /\ readings \subseteq Feed!Reading
  /\ facts \in [Outpoints -> Feed!Fact]

SupplyType == supply \in [Tokens -> 0 .. MaxUint]

\* Each step is one of the feed, one of the guard, or one of a token.
LEMMA StepIsOfOnePart ==
  ASSUME [SolvencyNext]_solvencyVars
  PROVE  \/ Feed!FeedNext /\ UNCHANGED <<guardVars, supply>>
         \/ GuardNext /\ UNCHANGED <<feedVars, supply>>
         \/ /\ UNCHANGED <<feedVars, guardVars>>
            /\ \/ \E t \in {GuardedWBTC, NaiveWBTC}, v \in 1 .. MaxUint :
                    AddSupply(t, v) \/ Burn(t, v)
               \/ UNCHANGED supply
BY DEF SolvencyNext, GuardedMint, NaiveMint, AddSupply, Burn, solvencyVars

LEMMA PartsStep ==
  ASSUME [SolvencyNext]_solvencyVars
  PROVE  [GuardNext]_guardVars /\ [Feed!FeedNext]_(Feed!feedVars)
<1>1. CASE Feed!FeedNext /\ UNCHANGED <<guardVars, supply>>
  BY <1>1
<1>2. CASE GuardNext /\ UNCHANGED <<feedVars, supply>>
  BY <1>2 DEF feedVars, Feed!feedVars
<1>3. CASE UNCHANGED <<feedVars, guardVars>>
  BY <1>3 DEF feedVars, Feed!feedVars
<1>4. QED
  BY <1>1, <1>2, <1>3, StepIsOfOnePart

\* A reading is of an outpoint at a height, and a fact repeats a reading.
LEMMA FeedTypesPreserved ==
  ASSUME FeedTypes, [Feed!FeedNext]_(Feed!feedVars)
  PROVE  FeedTypes'
<1> USE SolvencyAssumption DEF FeedTypes
<1>1. CASE Feed!Tick
  BY <1>1 DEF Feed!Tick
<1>2. ASSUME NEW o \in Outpoints, Feed!IndexChange(o) PROVE FeedTypes'
  BY <1>2 DEF Feed!IndexChange
<1>3. ASSUME NEW o \in Outpoints, NEW h \in 1 .. MaxHeight, Feed!Read(o, h)
      PROVE  FeedTypes'
  <2>1. [outpoint |-> o, height |-> h, readAt |-> now] \in Feed!Reading
    BY DEF Feed!Reading
  <2>2. QED
    BY <1>3, <2>1 DEF Feed!Read
<1>4. ASSUME NEW r \in readings, Feed!Record(r) PROVE FeedTypes'
  <2>1. r.outpoint \in Outpoints /\ r.height \in Nat
    BY DEF Feed!Reading
  <2>2. Sats[r.outpoint] \in Nat /\ now \in Nat
    BY <2>1
  <2>3. Feed!FactOf(r.outpoint, r.height, now) \in Feed!Fact
    BY <2>1, <2>2 DEF Feed!FactOf, Feed!Fact
  <2>4. facts' \in [Outpoints -> Feed!Fact]
    BY <1>4, <2>1, <2>3 DEF Feed!Record
  <2>5. QED
    BY <1>4, <2>4 DEF Feed!Record
<1>5. CASE UNCHANGED Feed!feedVars
  BY <1>5 DEF Feed!feedVars
<1>6. QED
  BY <1>1, <1>2, <1>3, <1>4, <1>5 DEF Feed!FeedNext

LEMMA SupplyTypePreserved ==
  ASSUME SupplyType, [SolvencyNext]_solvencyVars
  PROVE  SupplyType'
<1>1. ASSUME NEW t \in {GuardedWBTC, NaiveWBTC}, NEW v \in 1 .. MaxUint,
             AddSupply(t, v) \/ Burn(t, v)
      PROVE  SupplyType'
  <2>1. t \in Tokens /\ MaxUint \in Nat /\ supply[t] \in 0 .. MaxUint
    BY SolvencyAssumption DEF SupplyType
  <2>2. CASE AddSupply(t, v)
    <3>1. supply[t] + v \in 0 .. MaxUint
      BY <2>1, <2>2 DEF AddSupply
    <3>2. QED
      BY <2>1, <2>2, <3>1 DEF AddSupply, SupplyType
  <2>3. CASE Burn(t, v)
    <3>1. supply[t] - v \in 0 .. MaxUint
      BY <2>1, <2>3 DEF Burn
    <3>2. QED
      BY <2>1, <2>3, <3>1 DEF Burn, SupplyType
  <2>4. QED
    BY <1>1, <2>2, <2>3
<1>2. CASE UNCHANGED supply
  BY <1>2 DEF SupplyType
<1>3. QED
  BY <1>1, <1>2, StepIsOfOnePart

LEMMA SolvencyInitTypes == SolvencyInit => FeedTypes /\ SupplyType
<1>1. Feed!Unproven \in Feed!Fact
  BY DEF Feed!Unproven, Feed!Fact
<1>2. SolvencyInit => FeedTypes
  BY <1>1, SolvencyAssumption DEF SolvencyInit, Feed!FeedInit, FeedTypes
<1>3. SolvencyInit => SupplyType
  BY SolvencyAssumption DEF SolvencyInit, SupplyType
<1>4. QED
  BY <1>2, <1>3

-----------------------------------------------------------------------------

\* In the composition the guard goes through no state and takes no step that
\* it would not by itself: minting, burning and new facts leave it alone, and
\* whatever is proved of GuardSpec holds here.
THEOREM LayerRunsGuard == SolvencySpec => GuardSpec
<1>1. SolvencyInit => GuardInit
  BY DEF SolvencyInit
<1>2. [SolvencyNext]_solvencyVars => [GuardNext]_guardVars
  BY PartsStep
<1>3. QED
  BY <1>1, <1>2, PTL DEF SolvencySpec, GuardSpec

\* Neither do guard and tokens disturb the facts they are checked against.
THEOREM LayerRunsFeed == SolvencySpec => Feed!FeedSpec
<1>1. SolvencyInit => Feed!FeedInit
  BY DEF SolvencyInit
<1>2. [SolvencyNext]_solvencyVars => [Feed!FeedNext]_(Feed!feedVars)
  BY PartsStep
<1>3. QED
  BY <1>1, <1>2, PTL DEF SolvencySpec, Feed!FeedSpec

\* Every variable of the layer keeps its type; no mint overflows the supply
\* and no burn underflows it.
THEOREM SolvencyTypeCorrect == SolvencySpec => []SolvencyTypeOK
<1> DEFINE Inv == FeedTypes /\ SupplyType
<1>1. SolvencyInit => Inv
  BY SolvencyInitTypes
<1>2. Inv /\ [SolvencyNext]_solvencyVars => Inv'
  BY PartsStep, FeedTypesPreserved, SupplyTypePreserved
<1>3. GuardTypeOK /\ Inv => SolvencyTypeOK
  BY DEF FeedTypes, SupplyType, SolvencyTypeOK
<1>4. QED
  BY <1>1, <1>2, <1>3, LayerRunsGuard, GuardTypeCorrect, PTL DEF SolvencySpec

-----------------------------------------------------------------------------
(* What the guard sums over.                                               *)

\* A recorded fact gives Bitcoin's value and repeats some relayed reading.
RepeatReadings(f) ==
  \A o \in Outpoints : f[o].proven =>
    f[o].value = Sats[o] /\ \E r \in readings : r.outpoint = o

FactsAreReadings == RepeatReadings(facts)

Relayed == {r.outpoint : r \in readings}

\* Types and the registry's integrity say what is summed; that the facts are
\* readings says what it is worth; and that the readings are finitely many,
\* that they have a sum.
LayerInv ==
  /\ SolvencyTypeOK
  /\ SlotsMirrorArray
  /\ FactsAreReadings
  /\ IsFiniteSet(readings)

LEMMA FeedFactsPreserved ==
  ASSUME FeedTypes, FactsAreReadings, IsFiniteSet(readings), [Feed!FeedNext]_(Feed!feedVars)
  PROVE  /\ FactsAreReadings' /\ IsFiniteSet(readings')
         /\ readings \subseteq readings'
<1> USE DEF FactsAreReadings, RepeatReadings
<1>1. CASE Feed!Tick
  BY <1>1 DEF Feed!Tick
<1>2. ASSUME NEW o \in Outpoints, Feed!IndexChange(o)
      PROVE  FactsAreReadings' /\ IsFiniteSet(readings') /\ readings \subseteq readings'
  BY <1>2 DEF Feed!IndexChange
<1>3. ASSUME NEW o \in Outpoints, NEW h \in 1 .. MaxHeight, Feed!Read(o, h)
      PROVE  FactsAreReadings' /\ IsFiniteSet(readings') /\ readings \subseteq readings'
  <2> DEFINE new == [outpoint |-> o, height |-> h, readAt |-> now]
  <2>1. readings' = readings \cup {new} /\ facts' = facts
    BY <1>3 DEF Feed!Read
  <2> HIDE DEF new
  <2>2. QED
    BY <2>1, FS_AddElement
<1>4. ASSUME NEW r \in readings, Feed!Record(r)
      PROVE  FactsAreReadings' /\ IsFiniteSet(readings') /\ readings \subseteq readings'
  <2>1. /\ readings' = readings /\ r.outpoint \in Outpoints
        /\ facts' = [facts EXCEPT ![r.outpoint] = Feed!FactOf(r.outpoint, r.height, now)]
    BY <1>4 DEF Feed!Record, FeedTypes, Feed!Reading
  <2>2. Feed!FactOf(r.outpoint, r.height, now).value = Sats[r.outpoint]
    BY DEF Feed!FactOf
  <2>3. \A o \in Outpoints : facts'[o] = IF o = r.outpoint
                                          THEN Feed!FactOf(r.outpoint, r.height, now)
                                          ELSE facts[o]
    BY <2>1 DEF FeedTypes
  <2>4. QED
    BY <2>1, <2>2, <2>3
<1>5. CASE UNCHANGED Feed!feedVars
  BY <1>5 DEF Feed!feedVars
<1>6. QED
  BY <1>1, <1>2, <1>3, <1>4, <1>5 DEF Feed!FeedNext

LEMMA LayerInvInductive ==
  /\ SolvencyInit => LayerInv
  /\ LayerInv /\ [SolvencyNext]_solvencyVars => LayerInv' /\ readings \subseteq readings'
<1>1. SolvencyInit => LayerInv
  <2> SUFFICES ASSUME SolvencyInit PROVE LayerInv
    OBVIOUS
  <2>1. SolvencyTypeOK /\ SlotsMirrorArray
    BY SolvencyInitTypes, GuardInvInductive DEF SolvencyInit, GuardInv, SolvencyTypeOK, FeedTypes, SupplyType
  <2>2. FactsAreReadings /\ readings = {}
    BY DEF SolvencyInit, Feed!FeedInit, Feed!Unproven, FactsAreReadings, RepeatReadings
  <2>3. QED
    BY <2>1, <2>2, FS_EmptySet DEF LayerInv
<1>2. ASSUME LayerInv, [SolvencyNext]_solvencyVars
      PROVE  LayerInv' /\ readings \subseteq readings'
  <2>1. FeedTypes /\ SupplyType /\ GuardInv
    BY <1>2 DEF LayerInv, SolvencyTypeOK, FeedTypes, SupplyType, GuardInv
  <2>2. [GuardNext]_guardVars /\ [Feed!FeedNext]_(Feed!feedVars)
    BY <1>2, PartsStep
  <2>3. FeedTypes' /\ SupplyType' /\ GuardInv'
    BY <1>2, <2>1, <2>2, FeedTypesPreserved, SupplyTypePreserved, GuardInvInductive
  <2>4. FactsAreReadings' /\ IsFiniteSet(readings') /\ readings \subseteq readings'
    BY <1>2, <2>1, <2>2, FeedFactsPreserved DEF LayerInv
  <2>5. QED
    BY <2>3, <2>4 DEF LayerInv, SolvencyTypeOK, FeedTypes, SupplyType, GuardInv
<1>3. QED
  BY <1>1, <1>2

LEMMA SatsFacts ==
  ASSUME NEW S \in SUBSET Outpoints, IsFiniteSet(S), NEW T \in SUBSET S
  PROVE  /\ SatsOf(S) \in Nat /\ SatsOf(T) \in Nat
         /\ SatsOf(T) <= SatsOf(S)
<1>1. \A o \in S : Sats[o] \in Nat
  BY SolvencyAssumption
<1>2. IsFiniteSet(T)
  BY FS_Subset
<1>3. QED
  BY <1>1, <1>2, SumType, SumMonotone DEF SatsOf

\* The sum the guard compares a supply with is the value of the fresh reserve.
LoopSumsFresh ==
  /\ ProvenReserves(facts, now).totalSats = SatsOf(FreshReserve)
  /\ FreshReserve \subseteq Declared /\ Declared \subseteq Outpoints
  /\ IsFiniteSet(Declared)
  /\ SatsOf(FreshReserve) \in Nat

LEMMA ReserveIsFresh == LayerInv => LoopSumsFresh
<1> SUFFICES ASSUME LayerInv PROVE LoopSumsFresh
  OBVIOUS
<1>1. GuardInv /\ facts \in [Outpoints -> Feed!Fact] /\ now \in Nat /\ maxFactAge \in Nat
  BY GuardAssumption, SolvencyAssumption DEF LayerInv, SolvencyTypeOK, GuardInv, GuardTypeOK
<1>2. \A o \in Outpoints : facts[o].value \in Nat /\ facts[o].provenAt \in Nat
  BY <1>1 DEF Feed!Fact
<1>3. ProvenReserves(facts, now) = Figures(facts, now, Declared) /\ IsFiniteSet(Declared)
  BY <1>1, <1>2, LoopSumsDeclared
<1>4. Declared \subseteq Outpoints
  BY <1>1 DEF GuardInv, GuardTypeOK, Declared
<1>5. \A o \in Declared : Counts(facts[o], now) <=> o \in FreshReserve
  <2> TAKE o \in Declared
  <2>1. facts[o].provenAt \in Nat
    BY <1>2, <1>4
  <2>2. ~AgedOut(facts[o], now) <=> (maxFactAge = 0 \/ facts[o].provenAt + maxFactAge >= now)
    BY <1>1, <2>1 DEF AgedOut
  <2>3. QED
    BY <2>2 DEF Counts, FreshReserve
<1>6. FreshReserve \subseteq Declared
  BY DEF FreshReserve
<1>7. {o \in Declared : Counts(facts[o], now)} = FreshReserve
  BY <1>5, <1>6
<1>8. \A o \in FreshReserve : ValueIn(facts)[o] = Sats[o] /\ Sats[o] \in Nat
  BY <1>4, SolvencyAssumption DEF FreshReserve, LayerInv, FactsAreReadings, RepeatReadings,
                                     ValueIn
<1>9. IsFiniteSet(FreshReserve)
  BY <1>3, <1>6, FS_Subset
<1>10. SumFunctionOnSet(ValueIn(facts), FreshReserve) = SatsOf(FreshReserve)
  BY <1>8, <1>9, SumCongruent DEF SatsOf
<1>11. ProvenReserves(facts, now).totalSats = SatsOf(FreshReserve)
  BY <1>3, <1>7, <1>10 DEF Figures
<1>12. SatsOf(FreshReserve) \in Nat
  BY <1>3, <1>4, <1>6, SatsFacts
<1>13. QED
  BY <1>3, <1>4, <1>6, <1>11, <1>12 DEF LoopSumsFresh

-----------------------------------------------------------------------------

LEMMA RelayedFacts ==
  ASSUME NEW R \in SUBSET Feed!Reading, IsFiniteSet(R)
  PROVE  {r.outpoint : r \in R} \in SUBSET Outpoints /\ IsFiniteSet({r.outpoint : r \in R})
<1> DEFINE g == [r \in R |-> r.outpoint]
<1>1. {r.outpoint : r \in R} = {g[r] : r \in R}
  OBVIOUS
<1>2. IsFiniteSet({g[r] : r \in R})
  <2> HIDE DEF g
  <2>1. QED
    BY FiniteImage
<1>3. {r.outpoint : r \in R} \in SUBSET Outpoints
  BY DEF Feed!Reading
<1>4. QED
  BY <1>1, <1>2, <1>3

\* The reserve is worth no more than the outputs some relay has found.
LEMMA FreshIsRelayed ==
  ASSUME LayerInv
  PROVE  SatsOf(FreshReserve) <= SatsOf(Relayed) /\ SatsOf(Relayed) \in Nat
<1>1. Relayed \in SUBSET Outpoints /\ IsFiniteSet(Relayed)
  BY RelayedFacts DEF LayerInv, SolvencyTypeOK, Relayed
<1>2. FreshReserve \subseteq Relayed
  BY ReserveIsFresh 
     DEF LayerInv, LoopSumsFresh, FactsAreReadings, RepeatReadings, FreshReserve, Relayed
<1>3. QED
  BY <1>1, <1>2, SatsFacts

\* A guarded mint passes the guard: the new supply is within the reserve that
\* is fresh at that moment.
LEMMA MintFacts ==
  ASSUME LayerInv, [SolvencyNext]_solvencyVars, supply'[GuardedWBTC] > supply[GuardedWBTC]
  PROVE  /\ token # NoToken
         /\ token = GuardedWBTC => supply'[GuardedWBTC] <= SatsOf(FreshReserve)
         /\ UNCHANGED <<feedVars, guardVars>>
<1>1. /\ GuardedWBTC \in Tokens /\ NaiveWBTC \in Tokens /\ GuardedWBTC # NaiveWBTC
      /\ supply \in [Tokens -> Nat] /\ MaxUint \in Nat
  BY SolvencyAssumption DEF LayerInv, SolvencyTypeOK
<1>2. CASE UNCHANGED supply
  BY <1>1, <1>2
<1>3. ASSUME NEW t \in {GuardedWBTC, NaiveWBTC}, NEW v \in 1 .. MaxUint, Burn(t, v)
      PROVE  FALSE
  BY <1>1, <1>3 DEF Burn
<1>4. ASSUME NEW v \in 1 .. MaxUint, NaiveMint(v)
      PROVE  FALSE
  BY <1>1, <1>4 DEF NaiveMint, AddSupply
<1>5. ASSUME NEW v \in 1 .. MaxUint, GuardedMint(v)
      PROVE  /\ token # NoToken
             /\ token = GuardedWBTC => supply'[GuardedWBTC] <= SatsOf(FreshReserve)
             /\ UNCHANGED <<feedVars, guardVars>>
  <2>1. token # NoToken /\ supply[token] + v <= SatsOf(FreshReserve)
    BY <1>5, ReserveIsFresh DEF GuardedMint, CheckMint, LoopSumsFresh
  <2>2. supply'[GuardedWBTC] = supply[GuardedWBTC] + v
    BY <1>1, <1>5 DEF GuardedMint, AddSupply
  <2>3. QED
    BY <1>5, <2>1, <2>2 DEF GuardedMint, AddSupply
<1>6. QED
  BY <1>2, <1>3, <1>4, <1>5 DEF SolvencyNext, solvencyVars

LEMMA LayerAlways == SolvencySpec => []LayerInv
<1>1. LayerInv /\ [SolvencyNext]_solvencyVars => LayerInv'
  BY LayerInvInductive
<1>2. QED
  BY <1>1, LayerInvInductive, PTL DEF SolvencySpec

\* No mint of the guarded token passes that the distinct, proven and fresh
\* outpoints declared at that moment do not cover, and none passes an unwired
\* guard, whatever was declared, removed, proven and minted before.
THEOREM EveryMintIsCovered == SolvencySpec => MintsAreCovered
<1>1. LayerInv /\ [SolvencyNext]_solvencyVars =>
        [supply'[GuardedWBTC] > supply[GuardedWBTC] =>
           /\ token # NoToken
           /\ token = GuardedWBTC => supply'[GuardedWBTC] <= SatsOf(FreshReserve)]_solvencyVars
  BY MintFacts
<1>2. QED
  BY <1>1, LayerAlways, PTL DEF SolvencySpec, MintsAreCovered

LEMMA TokenIsSetOnce ==
  ASSUME [GuardNext]_guardVars
  PROVE  token' = token \/ (token = NoToken /\ token' \in Tokens)
<1>1. ASSUME NEW t \in Tokens, SetToken(t) PROVE token = NoToken /\ token' \in Tokens
  BY <1>1 DEF SetToken
<1>2. ASSUME NEW o \in Outpoints, DeclareReserve(o) \/ RemoveReserve(o) PROVE token' = token
  BY <1>2 DEF DeclareReserve, RemoveReserve
<1>3. QED
  BY <1>1, <1>2 DEF GuardNext, SetMaxFactAge, guardVars

LEMMA BackingStep ==
  ASSUME LayerInv, SupplyNeverOutrunsBitcoin, [SolvencyNext]_solvencyVars
  PROVE  SupplyNeverOutrunsBitcoin'
<1>1. /\ GuardedWBTC \in Tokens /\ NoToken \notin Tokens
      /\ supply[GuardedWBTC] \in Nat /\ supply'[GuardedWBTC] \in Nat
  BY LayerInvInductive, SolvencyAssumption, GuardAssumption DEF LayerInv, SolvencyTypeOK
<1>2. SatsOf(FreshReserve) <= SatsOf(Relayed) /\ SatsOf(Relayed) \in Nat
  BY FreshIsRelayed
<1>3. SatsOf(FreshReserve) \in Nat
  BY ReserveIsFresh DEF LoopSumsFresh
<1>4. SatsOf(Relayed') \in Nat /\ SatsOf(Relayed) <= SatsOf(Relayed')
  <2>1. /\ readings' \in SUBSET Feed!Reading /\ IsFiniteSet(readings')
        /\ readings \subseteq readings'
    BY LayerInvInductive DEF LayerInv, SolvencyTypeOK
  <2>2. Relayed' \in SUBSET Outpoints /\ IsFiniteSet(Relayed')
    BY <2>1, RelayedFacts DEF Relayed
  <2>3. Relayed \subseteq Relayed'
    BY <2>1 DEF Relayed
  <2>4. QED
    BY <2>2, <2>3, SatsFacts
<1>5. token' = token \/ (token = NoToken /\ token' \in Tokens)
  BY PartsStep, TokenIsSetOnce
<1>6. CASE supply'[GuardedWBTC] > supply[GuardedWBTC]
  <2>1. /\ token # NoToken /\ token' = token
        /\ token = GuardedWBTC => supply'[GuardedWBTC] <= SatsOf(FreshReserve)
    BY <1>6, MintFacts DEF guardVars
  <2>2. QED
    BY <1>1, <1>2, <1>3, <1>4, <2>1 DEF SupplyNeverOutrunsBitcoin, Relayed
<1>7. CASE supply'[GuardedWBTC] <= supply[GuardedWBTC]
  BY <1>1, <1>2, <1>4, <1>5, <1>7 DEF SupplyNeverOutrunsBitcoin, Relayed
<1>8. QED
  BY <1>1, <1>6, <1>7

\* While the guard watches the guarded token, its supply never exceeds the
\* value of the distinct Bitcoin outputs that relays have found, and before
\* the guard is wired there is no supply at all.
THEOREM SupplyAlwaysBacked == SolvencySpec => []SupplyNeverOutrunsBitcoin
<1>1. SolvencyInit => SupplyNeverOutrunsBitcoin
  BY SolvencyAssumption DEF SolvencyInit, GuardInit, SupplyNeverOutrunsBitcoin
<1>2. LayerInv /\ SupplyNeverOutrunsBitcoin /\ [SolvencyNext]_solvencyVars
        => SupplyNeverOutrunsBitcoin'
  BY BackingStep
<1>3. QED
  BY <1>1, <1>2, LayerAlways, PTL DEF SolvencySpec

-----------------------------------------------------------------------------

\* What is known of the reserve in a state is known of it in the next.
LEMMA ReserveIsFreshNext == LayerInv' => LoopSumsFresh'
BY ReserveIsFresh, PTL

\* While the clock, the window and what is declared allow it, no outpoint
\* leaves the fresh reserve.
LEMMA FreshStays ==
  ASSUME LayerInv, [SolvencyNext]_solvencyVars,
         ~(now' > now), Declared \subseteq Declared',
         ~(maxFactAge' # 0 /\ (maxFactAge = 0 \/ maxFactAge' < maxFactAge))
  PROVE  FreshReserve \subseteq FreshReserve'
<1>1. /\ now \in Nat /\ now' \in Nat
      /\ maxFactAge \in Nat /\ maxFactAge' \in Nat
      /\ facts \in [Outpoints -> Feed!Fact] /\ facts' \in [Outpoints -> Feed!Fact]
  <2>1. SolvencyTypeOK /\ SolvencyTypeOK'
    BY LayerInvInductive DEF LayerInv
  <2>2. \A n \in 0 .. MaxTime : n \in Nat
    BY SolvencyAssumption
  <2>3. QED
    BY <2>1, <2>2, GuardAssumption DEF SolvencyTypeOK, GuardTypeOK
<1>2. now' = now /\ (maxFactAge' = 0 \/ (maxFactAge # 0 /\ maxFactAge <= maxFactAge'))
  <2>1. now' = now \/ now' > now
    BY <1>1, PartsStep DEF Feed!FeedNext, Feed!Tick, Feed!IndexChange, Feed!Read, Feed!Record,
                           Feed!feedVars
  <2>2. QED
    BY <1>1, <2>1
<1>3. SUFFICES ASSUME NEW o \in FreshReserve PROVE o \in FreshReserve'
  OBVIOUS
<1>4. /\ o \in Declared' /\ o \in Outpoints /\ facts[o].proven
      /\ maxFactAge = 0 \/ facts[o].provenAt + maxFactAge >= now
  BY ReserveIsFresh DEF LoopSumsFresh, FreshReserve
<1>5. facts'[o] = facts[o] \/ (facts'[o].proven /\ facts'[o].provenAt = now)
  <2>1. ASSUME NEW r \in readings, Feed!Record(r)
        PROVE  facts'[o] = facts[o] \/ (facts'[o].proven /\ facts'[o].provenAt = now)
    BY <1>1, <1>4, <2>1 DEF Feed!Record, Feed!FactOf
  <2>2. QED
    BY <2>1, PartsStep DEF Feed!FeedNext, Feed!Tick, Feed!IndexChange, Feed!Read, Feed!feedVars
<1>6. facts[o].provenAt \in Nat
  BY <1>1, <1>4 DEF Feed!Fact
<1>7. facts'[o].proven /\ (maxFactAge' = 0 \/ facts'[o].provenAt + maxFactAge' >= now')
  BY <1>1, <1>2, <1>4, <1>5, <1>6
<1>8. QED
  BY <1>4, <1>7 DEF FreshReserve

\* A token that a wired guard has let grow is backed by the guard's own count;
\* nothing but age, a withdrawal or a narrower window takes that away.
THEOREM OnlyAgeOrIssuerBreaksSolvency == SolvencySpec => InsolvencyIsAgeingOrIssuer
<1>1. ASSUME LayerInv, [SolvencyNext]_solvencyVars,
             token = GuardedWBTC, Solvent, ~Solvent',
             ~(now' > now), \A o \in Declared : o \in Declared',
             ~(maxFactAge' # 0 /\ (maxFactAge = 0 \/ maxFactAge' < maxFactAge))
      PROVE  FALSE
  <2>1. LayerInv' /\ GuardedWBTC \in Tokens /\ NoToken \notin Tokens
    BY <1>1, LayerInvInductive, SolvencyAssumption, GuardAssumption
  <2>2. /\ supply[GuardedWBTC] \in Nat /\ supply'[GuardedWBTC] \in Nat
    BY <1>1, <2>1 DEF LayerInv, SolvencyTypeOK
  <2>3. token' = GuardedWBTC
    BY <1>1, <2>1, PartsStep, TokenIsSetOnce
  <2>4. LoopSumsFresh /\ LoopSumsFresh'
    BY <1>1, <2>1, ReserveIsFresh, ReserveIsFreshNext
  <2>5. supply[GuardedWBTC] <= SatsOf(FreshReserve)
    BY <1>1, <2>1, <2>4 DEF Solvent, Solvency, LoopSumsFresh
  <2>6. ~(supply'[GuardedWBTC] <= SatsOf(FreshReserve'))
    BY <1>1, <2>1, <2>3, <2>4 DEF Solvent, Solvency, LoopSumsFresh
  <2>7. SatsOf(FreshReserve) <= SatsOf(FreshReserve')
    <3>1. FreshReserve \subseteq FreshReserve'
      BY <1>1, FreshStays
    <3>2. FreshReserve' \in SUBSET Outpoints /\ IsFiniteSet(FreshReserve')
      BY <2>4, FS_Subset DEF LoopSumsFresh
    <3>3. QED
      BY <3>1, <3>2, SatsFacts
  <2>8. SatsOf(FreshReserve) \in Nat /\ SatsOf(FreshReserve') \in Nat
    BY <2>4 DEF LoopSumsFresh, SatsOf
  <2>9. supply'[GuardedWBTC] > supply[GuardedWBTC]
    BY <2>2, <2>5, <2>6, <2>7, <2>8
  <2>10. supply'[GuardedWBTC] <= SatsOf(FreshReserve)
    BY <1>1, <2>9, MintFacts
  <2>11. QED
    BY <2>2, <2>6, <2>7, <2>8, <2>10
<1>2. LayerInv /\ [SolvencyNext]_solvencyVars =>
        [(token = GuardedWBTC /\ Solvent /\ ~Solvent') =>
           \/ now' > now
           \/ \E o \in Declared : o \notin Declared'
           \/ maxFactAge' # 0 /\ (maxFactAge = 0 \/ maxFactAge' < maxFactAge)]_solvencyVars
  BY <1>1
<1>3. QED
  BY <1>2, LayerAlways, PTL DEF SolvencySpec, InsolvencyIsAgeingOrIssuer

=============================================================================

------------------------- MODULE SolvencyDemoProofs -------------------------
(***************************************************************************)
(* Theorems about SolvencyDemo, for any outpoints, values, windows and     *)
(* number of stops: whatever is run, stopped, deployed and proven in       *)
(* between, the supply in use stays backed, and what the demonstration     *)
(* says of its own mints is true.                                          *)
(***************************************************************************)
EXTENDS SolvencyDemo, SolvencyLayerProofs

Backing == {o \in Declared : facts[o].proven}

\* The contracts the file names: their own invariant, what the facts of the
\* file's verifier are, and that one verifier, when it is one, has recorded
\* all that is declared.
WorldInv ==
  /\ LayerInv
  /\ DemoStaysBacked
  /\ now = MaxTime
  /\ token = GuardedWBTC
  /\ vfacts \in [Outpoints -> Feed!Fact]
  /\ shared \in BOOLEAN
  /\ RepeatReadings(vfacts)
  /\ shared => facts = vfacts /\ \A o \in Declared : facts[o].proven

RunTypes ==
  /\ phase \in DemoPhases \cup DeployPhases \cup Ended
  /\ todo \subseteq Outpoints
  /\ before \in Nat
  /\ draft \in {NoToken, GuardedWBTC}
  /\ stops \in 0 .. MaxStops

\* What a run knows where it stands.
RunKnows ==
  /\ phase = "write" => draft = GuardedWBTC
  /\ phase \in {"count", "declare"} => \A o \in todo : vfacts[o].proven
  /\ phase = "solvency" => Declared # {}
  /\ phase = "stale" => maxFactAge = ShortWindow
  /\ before <= SatsOf(Outpoints)
  /\ phase \in {"mint", "attack"} =>
       \E o \in Outpoints : Sats[o] # 0 /\ Sats[o] <= before

DemoInv == WorldInv /\ RunTypes /\ RunKnows

LEMMA OutpointsFinite ==
  /\ IsFiniteSet(Outpoints)
  /\ \A S \in SUBSET Outpoints : IsFiniteSet(S)
<1>1. IsFiniteSet(1 .. MaxHeight)
  BY SolvencyAssumption, FS_Interval
<1>2. IsFiniteSet(Outpoints)
  BY <1>1, DemoAssumption, FS_Injection DEF ExistsInjection
<1>3. QED
  BY <1>2, FS_Subset

LEMMA SatsMonotone ==
  ASSUME NEW S \in SUBSET Outpoints, NEW T \in SUBSET S
  PROVE  SatsOf(T) \in Nat /\ SatsOf(S) \in Nat /\ SatsOf(T) <= SatsOf(S)
BY OutpointsFinite, SatsFacts

LEMMA BackingFacts ==
  ASSUME LayerInv
  PROVE  /\ FreshReserve \subseteq Backing /\ Backing \in SUBSET Outpoints
         /\ SatsOf(FreshReserve) \in Nat /\ SatsOf(Backing) \in Nat
         /\ SatsOf(FreshReserve) <= SatsOf(Backing)
<1>1. FreshReserve \subseteq Backing /\ Backing \in SUBSET Outpoints
  BY ReserveIsFresh DEF LoopSumsFresh, FreshReserve, Backing
<1>2. QED
  BY <1>1, SatsMonotone

\* Where the backing only grows, so may the supply, as far as the guard lets it.
LEMMA BackedNext ==
  ASSUME LayerInv, LayerInv', DemoStaysBacked, Backing \subseteq Backing',
         \/ supply'[GuardedWBTC] <= supply[GuardedWBTC]
         \/ supply'[GuardedWBTC] <= SatsOf(FreshReserve)
  PROVE  DemoStaysBacked'
<1>1. supply[GuardedWBTC] \in Nat /\ supply'[GuardedWBTC] \in Nat
  BY SolvencyAssumption DEF LayerInv, SolvencyTypeOK
<1>2. /\ SatsOf(FreshReserve) \in Nat /\ SatsOf(Backing) \in Nat
      /\ SatsOf(FreshReserve) <= SatsOf(Backing)
  BY BackingFacts
<1>3. Backing' \in SUBSET Outpoints
  BY DEF LayerInv, SolvencyTypeOK, GuardTypeOK, Backing, Declared
<1>4. SatsOf(Backing') \in Nat /\ SatsOf(Backing) <= SatsOf(Backing')
  BY <1>3, SatsMonotone
<1>5. supply[GuardedWBTC] <= SatsOf(Backing)
  BY DEF DemoStaysBacked, Backing
<1>6. supply'[GuardedWBTC] <= SatsOf(Backing')
  BY <1>1, <1>2, <1>4, <1>5
<1>7. QED
  BY <1>6 DEF DemoStaysBacked, Backing

-----------------------------------------------------------------------------
(* The contracts and the world, by what a step does to them.               *)

\* A mint, of either token.
LEMMA MintKeepsWorld ==
  ASSUME WorldInv, NEW v \in Nat, GuardedMint(v) \/ NaiveMint(v),
         UNCHANGED <<vfacts, shared>>
  PROVE  WorldInv'
<1>1. UNCHANGED <<feedVars, guardVars>>
  BY DEF GuardedMint, NaiveMint, AddSupply
<1>2. /\ GuardedWBTC \in Tokens /\ NaiveWBTC \in Tokens
      /\ supply \in [Tokens -> Nat] /\ MaxUint \in Nat
  BY SolvencyAssumption DEF WorldInv, LayerInv, SolvencyTypeOK
<1>3. [SolvencyNext]_solvencyVars
  <2>1. CASE v = 0
    <3>1. supply' = supply
      BY <1>2, <2>1 DEF GuardedMint, NaiveMint, AddSupply
    <3>2. QED
      BY <1>1, <3>1 DEF solvencyVars
  <2>2. CASE v # 0
    <3>1. v \in 1 .. MaxUint
      BY <1>2, <2>2 DEF GuardedMint, NaiveMint, AddSupply
    <3>2. QED
      BY <3>1 DEF SolvencyNext
  <2>3. QED
    BY <2>1, <2>2
<1>4. LayerInv'
  BY <1>3, LayerInvInductive DEF WorldInv
<1>5. DemoStaysBacked'
  <2>1. supply'[GuardedWBTC] <= supply[GuardedWBTC] \/ supply'[GuardedWBTC] <= SatsOf(FreshReserve)
    <3>1. supply'[GuardedWBTC] > supply[GuardedWBTC] => supply'[GuardedWBTC] <= SatsOf(FreshReserve)
      BY <1>3, MintFacts DEF WorldInv
    <3>2. supply[GuardedWBTC] \in Nat /\ supply'[GuardedWBTC] \in Nat
      BY <1>2, <1>4 DEF LayerInv, SolvencyTypeOK
    <3>3. QED
      BY <3>1, <3>2
  <2>2. Backing' = Backing
    BY <1>1 DEF Backing, Declared, feedVars, guardVars
  <2>3. QED
    BY <1>4, <2>1, <2>2, BackedNext DEF WorldInv
<1>6. QED
  BY <1>1, <1>4, <1>5 DEF WorldInv, RepeatReadings, Declared, feedVars, guardVars

\* A declaration, of an outpoint the file's verifier has recorded.
LEMMA DeclareKeepsWorld ==
  ASSUME WorldInv, NEW o \in Outpoints, DeclareReserve(o), vfacts[o].proven,
         UNCHANGED <<worldVars, supply>>
  PROVE  WorldInv' /\ Declared' # {}
<1>1. GuardNext /\ UNCHANGED <<feedVars, supply>>
  BY DEF GuardNext, feedVars, worldVars
<1>2. LayerInv'
  BY <1>1, LayerInvInductive DEF WorldInv, SolvencyNext
<1>3. Declared' = Declared \cup {o}
  BY DeclarePreserves DEF WorldInv, LayerInv, SolvencyTypeOK, GuardInv
<1>4. DemoStaysBacked'
  <2>1. Backing \subseteq Backing' /\ supply' = supply
    BY <1>3 DEF Backing, worldVars
  <2>2. supply[GuardedWBTC] \in Nat
    BY SolvencyAssumption DEF WorldInv, LayerInv, SolvencyTypeOK
  <2>3. QED
    BY <1>2, <2>1, <2>2, BackedNext DEF WorldInv
<1>5. token' = token
  BY DEF DeclareReserve
<1>6. QED
  BY <1>2, <1>3, <1>4, <1>5 DEF WorldInv, RepeatReadings, worldVars

\* The window is moved.
LEMMA WindowKeepsWorld ==
  ASSUME WorldInv, NEW w \in Windows, SetMaxFactAge(w), UNCHANGED <<worldVars, supply>>
  PROVE  WorldInv' /\ Declared' = Declared
<1>1. GuardNext /\ UNCHANGED <<feedVars, supply>>
  BY DEF GuardNext, feedVars, worldVars
<1>2. LayerInv'
  BY <1>1, LayerInvInductive DEF WorldInv, SolvencyNext
<1>3. Declared' = Declared /\ token' = token
  BY DEF SetMaxFactAge, Declared
<1>4. QED
  BY <1>2, <1>3 DEF WorldInv, RepeatReadings, DemoStaysBacked, worldVars

\* Ageing moves records into the past and changes nothing else of them.
LEMMA AgesKeepsWorld ==
  ASSUME WorldInv, Ages
  PROVE  /\ WorldInv' /\ Declared' = Declared
         /\ \A o \in Outpoints : vfacts'[o].proven = vfacts[o].proven
<1> DEFINE Aged(f, g) == \A o \in Outpoints :
                           /\ g[o].proven = f[o].proven /\ g[o].value = f[o].value
<1>1. ASSUME NEW f \in [Outpoints -> Feed!Fact], NEW g,
             g = [o \in Outpoints |->
                    IF f[o].provenAt = 0 THEN f[o] ELSE [f[o] EXCEPT !.provenAt = @ - 1]]
      PROVE  g \in [Outpoints -> Feed!Fact] /\ Aged(f, g)
  <2>1. ASSUME NEW o \in Outpoints
        PROVE  /\ g[o] \in Feed!Fact
               /\ g[o].proven = f[o].proven /\ g[o].value = f[o].value
    <3>1. CASE f[o].provenAt = 0
      BY <1>1, <3>1
    <3>2. CASE f[o].provenAt # 0
      <4>1. /\ f[o] \in Feed!Fact /\ f[o].provenAt - 1 \in Nat
        BY <3>2 DEF Feed!Fact
      <4>2. g[o] = [f[o] EXCEPT !.provenAt = @ - 1]
        BY <1>1, <3>2
      <4>3. QED
        BY <4>1, <4>2 DEF Feed!Fact
    <3>3. QED
      BY <3>1, <3>2
  <2>2. QED
    BY <1>1, <2>1
<1>2. /\ facts' \in [Outpoints -> Feed!Fact] /\ Aged(facts, facts')
      /\ vfacts' \in [Outpoints -> Feed!Fact] /\ Aged(vfacts, vfacts')
  <2>1. facts \in [Outpoints -> Feed!Fact] /\ vfacts \in [Outpoints -> Feed!Fact]
    BY DEF WorldInv, LayerInv, SolvencyTypeOK
  <2>2. /\ facts' = [o \in Outpoints |->
              IF facts[o].provenAt = 0 THEN facts[o] ELSE [facts[o] EXCEPT !.provenAt = @ - 1]]
        /\ vfacts' = [o \in Outpoints |->
              IF vfacts[o].provenAt = 0 THEN vfacts[o] ELSE [vfacts[o] EXCEPT !.provenAt = @ - 1]]
    BY DEF Ages
  <2> HIDE DEF Aged
  <2>3. facts' \in [Outpoints -> Feed!Fact] /\ Aged(facts, facts')
    BY <1>1, <2>1, <2>2, Zenon
  <2>4. vfacts' \in [Outpoints -> Feed!Fact] /\ Aged(vfacts, vfacts')
    BY <1>1, <2>1, <2>2, Zenon
  <2>5. QED
    BY <2>3, <2>4
<1>3. /\ facts = vfacts => facts' = vfacts'
      /\ UNCHANGED <<now, utxos, readings, guardVars, supply, shared>>
  BY DEF Ages
<1> HIDE DEF Aged
<1>4. LayerInv'
  <2>1. SolvencyTypeOK' /\ SlotsMirrorArray' /\ IsFiniteSet(readings')
    BY <1>2, <1>3 DEF WorldInv, LayerInv, SolvencyTypeOK, GuardTypeOK, SlotsMirrorArray, guardVars
  <2>2. FactsAreReadings'
    BY <1>2, <1>3 DEF WorldInv, LayerInv, FactsAreReadings, RepeatReadings, Aged
  <2>3. QED
    BY <2>1, <2>2 DEF LayerInv
<1>5. Declared' = Declared /\ token' = token
  BY <1>3 DEF Declared, guardVars
<1>6. Declared \subseteq Outpoints
  BY DEF WorldInv, LayerInv, SolvencyTypeOK, GuardTypeOK, Declared
<1>7. DemoStaysBacked'
  <2>1. {o \in Declared' : facts'[o].proven} = {o \in Declared : facts[o].proven}
    BY <1>2, <1>5, <1>6 DEF Aged
  <2>2. QED
    BY <1>3, <2>1 DEF WorldInv, DemoStaysBacked
<1>8. RepeatReadings(vfacts)'
  BY <1>2, <1>3 DEF WorldInv, RepeatReadings, Aged
<1>9. QED
  BY <1>2, <1>3, <1>4, <1>5, <1>6, <1>7, <1>8 DEF WorldInv, Aged

\* A proof is recorded by the file's verifier, by the guard's, or by both in one.
LEMMA ProofKeepsWorld ==
  ASSUME WorldInv, NEW r \in readings, ProveAgain(r)
  PROVE  /\ WorldInv' /\ Declared' = Declared
         /\ \A o \in Outpoints : vfacts[o].proven => vfacts'[o].proven
<1> DEFINE fact == Feed!FactOf(r.outpoint, r.height, now)
<1>1. /\ r.outpoint \in Outpoints /\ r.height \in Nat /\ now \in Nat
      /\ vfacts \in [Outpoints -> Feed!Fact] /\ facts \in [Outpoints -> Feed!Fact]
  BY SolvencyAssumption DEF WorldInv, LayerInv, SolvencyTypeOK, Feed!Reading
<1>2. fact \in Feed!Fact /\ fact.proven /\ fact.value = Sats[r.outpoint]
  BY <1>1, SolvencyAssumption DEF Feed!FactOf, Feed!Fact
<1> DEFINE Records(f, g) == g = f \/ g = [f EXCEPT ![r.outpoint] = fact]
<1>3. /\ Records(vfacts, vfacts') /\ Records(facts, facts')
      /\ shared => facts' = vfacts'
      /\ UNCHANGED <<now, utxos, readings, guardVars, supply, shared>>
  BY DEF ProveAgain, WorldInv
<1> HIDE DEF fact
<1>4. ASSUME NEW f \in [Outpoints -> Feed!Fact], NEW g, Records(f, g), RepeatReadings(f)
      PROVE  /\ g \in [Outpoints -> Feed!Fact]
             /\ \A o \in Outpoints : f[o].proven => g[o].proven
             /\ RepeatReadings(g)
  BY <1>1, <1>2, <1>4 DEF RepeatReadings
<1> HIDE DEF Records
<1>5. /\ vfacts' \in [Outpoints -> Feed!Fact]
      /\ \A o \in Outpoints : vfacts[o].proven => vfacts'[o].proven
      /\ RepeatReadings(vfacts')
  BY <1>1, <1>3, <1>4 DEF WorldInv
<1>6. /\ facts' \in [Outpoints -> Feed!Fact]
      /\ \A o \in Outpoints : facts[o].proven => facts'[o].proven
      /\ RepeatReadings(facts')
  BY <1>1, <1>3, <1>4 DEF WorldInv, LayerInv, FactsAreReadings
<1>7. RepeatReadings(vfacts)' /\ FactsAreReadings'
  BY <1>3, <1>5, <1>6 DEF FactsAreReadings, RepeatReadings
<1>8. LayerInv'
  <2>1. SolvencyTypeOK' /\ SlotsMirrorArray' /\ IsFiniteSet(readings')
    BY <1>3, <1>6 DEF WorldInv, LayerInv, SolvencyTypeOK, GuardTypeOK, SlotsMirrorArray, guardVars
  <2>2. FactsAreReadings'
    BY <1>7
  <2>3. QED
    BY <2>1, <2>2 DEF LayerInv
<1>9. Declared' = Declared /\ token' = token /\ Declared \subseteq Outpoints
  BY <1>3 DEF WorldInv, LayerInv, SolvencyTypeOK, GuardTypeOK, Declared, guardVars
<1>10. DemoStaysBacked'
  <2>1. Backing \subseteq Backing'
    BY <1>6, <1>9 DEF Backing
  <2>2. supply' = supply /\ supply[GuardedWBTC] \in Nat
    BY <1>3, SolvencyAssumption DEF WorldInv, LayerInv, SolvencyTypeOK
  <2>3. QED
    BY <1>8, <2>1, <2>2, BackedNext DEF WorldInv
<1>11. QED
  BY <1>3, <1>5, <1>6, <1>7, <1>8, <1>9, <1>10 DEF WorldInv

\* A guard nobody has declared anything to, and tokens nobody has minted.
FreshContracts ==
  /\ token = GuardedWBTC
  /\ maxFactAge = Window
  /\ reserves = << >>
  /\ slotPlusOne = [o \in Outpoints |-> 0]
  /\ supply = [t \in Tokens |-> 0]

NothingMinted ==
  /\ GuardTypeOK /\ SlotsMirrorArray /\ Declared = {}
  /\ supply \in [Tokens -> 0 .. MaxUint]
  /\ DemoStaysBacked

LEMMA FreshFacts == FreshContracts => NothingMinted
<1> SUFFICES ASSUME FreshContracts PROVE NothingMinted
  OBVIOUS
<1>1. GuardTypeOK /\ SlotsMirrorArray /\ Declared = {}
  BY DemoAssumption, SolvencyAssumption
     DEF FreshContracts, GuardTypeOK, SlotsMirrorArray, Declared
<1>2. supply \in [Tokens -> 0 .. MaxUint] /\ supply[GuardedWBTC] = 0
  BY SolvencyAssumption DEF FreshContracts
<1>3. {o \in Declared : facts[o].proven} = {}
  BY <1>1
<1>4. SatsOf({o \in Declared : facts[o].proven}) = 0
  BY <1>3, SumEmpty DEF SatsOf
<1>5. DemoStaysBacked
  BY <1>2, <1>4 DEF DemoStaysBacked
<1>6. QED
  BY <1>1, <1>2, <1>5 DEF NothingMinted

\* A new deployment: the file's verifier becomes the guard's.
LEMMA DeploymentKeepsWorld ==
  ASSUME WorldInv, FreshContracts', facts' = vfacts, shared' = TRUE,
         UNCHANGED <<now, utxos, readings, vfacts>>
  PROVE  WorldInv'
<1>1. /\ GuardTypeOK' /\ SlotsMirrorArray' /\ Declared' = {}
      /\ supply' \in [Tokens -> 0 .. MaxUint] /\ DemoStaysBacked'
  <2>1. NothingMinted'
    BY FreshFacts, PTL
  <2>2. QED
    BY <2>1 DEF NothingMinted
<1>2. SolvencyTypeOK' /\ IsFiniteSet(readings')
  BY <1>1 DEF WorldInv, LayerInv, SolvencyTypeOK
<1>3. FactsAreReadings' /\ RepeatReadings(vfacts)'
  BY DEF WorldInv, FactsAreReadings, RepeatReadings
<1>4. QED
  BY <1>1, <1>2, <1>3 DEF WorldInv, LayerInv, FreshContracts

\* A new verifier: nothing is recorded there, and the guard does not read it.
LEMMA VerifierKeepsWorld ==
  ASSUME WorldInv, DeployVerifier
  PROVE  WorldInv'
<1>1. Feed!Unproven \in Feed!Fact /\ ~Feed!Unproven.proven
  BY DEF Feed!Unproven, Feed!Fact
<1>2. /\ vfacts' \in [Outpoints -> Feed!Fact] /\ \A o \in Outpoints : ~vfacts'[o].proven
      /\ shared' = FALSE
      /\ UNCHANGED <<now, utxos, readings, facts, guardVars, supply>>
  BY <1>1 DEF DeployVerifier
<1>3. LayerInv' /\ DemoStaysBacked' /\ token' = token
  BY <1>2 DEF WorldInv, LayerInv, SolvencyTypeOK, GuardTypeOK, SlotsMirrorArray,
              FactsAreReadings, RepeatReadings, DemoStaysBacked, Declared, guardVars
<1>4. QED
  BY <1>2, <1>3 DEF WorldInv, RepeatReadings

LEMMA StillKeepsWorld ==
  ASSUME WorldInv, UNCHANGED <<worldVars, guardVars, supply>>
  PROVE  WorldInv' /\ Declared' = Declared /\ Backing' = Backing
<1>1. Declared' = Declared
  BY DEF Declared, guardVars
<1>2. QED
  BY <1>1 DEF WorldInv, LayerInv, SolvencyTypeOK, GuardTypeOK, SlotsMirrorArray, Backing,
              FactsAreReadings, RepeatReadings, DemoStaysBacked, worldVars, guardVars

\* The state the runs start from: each output relayed once, nothing proven.
LEMMA DemoInitWorld == DemoInit => WorldInv
<1> SUFFICES ASSUME DemoInit PROVE WorldInv
  OBVIOUS
<1> DEFINE height == CHOOSE h \in Injection(Outpoints, 1 .. MaxHeight) : TRUE
           first == [o \in Outpoints |-> [outpoint |-> o, height |-> height[o], readAt |-> 0]]
<1>1. height \in [Outpoints -> 1 .. MaxHeight]
  BY DemoAssumption DEF ExistsInjection, Injection
<1>2. readings = {first[o] : o \in Outpoints}
  <2>1. readings = {[outpoint |-> o, height |-> height[o], readAt |-> 0] : o \in Outpoints}
    BY DEF DemoInit
  <2> HIDE DEF height
  <2>2. QED
    BY <2>1
<1>3. readings \subseteq Feed!Reading
  <2>1. 0 \in 0 .. MaxTime
    BY SolvencyAssumption
  <2> HIDE DEF height
  <2>2. \A o \in Outpoints : first[o] \in Feed!Reading
    BY <1>1, <2>1 DEF Feed!Reading
  <2>3. QED
    BY <1>2, <2>2
<1>4. IsFiniteSet(readings)
  <2> HIDE DEF first
  <2>1. QED
    BY <1>2, OutpointsFinite, FiniteImage
<1>5. Feed!Unproven \in Feed!Fact /\ ~Feed!Unproven.proven
  BY DEF Feed!Unproven, Feed!Fact
<1>6. /\ facts \in [Outpoints -> Feed!Fact] /\ vfacts = facts /\ shared = TRUE
      /\ \A o \in Outpoints : ~facts[o].proven
  BY <1>5 DEF DemoInit
<1>7. /\ GuardTypeOK /\ SlotsMirrorArray /\ Declared = {}
      /\ supply \in [Tokens -> 0 .. MaxUint] /\ DemoStaysBacked
  BY FreshFacts DEF DemoInit, FreshContracts, NothingMinted
<1>8. now = MaxTime /\ now \in 0 .. MaxTime /\ utxos \subseteq Outpoints /\ token = GuardedWBTC
  <2>1. MaxTime \in 0 .. MaxTime
    BY SolvencyAssumption
  <2>2. now = MaxTime /\ utxos = Outpoints /\ token = GuardedWBTC
    BY DEF DemoInit
  <2>3. QED
    BY <2>1, <2>2
<1>9. FactsAreReadings /\ RepeatReadings(vfacts)
  BY <1>6 DEF FactsAreReadings, RepeatReadings
<1>10. LayerInv
  BY <1>3, <1>4, <1>6, <1>7, <1>8, <1>9 DEF LayerInv, SolvencyTypeOK
<1>11. QED
  BY <1>6, <1>7, <1>8, <1>9, <1>10 DEF WorldInv

-----------------------------------------------------------------------------
(* The run, by where it stands.                                            *)

LEMMA DivFacts ==
  ASSUME NEW n \in Nat, NEW d \in Nat \ {0}
  PROVE  n \div d \in Nat /\ n \div d <= n
<1> DEFINE q == n \div d
<1>1. q \in Int /\ d * q <= n /\ n < d * (q + 1)
  OBVIOUS
<1> HIDE DEF q
<1>2. q >= 0
  <2>1. SUFFICES ASSUME q + 1 <= 0 PROVE FALSE
    BY <1>1
  <2>2. d * (q + 1) <= 0
    BY <1>1, <2>1
  <2>3. QED
    BY <1>1, <2>2
<1>3. q <= d * q
  BY <1>1, <1>2
<1>4. q \in Nat /\ q <= n
  BY <1>1, <1>2, <1>3
<1>5. QED
  BY <1>4 DEF q

\* A reserve that is read as something holds an output of some value.
LEMMA SomeOutput ==
  ASSUME LayerInv
  PROVE  /\ ReservesPrinted = SatsOf(FreshReserve)
         /\ ReservesPrinted \in Nat /\ ReservesPrinted <= SatsOf(Outpoints)
         /\ SatsOf(Outpoints) \in Nat
         /\ ReservesPrinted # 0 =>
              \E o \in FreshReserve : Sats[o] # 0 /\ Sats[o] <= ReservesPrinted
<1>1. LoopSumsFresh /\ FreshReserve \in SUBSET Outpoints /\ IsFiniteSet(FreshReserve)
  BY ReserveIsFresh, OutpointsFinite DEF LoopSumsFresh
<1>2. ReservesPrinted = SatsOf(FreshReserve)
  BY <1>1 DEF ReservesPrinted, Solvency, LoopSumsFresh
<1>3. \A o \in FreshReserve : Sats[o] \in Nat
  BY <1>1, SolvencyAssumption
<1>4. ReservesPrinted # 0 =>
        \E o \in FreshReserve : Sats[o] # 0 /\ Sats[o] <= ReservesPrinted
  <2>1. SUFFICES ASSUME ReservesPrinted # 0
                 PROVE  \E o \in FreshReserve : Sats[o] # 0 /\ Sats[o] <= ReservesPrinted
    OBVIOUS
  <2>2. PICK o \in FreshReserve : Sats[o] # 0
    BY <1>1, <1>2, <2>1, SumOfZeros DEF SatsOf
  <2>3. Sats[o] <= SatsOf(FreshReserve)
    BY <1>1, <1>3, SumBoundsElement DEF SatsOf
  <2>4. QED
    BY <1>2, <2>2, <2>3
<1>5. QED
  BY <1>1, <1>2, <1>4, SatsMonotone

RunInv == RunTypes /\ RunKnows

LEMMA DemoInitRun == DemoInit => RunInv
<1> SUFFICES ASSUME DemoInit PROVE RunInv
  OBVIOUS
<1>1. 0 \in Nat /\ 0 \in 0 .. MaxStops
  BY DemoAssumption
<1>2. phase = "deployed" /\ todo = {} /\ before = 0 /\ draft = NoToken /\ stops = 0
  BY DEF DemoInit
<1>3. 0 <= SatsOf(Outpoints)
  BY SatsMonotone
<1>4. QED
  BY <1>1, <1>2, <1>3 DEF RunInv, RunTypes, RunKnows, Ended

\* What a run may know of the world does not depend on the awaits at which
\* these stand; where a run ends, it knows nothing.
LEMMA AnswerKeepsTypes ==
  ASSUME RunTypes, NEW p \in DemoPhases \cup DeployPhases \cup Ended, Answered(p)
  PROVE  /\ phase' \in {p, "failed"} /\ phase' \in DemoPhases \cup DeployPhases \cup Ended
         /\ draft' = draft /\ stops' \in 0 .. MaxStops
BY DemoAssumption DEF RunTypes, Answered, GoTo, Stops, Ended

\* The awaits whose name alone tells nothing.
Silent == {"list", "naive", "narrow", "restore", "contracts", "wire",
           "done", "empty", "zero", "deployed", "failed"}

LEMMA SilentKnows ==
  ASSUME phase \in Silent, before <= SatsOf(Outpoints)
  PROVE  RunKnows
BY DEF RunKnows, Silent

\* Where the run only goes to an await that tells nothing, or ends there.
LEMMA SilentStep ==
  ASSUME RunInv, UNCHANGED <<todo, before>>,
         NEW p \in Silent, Answered(p)
  PROVE  RunInv'
<1>1. p \in DemoPhases \cup DeployPhases \cup Ended
  BY DEF Silent, DemoPhases, DeployPhases, Ended
<1>2. phase' \in Silent /\ RunTypes'
  BY <1>1, AnswerKeepsTypes DEF RunInv, RunTypes, Silent
<1>3. before' <= SatsOf(Outpoints)
  BY DEF RunInv, RunKnows
<1>4. QED
  BY <1>2, <1>3 DEF RunInv, RunKnows, Silent

\* A step of the world at which the run stands still.
LEMMA WaitingStep ==
  ASSUME RunInv, UNCHANGED runVars, Declared' = Declared, maxFactAge' = maxFactAge,
         \A o \in Outpoints : vfacts[o].proven => vfacts'[o].proven
  PROVE  RunInv'
<1>1. RunTypes'
  BY DEF RunInv, RunTypes, runVars
<1>2. todo \subseteq Outpoints
  BY DEF RunInv, RunTypes
<1>3. RunKnows'
  BY <1>2 DEF RunInv, RunKnows, runVars
<1>4. QED
  BY <1>1, <1>3 DEF RunInv

LEMMA ListStep ==
  ASSUME DemoInv, ListFacts
  PROVE  DemoInv'
<1>1. WorldInv'
  BY StillKeepsWorld DEF DemoInv, ListFacts
<1>2. /\ todo' = {o \in Outpoints : vfacts[o].proven}
      /\ phase' = IF todo' = {} THEN "empty" ELSE "count"
      /\ vfacts' = vfacts /\ UNCHANGED <<before, draft, stops>>
  BY DEF ListFacts, GoTo, worldVars
<1>3. RunTypes'
  BY <1>2 DEF DemoInv, RunTypes, DemoPhases, Ended
<1>4. RunKnows'
  <2>1. before' <= SatsOf(Outpoints)
    BY <1>2 DEF DemoInv, RunKnows
  <2>2. \A o \in todo' : vfacts'[o].proven
    BY <1>2
  <2>3. QED
    BY <1>2, <2>1, <2>2 DEF RunKnows
<1>5. QED
  BY <1>1, <1>3, <1>4 DEF DemoInv

LEMMA CountStep ==
  ASSUME DemoInv, CountReserves
  PROVE  DemoInv'
<1>1. WorldInv' /\ Declared' = Declared
  BY StillKeepsWorld DEF DemoInv, CountReserves
<1>2. /\ phase = "count" /\ vfacts' = vfacts /\ UNCHANGED <<before, draft, stops>>
      /\ \/ phase' = "declare" /\ todo' = todo
         \/ phase' = "solvency" /\ todo' = {} /\ Len(reserves) # 0
  BY DEF CountReserves, GoTo, worldVars
<1>3. Len(reserves) # 0 => Declared # {}
  <2>1. Len(reserves) \in Nat
    BY DEF DemoInv, WorldInv, LayerInv, SolvencyTypeOK, GuardTypeOK
  <2>2. Len(reserves) # 0 => reserves[1] \in Declared
    BY <2>1 DEF Declared
  <2>3. QED
    BY <2>2
<1>4. RunTypes'
  BY <1>2 DEF DemoInv, RunTypes, DemoPhases
<1>5. RunKnows'
  BY <1>1, <1>2, <1>3 DEF DemoInv, RunKnows
<1>6. QED
  BY <1>1, <1>4, <1>5 DEF DemoInv

LEMMA DeclareStep ==
  ASSUME DemoInv, NEW o \in Outpoints, DeclareNext(o)
  PROVE  DemoInv'
<1>1. WorldInv' /\ Declared' # {}
  BY DeclareKeepsWorld DEF DemoInv, DeclareNext, RunKnows
<1>2. /\ phase = "declare" /\ todo' = todo \ {o} /\ UNCHANGED <<vfacts, before>>
      /\ Answered(IF todo' = {} THEN "solvency" ELSE "declare")
  BY DEF DeclareNext, worldVars
<1>3. /\ phase' \in {"solvency", "declare", "failed"}
      /\ phase' \in DemoPhases \cup DeployPhases \cup Ended
      /\ draft' = draft /\ stops' \in 0 .. MaxStops
  BY <1>2, AnswerKeepsTypes DEF DemoInv, DemoPhases
<1>4. RunTypes'
  BY <1>2, <1>3 DEF DemoInv, RunTypes
<1>5. RunKnows'
  BY <1>1, <1>2, <1>3 DEF DemoInv, RunKnows
<1>6. QED
  BY <1>1, <1>4, <1>5 DEF DemoInv

LEMMA SolvencyStep ==
  ASSUME DemoInv, ReadSolvency
  PROVE  DemoInv'
<1>1. WorldInv'
  BY StillKeepsWorld DEF DemoInv, ReadSolvency
<1>2. /\ before' = ReservesPrinted /\ phase' = IF before' = 0 THEN "zero" ELSE "mint"
      /\ UNCHANGED <<todo, draft, stops>>
  BY DEF ReadSolvency, GoTo
<1>3. /\ before' \in Nat /\ before' <= SatsOf(Outpoints)
      /\ before' # 0 => \E o \in Outpoints : Sats[o] # 0 /\ Sats[o] <= before'
  BY <1>2, SomeOutput, BackingFacts DEF DemoInv, WorldInv
<1>4. RunTypes'
  BY <1>2, <1>3 DEF DemoInv, RunTypes, DemoPhases, Ended
<1>5. RunKnows'
  BY <1>2, <1>3 DEF RunKnows
<1>6. QED
  BY <1>1, <1>4, <1>5 DEF DemoInv

\* A mint of either token, or its refusal.
LEMMA MintWorld ==
  ASSUME DemoInv, NEW v \in Nat, UNCHANGED <<vfacts, shared>>,
         \/ GuardedMint(v)
         \/ NaiveMint(v)
         \/ UNCHANGED <<feedVars, guardVars, supply>>
  PROVE  WorldInv'
<1>1. CASE GuardedMint(v) \/ NaiveMint(v)
  BY <1>1, MintKeepsWorld DEF DemoInv
<1>2. CASE UNCHANGED <<feedVars, guardVars, supply>>
  BY <1>2, StillKeepsWorld DEF DemoInv, worldVars, feedVars
<1>3. QED
  BY <1>1, <1>2

LEMMA AmountsAsked ==
  ASSUME RunTypes
  PROVE  before \div ShareDivisor \in Nat /\ before \div ShareDivisor <= before
         /\ AttackFactor * before \in Nat
<1>1. ShareDivisor \in Nat \ {0} /\ AttackFactor \in Nat /\ before \in Nat
  BY DemoAssumption DEF RunTypes
<1>2. QED
  BY <1>1, DivFacts

LEMMA HonestStep ==
  ASSUME DemoInv, MintHonest
  PROVE  DemoInv'
<1>1. WorldInv'
  BY MintWorld, AmountsAsked DEF MintHonest, Refused, DemoInv
<1>2. /\ phase = "mint" /\ UNCHANGED <<todo, before>>
      /\ Answered("attack") \/ GoTo("failed")
  BY DEF MintHonest, Refused
<1>3. /\ phase' \in {"attack", "failed"}
      /\ phase' \in DemoPhases \cup DeployPhases \cup Ended
      /\ draft' = draft /\ stops' \in 0 .. MaxStops
  BY <1>2, AnswerKeepsTypes DEF DemoInv, DemoPhases, Ended, Answered
<1>4. RunTypes'
  BY <1>2, <1>3 DEF DemoInv, RunTypes
<1>5. RunKnows'
  BY <1>2, <1>3 DEF DemoInv, RunKnows
<1>6. QED
  BY <1>1, <1>4, <1>5 DEF DemoInv

LEMMA AttackStep ==
  ASSUME DemoInv, MintAttack
  PROVE  DemoInv'
<1>1. WorldInv'
  BY MintWorld, AmountsAsked DEF MintAttack, DemoInv
<1>2. RunInv'
  BY SilentStep DEF MintAttack, DemoInv, RunInv, Answered, Silent
<1>3. QED
  BY <1>1, <1>2 DEF DemoInv, RunInv

LEMMA NaiveStep ==
  ASSUME DemoInv, MintNaive
  PROVE  DemoInv'
<1>1. WorldInv'
  BY MintWorld, AmountsAsked DEF MintNaive, Refused, DemoInv
<1>2. Answered("narrow") \/ Answered("failed")
  BY DEF MintNaive, Refused, Answered
<1>3. RunInv'
  BY <1>2, SilentStep DEF MintNaive, DemoInv, RunInv, Silent
<1>4. QED
  BY <1>1, <1>3 DEF DemoInv, RunInv

LEMMA NarrowStep ==
  ASSUME DemoInv, NarrowWindow
  PROVE  DemoInv'
<1>1. WorldInv' /\ maxFactAge' = ShortWindow
  BY WindowKeepsWorld, DemoAssumption DEF DemoInv, NarrowWindow, SetMaxFactAge
<1>2. UNCHANGED <<todo, before>> /\ Answered("stale")
  BY DEF NarrowWindow
<1>3. /\ phase' \in {"stale", "failed"}
      /\ phase' \in DemoPhases \cup DeployPhases \cup Ended
      /\ draft' = draft /\ stops' \in 0 .. MaxStops
  BY <1>2, AnswerKeepsTypes DEF DemoInv, DemoPhases
<1>4. RunTypes'
  BY <1>2, <1>3 DEF DemoInv, RunTypes
<1>5. RunKnows'
  BY <1>1, <1>2, <1>3 DEF DemoInv, RunKnows
<1>6. QED
  BY <1>1, <1>4, <1>5 DEF DemoInv

LEMMA StaleStep ==
  ASSUME DemoInv, MintStale
  PROVE  DemoInv'
<1>1. WorldInv'
  BY MintWorld DEF MintStale
<1>2. RunInv'
  BY SilentStep DEF MintStale, DemoInv, RunInv, Answered, Silent
<1>3. QED
  BY <1>1, <1>2 DEF DemoInv, RunInv

LEMMA RestoreStep ==
  ASSUME DemoInv, RestoreWindow
  PROVE  DemoInv'
<1>1. WorldInv'
  BY WindowKeepsWorld, DemoAssumption DEF DemoInv, RestoreWindow
<1>2. RunInv'
  BY SilentStep DEF RestoreWindow, DemoInv, RunInv, Silent
<1>3. QED
  BY <1>1, <1>2 DEF DemoInv, RunInv

LEMMA ThrowStep ==
  ASSUME DemoInv, Throws
  PROVE  DemoInv'
<1>1. WorldInv'
  BY StillKeepsWorld DEF DemoInv, Throws
<1>2. RunInv'
  BY SilentStep DEF Throws, DemoInv, RunInv, Answered, Silent
<1>3. QED
  BY <1>1, <1>2 DEF DemoInv, RunInv

LEMMA StartStep ==
  ASSUME DemoInv, StartDemo \/ StartDeployGuard
  PROVE  DemoInv'
<1>1. WorldInv'
  BY StillKeepsWorld DEF DemoInv, StartDemo, StartDeployGuard
<1>2. /\ phase' \in {"list", "contracts"} /\ stops' = stops
      /\ todo' \in {todo, {}} /\ before' \in {before, 0} /\ draft' \in {draft, NoToken}
  BY DEF StartDemo, StartDeployGuard, GoTo
<1>3. 0 <= SatsOf(Outpoints)
  BY SatsMonotone
<1>4. RunTypes'
  BY <1>2 DEF DemoInv, RunTypes, DemoPhases, DeployPhases
<1>5. RunKnows'
  BY <1>2, <1>3 DEF DemoInv, RunKnows
<1>6. QED
  BY <1>1, <1>4, <1>5 DEF DemoInv

LEMMA ContractsStep ==
  ASSUME DemoInv, DeployContracts
  PROVE  DemoInv'
<1>1. WorldInv'
  BY StillKeepsWorld DEF DemoInv, DeployContracts
<1>2. RunInv'
  BY SilentStep DEF DeployContracts, DemoInv, RunInv, Silent
<1>3. QED
  BY <1>1, <1>2 DEF DemoInv, RunInv

LEMMA WireStep ==
  ASSUME DemoInv, WireToken
  PROVE  DemoInv'
<1>1. WorldInv'
  BY StillKeepsWorld DEF DemoInv, WireToken
<1>2. CASE Stops
  <2>1. RunInv'
    BY <1>2, SilentStep DEF WireToken, DemoInv, RunInv, Answered, Silent
  <2>2. QED
    BY <1>1, <2>1 DEF DemoInv, RunInv
<1>3. CASE phase' = "write" /\ draft' = GuardedWBTC /\ UNCHANGED stops
  <2>1. UNCHANGED <<todo, before>>
    BY DEF WireToken
  <2>2. RunTypes' /\ RunKnows'
    BY <1>3, <2>1 DEF DemoInv, RunTypes, RunKnows, DeployPhases
  <2>3. QED
    BY <1>1, <2>2 DEF DemoInv
<1>4. QED
  BY <1>2, <1>3 DEF WireToken

LEMMA WriteStep ==
  ASSUME DemoInv, WriteDeployment
  PROVE  DemoInv'
<1>1. FreshContracts'
  BY DEF WriteDeployment, FreshContracts, DemoInv, RunKnows
<1>2. WorldInv'
  BY <1>1, DeploymentKeepsWorld DEF DemoInv, WriteDeployment
<1>3. RunInv'
  BY SilentStep DEF WriteDeployment, DemoInv, RunInv, Answered, Silent
<1>4. QED
  BY <1>2, <1>3 DEF DemoInv, RunInv

\* Only between two runs is a verifier deployed.
LEMMA VerifierStep ==
  ASSUME DemoInv, DeployVerifier
  PROVE  DemoInv'
<1>1. WorldInv'
  BY VerifierKeepsWorld DEF DemoInv
<1>2. UNCHANGED runVars /\ phase \in Silent
  BY DEF DeployVerifier, Ended, Silent
<1>3. RunTypes' /\ RunKnows'
  BY <1>2 DEF DemoInv, RunTypes, RunKnows, runVars, Silent
<1>4. QED
  BY <1>1, <1>3 DEF DemoInv

LEMMA WorldStep ==
  ASSUME DemoInv, Ages \/ \E r \in readings : ProveAgain(r)
  PROVE  DemoInv'
<1>1. /\ WorldInv' /\ Declared' = Declared
      /\ \A o \in Outpoints : vfacts[o].proven => vfacts'[o].proven
  BY AgesKeepsWorld, ProofKeepsWorld DEF DemoInv
<1>2. UNCHANGED runVars /\ maxFactAge' = maxFactAge
  BY DEF Ages, ProveAgain, guardVars
<1>3. RunInv'
  BY <1>1, <1>2, WaitingStep DEF DemoInv, RunInv
<1>4. QED
  BY <1>1, <1>3 DEF DemoInv, RunInv

LEMMA IdleStep ==
  ASSUME DemoInv, UNCHANGED demoVars
  PROVE  DemoInv'
<1>1. UNCHANGED <<worldVars, guardVars, supply>> /\ UNCHANGED runVars
  BY DEF demoVars, solvencyVars, feedVars, worldVars
<1>2. WorldInv' /\ Declared' = Declared
  BY <1>1, StillKeepsWorld DEF DemoInv
<1>3. RunInv'
  BY <1>1, <1>2, WaitingStep DEF DemoInv, RunInv, worldVars, guardVars
<1>4. QED
  BY <1>2, <1>3 DEF DemoInv, RunInv

LEMMA DemoInvInductive ==
  /\ DemoInit => DemoInv
  /\ DemoInv /\ [DemoNext]_demoVars => DemoInv'
<1>1. DemoInit => DemoInv
  BY DemoInitWorld, DemoInitRun DEF DemoInv, RunInv
<1>2. ASSUME DemoInv, [DemoNext]_demoVars PROVE DemoInv'
  <2>1. CASE DemoStep
    BY <1>2, <2>1, ListStep, CountStep, SolvencyStep, HonestStep, AttackStep, NaiveStep,
       NarrowStep, StaleStep, RestoreStep, ThrowStep, ContractsStep, WireStep, WriteStep,
       DeclareStep DEF DemoStep
  <2>2. CASE StartDemo \/ StartDeployGuard \/ DeployVerifier
    BY <1>2, <2>2, StartStep, VerifierStep
  <2>3. CASE Ages \/ \E r \in readings : ProveAgain(r)
    BY <1>2, <2>3, WorldStep
  <2>4. CASE UNCHANGED demoVars
    BY <1>2, <2>4, IdleStep
  <2>5. QED
    BY <1>2, <2>1, <2>2, <2>3, <2>4 DEF DemoNext
<1>3. QED
  BY <1>1, <1>2

LEMMA DemoAlways == DemoSpec => []DemoInv
BY DemoInvInductive, PTL DEF DemoSpec

-----------------------------------------------------------------------------

\* Every variable keeps its type, whatever is run, stopped and run again.
THEOREM DemoTypeCorrect == DemoSpec => []DemoTypeOK
<1>1. DemoInv => DemoTypeOK
  BY DEF DemoInv, WorldInv, LayerInv, RunTypes, DemoTypeOK
<1>2. QED
  BY <1>1, DemoAlways, PTL

\* However the runs and the deployments are cut short and repeated, the guarded
\* supply in use is covered by declared outputs that the guard's verifier knows.
THEOREM DemoAlwaysBacked == DemoSpec => []DemoStaysBacked
<1>1. DemoInv => DemoStaysBacked
  BY DEF DemoInv, WorldInv
<1>2. QED
  BY <1>1, DemoAlways, PTL

\* The supply moves at no await but those where a mint or the end of a
\* deployment is waited for.
LEMMA WhoMovesSupply ==
  ASSUME DemoInv, [DemoNext]_demoVars
  PROVE  /\ phase = "attack" =>
              UNCHANGED supply \/ GuardedMint(AttackFactor * before)
         /\ phase = "stale" => UNCHANGED supply \/ GuardedMint(1)
<1>1. CASE phase \notin {"attack", "stale"}
  BY <1>1
<1>2. CASE phase \in {"attack", "stale"}
  <2>1. CASE DemoStep
    BY <1>2, <2>1 DEF DemoStep, ListFacts, CountReserves, ReadSolvency, MintHonest, MintAttack,
       MintNaive, NarrowWindow, MintStale, RestoreWindow, Throws, DeployContracts, WireToken,
       WriteDeployment, DeclareNext
  <2>2. CASE ~DemoStep
    BY <1>2, <2>2 DEF DemoNext, StartDemo, StartDeployGuard, DeployVerifier, Ages, ProveAgain,
       Ended, demoVars, solvencyVars
  <2>3. QED
    BY <2>1, <2>2
<1>3. QED
  BY <1>1, <1>2

\* A guarded mint of any amount leaves a supply that the fresh reserve covers.
LEMMA MintIsCovered ==
  ASSUME DemoInv, NEW v \in Nat, GuardedMint(v)
  PROVE  /\ supply'[GuardedWBTC] = supply[GuardedWBTC] + v
         /\ supply[GuardedWBTC] \in Nat
         /\ supply[GuardedWBTC] + v <= SatsOf(FreshReserve)
<1>1. /\ GuardedWBTC \in Tokens /\ supply \in [Tokens -> Nat] /\ token = GuardedWBTC
  BY SolvencyAssumption DEF DemoInv, WorldInv, LayerInv, SolvencyTypeOK
<1>2. supply[GuardedWBTC] + v <= SatsOf(FreshReserve)
  BY <1>1, ReserveIsFresh DEF GuardedMint, CheckMint, DemoInv, WorldInv, LoopSumsFresh
<1>3. QED
  BY <1>1, <1>2 DEF GuardedMint, AddSupply

\* In beat 5 a satoshi is minted only if a declared output has been proven
\* within the narrowed window.
THEOREM StaleMintRestsOnFreshProof == DemoSpec => StaleMintNeedsFreshProof
<1>1. ASSUME DemoInv, [DemoNext]_demoVars, phase = "stale", supply' # supply
      PROVE  \E o \in Declared : facts[o].proven /\ facts[o].provenAt + ShortWindow >= now
  <2>1. supply[GuardedWBTC] \in Nat /\ supply[GuardedWBTC] + 1 <= SatsOf(FreshReserve)
    BY <1>1, WhoMovesSupply, MintIsCovered
  <2>2. FreshReserve # {}
    BY <2>1, SumEmpty DEF SatsOf
  <2>3. maxFactAge = ShortWindow /\ ShortWindow # 0
    BY <1>1 DEF DemoInv, RunKnows, ShortWindow
  <2>4. QED
    BY <2>2, <2>3 DEF FreshReserve
<1>2. DemoInv /\ [DemoNext]_demoVars =>
        [(phase = "stale" /\ supply' # supply) =>
           \E o \in Declared : facts[o].proven /\ facts[o].provenAt + ShortWindow >= now]_demoVars
  BY <1>1
<1>3. QED
  BY <1>2, DemoAlways, PTL DEF DemoSpec, StaleMintNeedsFreshProof

\* Beat 3 mints nothing, where the factor exceeds what all outputs are worth
\* in terms of the least of them that is worth anything.
THEOREM AttackAlwaysRefused ==
  (\A o \in Outpoints : Sats[o] # 0 => AttackFactor * Sats[o] > SatsOf(Outpoints))
    => (DemoSpec => AttackIsRefused)
<1> SUFFICES ASSUME \A o \in Outpoints :
                      Sats[o] # 0 => AttackFactor * Sats[o] > SatsOf(Outpoints)
             PROVE  DemoSpec => AttackIsRefused
  OBVIOUS
<1>1. ASSUME DemoInv, GuardedMint(AttackFactor * before), phase = "attack"
      PROVE  FALSE
  <2>1. PICK o \in Outpoints : Sats[o] # 0 /\ Sats[o] <= before
    BY <1>1 DEF DemoInv, RunKnows
  <2>2. Sats[o] \in Nat /\ before \in Nat /\ AttackFactor \in Nat
    BY <1>1, SolvencyAssumption, DemoAssumption DEF DemoInv, RunTypes
  <2>3. AttackFactor * Sats[o] <= AttackFactor * before /\ AttackFactor * before \in Nat
    BY <2>1, <2>2
  <2>4. /\ supply[GuardedWBTC] \in Nat
        /\ supply[GuardedWBTC] + AttackFactor * before <= SatsOf(FreshReserve)
    BY <1>1, <2>3, MintIsCovered
  <2>5. FreshReserve \in SUBSET Outpoints
    BY <1>1, BackingFacts DEF DemoInv, WorldInv
  <2>6. /\ SatsOf(FreshReserve) \in Nat /\ SatsOf(Outpoints) \in Nat
        /\ SatsOf(FreshReserve) <= SatsOf(Outpoints)
    BY <2>5, SatsMonotone
  <2>7. AttackFactor * Sats[o] > SatsOf(Outpoints) /\ AttackFactor * Sats[o] \in Nat
    BY <2>1, <2>2
  <2>8. QED
    BY <2>3, <2>4, <2>6, <2>7
<1>2. DemoInv /\ [DemoNext]_demoVars =>
        [phase = "attack" => supply'[GuardedWBTC] = supply[GuardedWBTC]]_demoVars
  BY <1>1, WhoMovesSupply
<1>3. QED
  BY <1>2, DemoAlways, PTL DEF DemoSpec, AttackIsRefused

\* The first mint over fresh contracts is refused only if what the run has read
\* as the reserve is no longer fresh.
THEOREM FirstMintIsNotRefused == DemoSpec => FirstBackedMintSucceeds
<1>1. ASSUME DemoInv, [DemoNext]_demoVars,
             phase = "mint", phase' = "failed", stops' = stops
      PROVE  ~Mintable(before \div ShareDivisor)
  <2>1. stops \in Nat /\ stops + 1 # stops
    BY <1>1, DemoAssumption DEF DemoInv, RunTypes
  <2>2. ~Stops
    BY <1>1, <2>1 DEF Stops
  <2>3. CASE DemoStep
    BY <1>1, <2>2, <2>3 DEF DemoStep, ListFacts, CountReserves, ReadSolvency, MintHonest,
       MintAttack, MintNaive, NarrowWindow, MintStale, RestoreWindow, Throws, DeployContracts,
       WireToken, WriteDeployment, DeclareNext, Answered, GoTo
  <2>4. CASE ~DemoStep
    BY <1>1, <2>4 DEF DemoNext, StartDemo, StartDeployGuard, DeployVerifier, Ages, ProveAgain,
       Ended, demoVars, runVars
  <2>5. QED
    BY <2>3, <2>4
<1>2. ASSUME DemoInv, ~Mintable(before \div ShareDivisor), supply[GuardedWBTC] = 0
      PROVE  SatsOf(FreshReserve) < before
  <2> DEFINE share == before \div ShareDivisor
  <2>1. share \in Nat /\ share <= before /\ before \in Nat /\ before <= SatsOf(Outpoints)
    BY <1>2, AmountsAsked DEF DemoInv, RunTypes, RunKnows
  <2>2. SatsOf(Outpoints) \in Nat /\ SatsOf(Outpoints) <= MaxUint /\ MaxUint \in Nat
    BY SatsMonotone, DemoAssumption, SolvencyAssumption
  <2>3. /\ token = GuardedWBTC /\ token # NoToken
        /\ ProvenReserves(facts, now).totalSats = SatsOf(FreshReserve)
        /\ SatsOf(FreshReserve) \in Nat
    BY <1>2, ReserveIsFresh, SolvencyAssumption, GuardAssumption
       DEF DemoInv, WorldInv, LoopSumsFresh
  <2> HIDE DEF share
  <2>4. supply[GuardedWBTC] + share <= MaxUint
    BY <1>2, <2>1, <2>2
  <2>5. ~(supply[GuardedWBTC] + share <= SatsOf(FreshReserve))
    BY <1>2, <2>3, <2>4 DEF Mintable, CheckMint, share
  <2>6. QED
    BY <1>2, <2>1, <2>3, <2>5
<1>3. DemoInv /\ [DemoNext]_demoVars =>
        [(phase = "mint" /\ phase' = "failed" /\ stops' = stops /\ supply[GuardedWBTC] = 0)
           => SatsOf(FreshReserve) < before]_demoVars
  BY <1>1, <1>2
<1>4. QED
  BY <1>3, DemoAlways, PTL DEF DemoSpec, FirstBackedMintSucceeds

\* A run that reports a reserve of zero is right to blame the age of the proofs,
\* where no output is worth nothing and script and guard read one verifier.
THEOREM ZeroAlwaysMeansStale ==
  (\A o \in Outpoints : Sats[o] # 0) => (DemoSpec => ZeroReserveMeansStale)
<1> SUFFICES ASSUME \A o \in Outpoints : Sats[o] # 0
             PROVE  DemoSpec => ZeroReserveMeansStale
  OBVIOUS
<1>1. ASSUME DemoInv, [DemoNext]_demoVars, phase = "solvency", phase' = "zero"
      PROVE  ReservesPrinted = 0
  <2>1. CASE DemoStep
    BY <1>1, <2>1 DEF DemoStep, ListFacts, CountReserves, ReadSolvency, MintHonest, MintAttack,
       MintNaive, NarrowWindow, MintStale, RestoreWindow, Throws, Stops, DeployContracts,
       WireToken, WriteDeployment, DeclareNext, GoTo
  <2>2. CASE ~DemoStep
    BY <1>1, <2>2 DEF DemoNext, StartDemo, StartDeployGuard, DeployVerifier, Ages, ProveAgain,
       Ended, demoVars, runVars
  <2>3. QED
    BY <2>1, <2>2
<1>2. ASSUME DemoInv, ReservesPrinted = 0 PROVE FreshReserve = {}
  <2>1. /\ ReservesPrinted = SatsOf(FreshReserve)
        /\ FreshReserve \in SUBSET Outpoints /\ IsFiniteSet(FreshReserve)
    BY <1>2, SomeOutput, BackingFacts, OutpointsFinite DEF DemoInv, WorldInv
  <2>2. \A o \in FreshReserve : Sats[o] \in Nat /\ Sats[o] # 0
    BY <2>1, SolvencyAssumption
  <2>3. ASSUME NEW o \in FreshReserve PROVE FALSE
    <3>1. Sats[o] <= SatsOf(FreshReserve)
      BY <2>1, <2>2, SumBoundsElement DEF SatsOf
    <3>2. QED
      BY <1>2, <2>1, <2>2, <3>1
  <2>4. QED
    BY <2>3
<1>3. ASSUME DemoInv, FreshReserve = {}, phase = "solvency", shared
      PROVE  /\ Declared # {}
             /\ \A o \in Declared : facts[o].proven /\ facts[o].provenAt + maxFactAge < now
  <2>1. Declared # {} /\ Declared \subseteq Outpoints /\ \A o \in Declared : facts[o].proven
    BY <1>3, ReserveIsFresh DEF DemoInv, RunKnows, WorldInv, LoopSumsFresh
  <2>2. ASSUME NEW o \in Declared PROVE facts[o].provenAt + maxFactAge < now
    <3>1. /\ facts[o].provenAt \in Nat /\ maxFactAge \in Nat /\ now \in Nat
      BY <1>3, <2>1, SolvencyAssumption, GuardAssumption
         DEF DemoInv, WorldInv, LayerInv, SolvencyTypeOK, GuardTypeOK, Feed!Fact
    <3>2. ~(facts[o].provenAt + maxFactAge >= now)
      BY <1>3, <2>1 DEF FreshReserve
    <3>3. QED
      BY <3>1, <3>2
  <2>3. QED
    BY <2>1, <2>2
<1>4. DemoInv /\ [DemoNext]_demoVars =>
        [(phase = "solvency" /\ phase' = "zero" /\ shared) =>
           /\ Declared # {}
           /\ \A o \in Declared : facts[o].proven /\ facts[o].provenAt + maxFactAge < now]_demoVars
  BY <1>1, <1>2, <1>3
<1>5. QED
  BY <1>4, DemoAlways, PTL DEF DemoSpec, ZeroReserveMeansStale

\* The operator who only proves and runs again is one of those above: all of
\* this holds of RerunSpec too.
THEOREM RerunIsDemo == RerunSpec => DemoSpec
<1>1. [RerunNext]_demoVars => [DemoNext]_demoVars
  BY DEF RerunNext, DemoNext
<1>2. QED
  BY <1>1, PTL DEF RerunSpec, DemoSpec

=============================================================================

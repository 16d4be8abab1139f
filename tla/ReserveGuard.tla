---------------------------- MODULE ReserveGuard ----------------------------
(***************************************************************************)
(* contracts/asc/ReserveGuard.sol: the registry of reserve outpoints an    *)
(* issuer declares, the freshness window, and the view functions that      *)
(* decide whether a mint keeps the supply within the proven reserve.       *)
(*                                                                         *)
(* A call that reverts changes nothing, so a revert is a guard that does   *)
(* not hold.  _key(txid, index) is a keccak256 hash used only as a map     *)
(* key; an outpoint stands for its own key.  Events are not state.         *)
(***************************************************************************)
EXTENDS Integers, Sequences, BitcoinOutputs

CONSTANTS
  Tokens,     \* token contracts setToken may be given
  NoToken,    \* address(0): no token has been set
  Windows     \* values of maxFactAge the issuer uses; 0 disables the window

ASSUME GuardAssumption ==
  /\ NoToken \notin Tokens
  /\ Windows \subseteq Nat

VARIABLES
  token,        \* the token whose supply is constrained
  maxFactAge,   \* seconds after which a proven fact stops counting
  reserves,     \* _reserves: the declared outpoints, in an array
  slotPlusOne   \* _slotPlusOne: outpoint -> its place in the array, or 0

registryVars == <<reserves, slotPlusOne>>
guardVars    == <<token, maxFactAge, reserves, slotPlusOne>>

GuardTypeOK ==
  /\ token \in Tokens \cup {NoToken}
  /\ maxFactAge \in Windows
  /\ reserves \in Seq(Outpoints)
  /\ slotPlusOne \in [Outpoints -> Nat]

GuardInit ==
  /\ token = NoToken
  /\ maxFactAge \in Windows
  /\ reserves = << >>
  /\ slotPlusOne = [o \in Outpoints |-> 0]

-----------------------------------------------------------------------------
(* The issuer's operations.                                                *)

\* setToken: once, and never to the zero address.
SetToken(t) ==
  /\ token = NoToken
  /\ t # NoToken
  /\ token' = t
  /\ UNCHANGED <<maxFactAge, reserves, slotPlusOne>>

\* Variant: the window kept in milliseconds.
SetMaxFactAgeMillis(w) ==
  /\ maxFactAge' = 1000 * w
  /\ UNCHANGED <<token, reserves, slotPlusOne>>

SetMaxFactAge(w) ==
  /\ maxFactAge' = w
  /\ UNCHANGED <<token, reserves, slotPlusOne>>

\* Variant: no AlreadyDeclared check.
DeclareReserveTwice(o) ==
  /\ reserves' = Append(reserves, o)
  /\ slotPlusOne' = [slotPlusOne EXCEPT ![o] = Len(reserves) + 1]
  /\ UNCHANGED <<token, maxFactAge>>

DeclareReserve(o) ==
  /\ slotPlusOne[o] = 0
  /\ reserves' = Append(reserves, o)
  /\ slotPlusOne' = [slotPlusOne EXCEPT ![o] = Len(reserves) + 1]
  /\ UNCHANGED <<token, maxFactAge>>

\* Variant: pop without the swap.
PopOnly(i) == SubSeq(reserves, 1, Len(reserves) - 1)

\* The array after the last outpoint has moved into slot i and been popped.
SwapAndPop(i) ==
  LET last == Len(reserves)
  IN  [j \in 1 .. (last - 1) |-> IF j = i THEN reserves[last] ELSE reserves[j]]

\* Variant: the removed outpoint's slot is cleared first.
RemoveReserveClearFirst(o) ==
  LET i     == slotPlusOne[o]
      moved == reserves[Len(reserves)]
  IN  /\ i # 0
      /\ reserves' = SwapAndPop(i)
      /\ slotPlusOne' = [[slotPlusOne EXCEPT ![o] = 0] EXCEPT ![moved] = i]
      /\ UNCHANGED <<token, maxFactAge>>

\* The slot of the moved outpoint is rewritten first and that of the removed
\* one is cleared last, as in the code: when they are the same outpoint the
\* clearing wins.
RemoveReserve(o) ==
  LET i     == slotPlusOne[o]
      moved == reserves[Len(reserves)]
  IN  /\ i # 0
      /\ reserves' = SwapAndPop(i)
      /\ slotPlusOne' = [[slotPlusOne EXCEPT ![moved] = i] EXCEPT ![o] = 0]
      /\ UNCHANGED <<token, maxFactAge>>

GuardNext ==
  \/ \E t \in Tokens : SetToken(t)
  \/ \E w \in Windows : SetMaxFactAge(w)
  \/ \E o \in Outpoints : DeclareReserve(o) \/ RemoveReserve(o)

GuardSpec == GuardInit /\ [][GuardNext]_guardVars

-----------------------------------------------------------------------------
(* The view functions.  `facts` is what the verifier answers for every     *)
(* outpoint (getProvenValue) and `ts` the timestamp of the calling block.  *)

\* A fact past the window is ignored; one whose timestamp lies in the future
\* of the calling block is not aged at all.
AgedOut(fact, ts) ==
  /\ maxFactAge # 0
  /\ ts > fact.provenAt
  /\ ts - fact.provenAt > maxFactAge

Counts(fact, ts) == fact.proven /\ ~AgedOut(fact, ts)

\* The loop of provenReserves over the array, one element at a time.
ProvenReserves(facts, ts) ==
  LET sum[i \in 0 .. Len(reserves)] ==
        IF i = 0
          THEN [totalSats |-> 0, counted |-> 0, stale |-> 0]
          ELSE LET fact == facts[reserves[i]]
                   acc  == sum[i - 1]
               IN  IF Counts(fact, ts)
                     THEN [acc EXCEPT !.totalSats = @ + fact.value,
                                      !.counted = @ + 1]
                     ELSE [acc EXCEPT !.stale = @ + 1]
  IN  sum[Len(reserves)]

\* Variant: the supply before the mint is compared.
CheckMintBefore(supply, amount, facts, ts) ==
  /\ token # NoToken
  /\ supply[token] <= ProvenReserves(facts, ts).totalSats

\* Variant: a guard that is not wired to a token lets every mint pass.
CheckMintUnwired(supply, amount, facts, ts) ==
  token # NoToken => supply[token] + amount <= ProvenReserves(facts, ts).totalSats

\* checkMint does not revert.
CheckMint(supply, amount, facts, ts) ==
  /\ token # NoToken
  /\ supply[token] + amount <= ProvenReserves(facts, ts).totalSats

\* solvency(): the figures a dashboard reads in one call.
Solvency(supply, facts, ts) ==
  LET r       == ProvenReserves(facts, ts)
      wrapped == IF token = NoToken THEN 0 ELSE supply[token]
  IN  [provenReserveSats |-> r.totalSats,
       wrappedSupply     |-> wrapped,
       countedOutpoints  |-> r.counted,
       staleOutpoints    |-> r.stale,
       solvent           |-> wrapped <= r.totalSats]

-----------------------------------------------------------------------------
(* Correctness.                                                            *)

Declared == {reserves[i] : i \in 1 .. Len(reserves)}

\* The array and the map of slots are two views of one set: every outpoint
\* sits in the array at most once, exactly where its slot says, and an
\* outpoint whose slot is 0 is not in the array.  The swap-with-last of
\* removeReserve is what could break it; provenReserves counts an outpoint
\* twice, or removeReserve evicts the wrong one, once it is broken.
SlotsMirrorArray ==
  /\ \A o \in Outpoints : slotPlusOne[o] # 0 =>
       /\ slotPlusOne[o] \in 1 .. Len(reserves)
       /\ reserves[slotPlusOne[o]] = o
  /\ \A i \in 1 .. Len(reserves) : slotPlusOne[reserves[i]] = i

HasSlot == {o \in Outpoints : slotPlusOne[o] # 0}

\* The slots, which decide whether a call is accepted, and the array, which
\* provenReserves sums over, implement one set: each call adds to both or
\* removes from both exactly the outpoint it names.
Registry == INSTANCE ReserveSet WITH declared <- HasSlot, counted <- Declared
ImplementsReserveSet == Registry!Spec

=============================================================================

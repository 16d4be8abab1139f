-------------------------- MODULE WrappedBTCProofs --------------------------
(***************************************************************************)
(* Theorems about WrappedBTC, for any accounts and any width of uint: no   *)
(* operation leaves the range of a uint, the balances add up to the total  *)
(* supply, and no spender moves more than it was granted.                  *)
(***************************************************************************)
EXTENDS MCWrappedBTC, FiniteSums

\* What holds of one owner and one spender: under a finite allowance, what is
\* spent and what is left were granted.  An unlimited allowance hides what is
\* left, so what is spent must be known to be granted by itself.
GrantInv ==
  /\ LedgerTypeOK
  /\ granted \in Nat /\ spent \in Nat
  /\ spent <= granted
  /\ SpendingIsGranted

LEMMA UintFacts ==
  /\ MaxUint \in Nat /\ 0 \in Uint
  /\ \A n \in Uint : n \in Nat /\ n <= MaxUint
  /\ \A m, n \in Uint : m <= n => n - m \in Uint
  /\ \A m, n \in Uint : m + n <= MaxUint => m + n \in Uint
BY LedgerAssumption DEF Uint

\* A balance is debited before it is credited, also when both are the same.
LEMMA MoveFacts ==
  ASSUME LedgerTypeOK, NEW from \in Accounts, NEW to \in Accounts, NEW value \in Uint,
         Move(from, to, value)
  PROVE  balanceOf' \in [Accounts -> Uint]
<1> DEFINE debited == [balanceOf EXCEPT ![from] = @ - value]
<1>1. balanceOf[from] \in Uint /\ value <= balanceOf[from]
  BY UintFacts DEF LedgerTypeOK, Move
<1>2. balanceOf[from] - value \in Uint
  BY <1>1, UintFacts
<1>3. debited \in [Accounts -> Uint]
  BY <1>2 DEF LedgerTypeOK
<1>4. debited[to] + value <= MaxUint /\ balanceOf' = [debited EXCEPT ![to] = @ + value]
  BY DEF Move
<1> HIDE DEF debited
<1>5. debited[to] \in Uint
  BY <1>3
<1>6. debited[to] + value \in Uint
  BY <1>4, <1>5, UintFacts
<1>7. QED
  BY <1>3, <1>4, <1>6

LEMMA MintFacts ==
  ASSUME LedgerTypeOK, NEW to \in Accounts, NEW value \in Uint, MintTo(to, value)
  PROVE  LedgerTypeOK' /\ allowance' = allowance
<1>1. totalSupply \in Uint /\ balanceOf[to] \in Uint
  BY DEF LedgerTypeOK
<1>2. totalSupply + value \in Uint /\ balanceOf[to] + value \in Uint
  BY <1>1, UintFacts DEF MintTo
<1>3. QED
  BY <1>2 DEF LedgerTypeOK, MintTo

LEMMA BurnFacts ==
  ASSUME LedgerTypeOK, NEW caller \in Accounts, NEW value \in Uint, Burn(caller, value)
  PROVE  LedgerTypeOK' /\ allowance' = allowance
<1>1. totalSupply \in Uint /\ balanceOf[caller] \in Uint
      /\ value <= totalSupply /\ value <= balanceOf[caller]
  BY UintFacts DEF LedgerTypeOK, Burn
<1>2. totalSupply - value \in Uint /\ balanceOf[caller] - value \in Uint
  BY <1>1, UintFacts
<1>3. QED
  BY <1>2 DEF LedgerTypeOK, Burn

LEMMA ApproveFacts ==
  ASSUME LedgerTypeOK, NEW c \in Accounts, NEW s \in Accounts, NEW value \in Uint,
         Approve(c, s, value)
  PROVE  /\ LedgerTypeOK' /\ allowance'[c][s] = value
         /\ \A a, b \in Accounts : a # c \/ b # s => allowance'[a][b] = allowance[a][b]
BY DEF LedgerTypeOK, Approve

\* An allowance of MaxUint stays; any other is used up by what is moved.
LEMMA TransferFromFacts ==
  ASSUME LedgerTypeOK, NEW c \in Accounts, NEW from \in Accounts, NEW to \in Accounts,
         NEW value \in Uint, TransferFrom(c, from, to, value)
  PROVE  /\ LedgerTypeOK'
         /\ allowance[from][c] = MaxUint => allowance' = allowance
         /\ allowance[from][c] # MaxUint =>
              /\ value <= allowance[from][c]
              /\ allowance'[from][c] = allowance[from][c] - value
         /\ \A a, b \in Accounts : a # from \/ b # c => allowance'[a][b] = allowance[a][b]
<1>1. balanceOf' \in [Accounts -> Uint] /\ totalSupply' = totalSupply
  BY MoveFacts DEF TransferFrom
<1>2. /\ allowance[from][c] \in Uint /\ value <= allowance[from][c]
      /\ allowance' = IF allowance[from][c] = MaxUint
                        THEN allowance
                        ELSE [allowance EXCEPT ![from][c] = allowance[from][c] - value]
      /\ allowance \in [Accounts -> [Accounts -> Uint]]
  BY UintFacts DEF LedgerTypeOK, TransferFrom
<1>3. allowance[from][c] - value \in Uint
  BY <1>2, UintFacts
<1>4. allowance' \in [Accounts -> [Accounts -> Uint]]
  BY <1>2, <1>3
<1>5. QED
  BY <1>1, <1>2, <1>4 DEF LedgerTypeOK

\* Every operation of the token.
LEMMA LedgerStep ==
  ASSUME LedgerTypeOK, [LedgerNext]_ledgerVars
  PROVE  LedgerTypeOK'
<1>1. ASSUME NEW c \in Accounts, NEW a \in Accounts, NEW v \in Uint, Transfer(c, a, v)
      PROVE  LedgerTypeOK'
  BY <1>1, MoveFacts DEF Transfer, LedgerTypeOK
<1>2. CASE UNCHANGED ledgerVars
  BY <1>2 DEF ledgerVars, LedgerTypeOK
<1>3. QED
  BY <1>1, <1>2, ApproveFacts, TransferFromFacts, BurnFacts, MintFacts
     DEF LedgerNext, NaiveMint

\* No balance, allowance or supply ever leaves the range of a uint: no
\* operation underflows or wraps.
THEOREM LedgerTypeCorrect == NaiveSpec => []LedgerTypeOK
<1>1. LedgerInit => LedgerTypeOK
  BY UintFacts DEF LedgerInit, LedgerTypeOK
<1>2. LedgerTypeOK /\ [LedgerNext]_ledgerVars => LedgerTypeOK'
  BY LedgerStep
<1>3. QED
  BY <1>1, <1>2, PTL DEF NaiveSpec

-----------------------------------------------------------------------------

\* When one balance is changed, the sum of all changes by as much.
LEMMA BooksFacts ==
  ASSUME NEW f \in [Accounts -> Nat], NEW g \in [Accounts -> Nat], NEW a \in Accounts,
         \A b \in Accounts \ {a} : g[b] = f[b]
  PROVE  /\ SumFunctionOnSet(f, Accounts) \in Nat
         /\ SumFunctionOnSet(g, Accounts) = SumFunctionOnSet(f, Accounts) - f[a] + g[a]
BY LedgerAssumption, SumType, SumUpdated

\* A transfer moves units and makes none, a transfer to oneself included.
LEMMA MoveKeepsSum ==
  ASSUME LedgerTypeOK, NEW from \in Accounts, NEW to \in Accounts, NEW value \in Uint,
         Move(from, to, value)
  PROVE  SumFunctionOnSet(balanceOf', Accounts) = SumFunctionOnSet(balanceOf, Accounts)
<1> DEFINE debited == [balanceOf EXCEPT ![from] = @ - value]
           Sum(f) == SumFunctionOnSet(f, Accounts)
<1>1. balanceOf \in [Accounts -> Nat] /\ value \in Nat /\ value <= balanceOf[from]
  BY UintFacts DEF LedgerTypeOK, Move
<1>2. /\ debited \in [Accounts -> Nat] /\ debited[from] = balanceOf[from] - value
      /\ \A b \in Accounts \ {from} : debited[b] = balanceOf[b]
  BY <1>1
<1>3. balanceOf' = [debited EXCEPT ![to] = @ + value]
  BY DEF Move
<1> HIDE DEF debited
<1>4. /\ balanceOf' \in [Accounts -> Nat] /\ balanceOf'[to] = debited[to] + value
      /\ \A b \in Accounts \ {to} : balanceOf'[b] = debited[b]
  BY <1>1, <1>2, <1>3
<1>5. /\ Sum(balanceOf) \in Nat /\ Sum(debited) \in Nat
      /\ Sum(debited) = Sum(balanceOf) - balanceOf[from] + debited[from]
      /\ Sum(balanceOf') = Sum(debited) - debited[to] + balanceOf'[to]
  BY <1>1, <1>2, <1>4, BooksFacts
<1>6. balanceOf[from] \in Nat /\ debited[to] \in Nat
  BY <1>1, <1>2
<1> HIDE DEF Sum
<1>7. Sum(balanceOf') = Sum(balanceOf)
  BY <1>1, <1>2, <1>4, <1>5, <1>6
<1>8. QED
  BY <1>7 DEF Sum

\* Minting and burning change one balance and the supply by the same value.
LEMMA SupplyStep ==
  ASSUME LedgerTypeOK, SupplyIsSumOfBalances, [LedgerNext]_ledgerVars
  PROVE  SupplyIsSumOfBalances'
<1> USE DEF SupplyIsSumOfBalances
<1>1. balanceOf \in [Accounts -> Nat] /\ Uint \subseteq Nat
  BY UintFacts DEF LedgerTypeOK
<1>2. ASSUME NEW c \in Accounts, NEW a \in Accounts, NEW v \in Uint, Transfer(c, a, v)
      PROVE  SupplyIsSumOfBalances'
  BY <1>2, MoveKeepsSum DEF Transfer
<1>3. ASSUME NEW c \in Accounts, NEW a \in Accounts, NEW v \in Uint,
             NEW from \in Accounts, TransferFrom(c, from, a, v)
      PROVE  SupplyIsSumOfBalances'
  BY <1>3, MoveKeepsSum DEF TransferFrom
<1>4. ASSUME NEW c \in Accounts, NEW v \in Uint, Burn(c, v)
      PROVE  SupplyIsSumOfBalances'
  <2>1. /\ v <= balanceOf[c] /\ totalSupply' = totalSupply - v
        /\ balanceOf' = [balanceOf EXCEPT ![c] = @ - v]
    BY <1>4 DEF Burn
  <2>2. /\ balanceOf' \in [Accounts -> Nat] /\ balanceOf'[c] = balanceOf[c] - v
        /\ \A b \in Accounts \ {c} : balanceOf'[b] = balanceOf[b]
    BY <1>1, <2>1
  <2>3. totalSupply \in Nat /\ SumFunctionOnSet(balanceOf', Accounts) = totalSupply - v
    BY <1>1, <2>2, BooksFacts
  <2>4. QED
    BY <2>1, <2>3
<1>5. ASSUME NEW c \in Accounts, NEW a \in Accounts, NEW v \in Uint, NaiveMint(c, a, v)
      PROVE  SupplyIsSumOfBalances'
  <2>1. totalSupply' = totalSupply + v /\ balanceOf' = [balanceOf EXCEPT ![a] = @ + v]
    BY <1>5 DEF NaiveMint, MintTo
  <2>2. /\ balanceOf' \in [Accounts -> Nat] /\ balanceOf'[a] = balanceOf[a] + v
        /\ \A b \in Accounts \ {a} : balanceOf'[b] = balanceOf[b]
    BY <1>1, <2>1
  <2>3. totalSupply \in Nat /\ SumFunctionOnSet(balanceOf', Accounts) = totalSupply + v
    BY <1>1, <2>2, BooksFacts
  <2>4. QED
    BY <2>1, <2>3
<1>6. ASSUME NEW c \in Accounts, NEW a \in Accounts, NEW v \in Uint, Approve(c, a, v)
      PROVE  SupplyIsSumOfBalances'
  BY <1>6 DEF Approve
<1>7. CASE UNCHANGED ledgerVars
  BY <1>7 DEF ledgerVars
<1>8. QED
  BY <1>2, <1>3, <1>4, <1>5, <1>6, <1>7 DEF LedgerNext

LEMMA InitiallyNoUnits == LedgerInit => SupplyIsSumOfBalances
<1> SUFFICES ASSUME LedgerInit PROVE SupplyIsSumOfBalances
  OBVIOUS
<1>1. \A a \in Accounts : balanceOf[a] = 0
  BY DEF LedgerInit
<1>2. SumFunctionOnSet(balanceOf, Accounts) = 0
  BY <1>1, LedgerAssumption, SumOfZeros
<1>3. QED
  BY <1>2 DEF LedgerInit, SupplyIsSumOfBalances

\* Through any sequence of mints, burns and transfers, no unit appears or
\* vanishes off the books: the balances add up to the total supply.
THEOREM SupplyIsAlwaysSumOfBalances == NaiveSpec => []SupplyIsSumOfBalances
<1>1. LedgerTypeOK /\ SupplyIsSumOfBalances /\ [LedgerNext]_ledgerVars
        => SupplyIsSumOfBalances'
  BY SupplyStep
<1>2. QED
  BY <1>1, LedgerTypeCorrect, InitiallyNoUnits, PTL DEF NaiveSpec

-----------------------------------------------------------------------------

LEMMA GrantStep ==
  ASSUME GrantInv, [MCNext]_mcVars
  PROVE  GrantInv'
<1> USE DEF GrantInv
<1> DEFINE left == allowance[Owner][Spender]
<1>1. left \in Nat /\ left <= MaxUint /\ MaxUint \in Nat
  BY GrantAssumption, UintFacts DEF LedgerTypeOK
<1>2. ASSUME NEW c \in Accounts, NEW a \in Accounts, NEW v \in Uint,
             Transfer(c, a, v) \/ Burn(c, v) \/ NaiveMint(c, a, v),
             UNCHANGED <<granted, spent>>
      PROVE  GrantInv'
  <2>1. LedgerTypeOK'
    BY <1>2, LedgerStep DEF LedgerNext
  <2>2. allowance' = allowance
    BY <1>2 DEF Transfer, Burn, NaiveMint, MintTo
  <2>3. QED
    BY <1>2, <2>1, <2>2 DEF SpendingIsGranted
<1>3. ASSUME NEW c \in Accounts, NEW a \in Accounts, NEW v \in Uint, Approve(c, a, v),
             granted' = granted + GrantsTo(c, a, v), spent' = spent
      PROVE  GrantInv'
  <2>1. /\ LedgerTypeOK' /\ allowance'[c][a] = v /\ v \in Nat
        /\ \A x, y \in Accounts : x # c \/ y # a => allowance'[x][y] = allowance[x][y]
    BY <1>3, ApproveFacts, UintFacts
  <2>2. CASE c = Owner /\ a = Spender
    <3>1. granted' = granted + v /\ allowance'[Owner][Spender] = v
      BY <1>3, <2>1, <2>2 DEF GrantsTo
    <3>2. QED
      BY <1>3, <2>1, <3>1 DEF SpendingIsGranted
  <2>3. CASE ~(c = Owner /\ a = Spender)
    <3>1. granted' = granted /\ allowance'[Owner][Spender] = left
      BY <1>3, <2>1, <2>3, GrantAssumption DEF GrantsTo
    <3>2. QED
      BY <1>3, <2>1, <3>1 DEF SpendingIsGranted
  <2>4. QED
    BY <2>2, <2>3
<1>4. ASSUME NEW c \in Accounts, NEW a \in Accounts, NEW v \in Uint, NEW from \in Accounts,
             TransferFrom(c, from, a, v), allowance[from][c] < MaxUint, granted' = granted,
             spent' = spent + (IF from = Owner /\ c = Spender THEN v ELSE 0)
      PROVE  GrantInv'
  <2>1. /\ LedgerTypeOK' /\ v \in Nat /\ allowance[from][c] # MaxUint
        /\ v <= allowance[from][c] /\ allowance'[from][c] = allowance[from][c] - v
        /\ \A x, y \in Accounts : x # from \/ y # c => allowance'[x][y] = allowance[x][y]
    BY <1>1, <1>4, TransferFromFacts, UintFacts
  <2>2. CASE from = Owner /\ c = Spender
    <3>1. /\ spent' = spent + v /\ v <= left /\ left < MaxUint
          /\ allowance'[Owner][Spender] = left - v
      BY <1>4, <2>1, <2>2
    <3>2. spent + left <= granted
      BY <3>1 DEF SpendingIsGranted
    <3>3. QED
      BY <1>1, <1>4, <2>1, <3>1, <3>2 DEF SpendingIsGranted
  <2>3. CASE ~(from = Owner /\ c = Spender)
    <3>1. spent' = spent /\ allowance'[Owner][Spender] = left
      BY <1>4, <2>1, <2>3, GrantAssumption
    <3>2. QED
      BY <1>4, <2>1, <3>1 DEF SpendingIsGranted
  <2>4. QED
    BY <2>2, <2>3
<1>5. ASSUME NEW c \in Accounts, NEW a \in Accounts, NEW v \in Uint, NEW from \in Accounts,
             TransferFrom(c, from, a, v), allowance[from][c] = MaxUint,
             UNCHANGED <<granted, spent>>
      PROVE  GrantInv'
  <2>1. LedgerTypeOK' /\ allowance' = allowance
    BY <1>5, TransferFromFacts
  <2>2. QED
    BY <1>5, <2>1 DEF SpendingIsGranted
<1>6. CASE UNCHANGED mcVars
  BY <1>6 DEF mcVars, LedgerTypeOK, SpendingIsGranted
<1>7. QED
  BY <1>2, <1>3, <1>4, <1>5, <1>6 DEF MCNext

\* Through any sequence of approvals, raised, lowered or unlimited, and of
\* transfers, what a spender moved under finite allowances was granted.
THEOREM SpendingIsAlwaysGranted == MCSpec => []SpendingIsGranted
<1>1. MCInit => GrantInv
  BY GrantAssumption, UintFacts DEF MCInit, LedgerInit, GrantInv, LedgerTypeOK, SpendingIsGranted
<1>2. GrantInv /\ [MCNext]_mcVars => GrantInv'
  BY GrantStep
<1>3. GrantInv => SpendingIsGranted
  BY DEF GrantInv
<1>4. QED
  BY <1>1, <1>2, <1>3, PTL DEF MCSpec

=============================================================================

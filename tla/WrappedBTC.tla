----------------------------- MODULE WrappedBTC -----------------------------
(***************************************************************************)
(* contracts/asc/WrappedBTC.sol: the ledger of MiniERC20 and the unguarded *)
(* token NaiveWBTC built on it.  GuardedWBTC adds one call to the mint     *)
(* path; it is composed with the guard in SolvencyLayer.                   *)
(*                                                                         *)
(* Solidity 0.8 reverts on overflow, so an addition that would pass        *)
(* MaxUint is a guard that does not hold.  `caller` is msg.sender.         *)
(***************************************************************************)
EXTENDS Integers, FiniteSetsExt

CONSTANTS
  Accounts,  \* addresses that may hold or spend the token
  Issuer,    \* the address allowed to mint
  MaxUint    \* type(uint256).max; also the allowance that never runs out

ASSUME LedgerAssumption ==
  /\ Issuer \in Accounts
  /\ IsFiniteSet(Accounts)   \* there are 2^160 addresses
  /\ MaxUint \in Nat \ {0}

VARIABLES totalSupply, balanceOf, allowance

ledgerVars == <<totalSupply, balanceOf, allowance>>

Uint == 0 .. MaxUint

LedgerTypeOK ==
  /\ totalSupply \in Uint
  /\ balanceOf \in [Accounts -> Uint]
  /\ allowance \in [Accounts -> [Accounts -> Uint]]

LedgerInit ==
  /\ totalSupply = 0
  /\ balanceOf = [a \in Accounts |-> 0]
  /\ allowance = [a \in Accounts |-> [s \in Accounts |-> 0]]

-----------------------------------------------------------------------------

\* Variant: both balances are read before either is written.
MoveReadingFirst(from, to, value) ==
  /\ balanceOf[from] >= value
  /\ balanceOf[to] + value <= MaxUint
  /\ balanceOf' = [balanceOf EXCEPT ![from] = @ - value,
                                    ![to] = balanceOf[to] + value]

\* _move: debit, then credit the balance the debit left.
Move(from, to, value) ==
  LET debited == [balanceOf EXCEPT ![from] = @ - value]
  IN  /\ balanceOf[from] >= value
      /\ debited[to] + value <= MaxUint
      /\ balanceOf' = [debited EXCEPT ![to] = @ + value]

\* _mint
MintTo(to, value) ==
  /\ totalSupply + value <= MaxUint
  /\ balanceOf[to] + value <= MaxUint
  /\ totalSupply' = totalSupply + value
  /\ balanceOf' = [balanceOf EXCEPT ![to] = @ + value]
  /\ UNCHANGED allowance

Transfer(caller, to, value) ==
  /\ Move(caller, to, value)
  /\ UNCHANGED <<totalSupply, allowance>>

Approve(caller, spender, value) ==
  /\ allowance' = [allowance EXCEPT ![caller][spender] = value]
  /\ UNCHANGED <<totalSupply, balanceOf>>

\* Variant: the allowance is checked and not used up.
TransferFromKeeping(caller, from, to, value) ==
  /\ allowance[from][caller] >= value
  /\ Move(from, to, value)
  /\ UNCHANGED <<totalSupply, allowance>>

TransferFrom(caller, from, to, value) ==
  LET allowed == allowance[from][caller]
  IN  /\ allowed >= value
      /\ Move(from, to, value)
      /\ allowance' = IF allowed = MaxUint
                        THEN allowance
                        ELSE [allowance EXCEPT ![from][caller] = allowed - value]
      /\ UNCHANGED totalSupply

\* Variant: no balance check.
BurnUnchecked(caller, value) ==
  /\ balanceOf' = [balanceOf EXCEPT ![caller] = @ - value]
  /\ totalSupply >= value
  /\ totalSupply' = totalSupply - value
  /\ UNCHANGED allowance

Burn(caller, value) ==
  /\ balanceOf[caller] >= value
  /\ balanceOf' = [balanceOf EXCEPT ![caller] = @ - value]
  /\ totalSupply >= value
  /\ totalSupply' = totalSupply - value
  /\ UNCHANGED allowance

\* NaiveWBTC.mint: onlyIssuer, and nothing else.
NaiveMint(caller, to, value) ==
  /\ caller = Issuer
  /\ MintTo(to, value)

LedgerNext ==
  \E c, a \in Accounts, v \in Uint :
    \/ Transfer(c, a, v)
    \/ Approve(c, a, v)
    \/ \E from \in Accounts : TransferFrom(c, from, a, v)
    \/ Burn(c, v)
    \/ NaiveMint(c, a, v)

NaiveSpec == LedgerInit /\ [][LedgerNext]_ledgerVars

-----------------------------------------------------------------------------

\* No satoshi-sized unit appears or vanishes off the books: the balances add
\* up to totalSupply through every mint, burn and transfer, a transfer to
\* oneself and a mint at the top of the range included.
SupplyIsSumOfBalances ==
  totalSupply = SumFunctionOnSet(balanceOf, Accounts)

=============================================================================

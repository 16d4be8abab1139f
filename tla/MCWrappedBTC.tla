---------------------------- MODULE MCWrappedBTC ----------------------------
(***************************************************************************)
(* Model-checks WrappedBTC with two history variables for one owner and    *)
(* one spender: the sum of the allowances the owner granted and the sum    *)
(* the spender has moved by transferFrom.                                  *)
(***************************************************************************)
EXTENDS WrappedBTC

CONSTANTS Owner, Spender,
  MaxGranted   \* bound on the sum of the allowances granted

ASSUME GrantAssumption == {Owner, Spender} \subseteq Accounts

VARIABLES granted, spent

mcVars == <<totalSupply, balanceOf, allowance, granted, spent>>

MCInit == LedgerInit /\ granted = 0 /\ spent = 0

GrantsTo(c, s, v) == IF c = Owner /\ s = Spender THEN v ELSE 0

MCNext ==
  \E c, a \in Accounts, v \in Uint :
    \/ /\ Transfer(c, a, v) \/ Burn(c, v) \/ NaiveMint(c, a, v)
       /\ UNCHANGED <<granted, spent>>
    \/ /\ Approve(c, a, v)
       /\ granted + GrantsTo(c, a, v) <= MaxGranted
       /\ granted' = granted + GrantsTo(c, a, v)
       /\ UNCHANGED spent
    \/ \E from \in Accounts :
         /\ TransferFrom(c, from, a, v)
         /\ allowance[from][c] < MaxUint
         /\ spent' = spent + (IF from = Owner /\ c = Spender THEN v ELSE 0)
         /\ UNCHANGED granted
    \/ \E from \in Accounts :
         /\ TransferFrom(c, from, a, v)
         /\ allowance[from][c] = MaxUint
         /\ UNCHANGED <<granted, spent>>

MCSpec == MCInit /\ [][MCNext]_mcVars

\* Across any interleaving of approvals and spending, what a spender has moved
\* out of an owner's balance under finite allowances, plus what it may still
\* move, never exceeds what the owner granted.
SpendingIsGranted ==
  allowance[Owner][Spender] < MaxUint
    => spent + allowance[Owner][Spender] <= granted

=============================================================================

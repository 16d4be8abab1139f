\* uint256 shrunk to 0..3, so that minting reaches the top of the range and 3
\* is the allowance that never runs out; transfers to oneself are included.
SPECIFICATION MCSpec
CONSTANTS
  Accounts = {issuer, user}
  Issuer = issuer
  Owner = issuer
  Spender = user
  MaxUint = 3
  MaxGranted = 5
INVARIANTS
  LedgerTypeOK
  SupplyIsSumOfBalances
  SpendingIsGranted

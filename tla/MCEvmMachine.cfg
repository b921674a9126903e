CONSTANTS
  WordBits = 16
  StackLimit = 8
  RootAddress = 16
  BlockNumber = 300
  GasUnderflowPanics = FALSE
  BalancePanics = FALSE
  Programs <- MCPrograms
  RootPrograms <- MCRootPrograms
  GasLimits <- MCGasLimits
  Balance0 <- MCBalance0
  Code0 <- MCCode0
  BlockHashOf <- MCBlockHashOf
  Storage0 <- MCStorage0
  CreatedAddress <- MCCreatedAddress
  TxEnv <- MCTxEnv
  Sha3Of <- MCSha3Of

SPECIFICATION Spec

INVARIANT TypeOK
INVARIANT NoPanic
INVARIANT GasWithinLimit
INVARIANT MemoryPaid
INVARIANT BalanceConserved
PROPERTY ParentWorldKept
PROPERTY RootExits
PROPERTY CallStackRefined

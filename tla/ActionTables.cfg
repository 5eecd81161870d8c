\* Three actions are two ABIs of a contract with an action under the second, or
\* an ABI and a proposal that is made and closed, or made, undone and made again.
SPECIFICATION Spec
CONSTANTS
  Filter = {"setabi", "newaccount", "voteproducer", "propose", "cancel", "create"}
  Abis = {x, y}
  Voters = {v}
  Producers = {a, b}
  Proposals = {p, q}
  Requests = {r}
  Symbols = {A, B}
  MaxKeys = 2
  MaxSent = 3
  MaxLog = 5
  MaxContracts = 1
  MaxTroubles = 2
SYMMETRY Symmetry
INVARIANTS
  TypeOK
  CaughtUpMirrors
  CaughtUpHolds
  KeysHaveAccount
  DecodedAsExecuted
PROPERTY NoPhantomRows
CHECK_DEADLOCK FALSE

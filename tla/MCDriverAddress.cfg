\* address on every key of one to three bytes over four byte values.  The
\* caller goes on forever, so there is no deadlock to check for.
CONSTANTS
  Keys <- MCKeys
  Keccak256 <- MCKeccak
SPECIFICATION Spec
INVARIANT AddressMatchesReference

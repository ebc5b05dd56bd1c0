CONSTANTS
  Names = {a, b, c}
  Types = {"service", "timer"}
  Lists <- OneOrTwoBare
  MaxUnits = 3
  NoType = NoType
SYMMETRY Renamings
SPECIFICATION LoadSpec
INVARIANTS ExactlyCyclesRejected OrderRespectsDeps
CHECK_DEADLOCK FALSE

CONSTANTS
  Interface = {i1, i2}
  Result <- Refusals
  MaxFailures = 3
SPECIFICATION FairSpec
INVARIANTS GroupInv OneReply StartsOrFails
PROPERTIES EverySettled ShutdownCompletes
CHECK_DEADLOCK FALSE

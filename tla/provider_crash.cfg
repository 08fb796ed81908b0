SPECIFICATION ProvidersSpec
CONSTANTS
  Names = {n}
  Queries = {}
  MaxEdits = 3
  MaxChoices = 0
  MaxRestarts = 1
  None = None
INVARIANTS SavedWithItsKey
CHECK_DEADLOCK FALSE

CONSTANTS
  Capacity = 5
  Rate = 2
  Costs = {1, 3}
  MaxTime = 5
SPECIFICATION Spec
INVARIANTS RateBounded RefusedOnlyOverRate

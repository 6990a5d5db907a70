SPECIFICATION Spec
CONSTANTS
  NUMBER_OF_CUSTOMERS = 3
  NUMBER_OF_RESOURCES = 2
  Supplies <- SmallSupplies
  Demands <- SmallDemands
INVARIANTS ResourcesConserved AlwaysSafe TestIsExact

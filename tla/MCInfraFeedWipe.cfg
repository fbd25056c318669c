SPECIFICATION Spec
CONSTANTS
  Item = {1}
  MaxChanges = 0
  MaxFaults = 1
PROPERTIES FailureWipesNothing

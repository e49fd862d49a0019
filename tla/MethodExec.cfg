SPECIFICATION Spec
CONSTANTS
    Plans <- GoodPlans
    MaxInstructions = 6
INVARIANTS TypeOK Settled TempReleased
PROPERTIES InputsFrozen ExecuteCompletes ExecuteReturns ImplementsRun

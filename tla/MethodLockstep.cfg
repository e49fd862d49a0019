SPECIFICATION Spec
CONSTANTS
    Plans <- DeterministicPlans
    MaxInstructions = 12
INVARIANT Agree
PROPERTY StepReachesEnd
CHECK_DEADLOCK FALSE

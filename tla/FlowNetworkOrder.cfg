\* Flow nodes that are not declared in the order they depend on each other.
SPECIFICATION FlowSpec
CONSTANTS
    NodeIndices = {0, 1, 2}
    Inputs <- MCInputs
    Outputs <- MCOutputs
    ExternalInputs = {0}
    ExternalOutputs = {0, 1, 2, 3}
    Compositions <- MCCompositions
INVARIANTS
    RunsWhenReady
CHECK_DEADLOCK FALSE

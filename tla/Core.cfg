\* One agent, one message at a time, one planned event besides those at the
\* start and the end; two arrays; what the module gives the other components.
SPECIFICATION CoreSpec
CONSTANTS
    whole = whole
    box = box
    inside = inside
    crowd = crowd
    agent = agent
    model = model
    Nodes <- MCNodes
    Top = whole
    Components <- MCComponents
    Agents <- MCAgents
    Prototype <- MCPrototype
    Inner <- MCInner
    Inward <- MCInward
    Outward = {inside}
    FlowOutputs = {agent}
    Printing = {inside, crowd, model}
    MaxSends = 1
    MaxPlanned = 1
    MaxTime = 1
    Variables = {x, y}
    Places = {s, t}
    Arrays = {a, b}
SYMMETRY CoreSymmetry
INVARIANTS
    OpenWhileInProgress
    MessagesEndWithTheirEvent
    ErrorsAreReported
    LinesUnderTheirTime
    WiredAsDeclared
    ReadsAsSent
    ViewsExact
    QuantitiesExact
PROPERTIES
    NoEventAfterError
    WritesThroughOne

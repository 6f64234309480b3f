\* Zero durations, a clipped end time, time precisions of one and two ticks; and
\* what comes to an end, under the fairness of each part.
SPECIFICATION FairProgressSpec
CONSTANTS
    NodeIndices = {0, 1, 2}
    Inputs <- MCInputs
    Outputs <- MCOutputs
    ExternalInputs = {0}
    ExternalOutputs = {0, 1, 2, 3}
    Compositions <- MCCompositions
    Base = 2
    EpochScales = 4
    MaxScale = 3
    Unit = 0
    leaf_a = leaf_a
    leaf_b = leaf_b
    leaf_c = leaf_c
    leaf_d = leaf_d
    mid_node = mid_node
    top_node = top_node
    Root = Root
    Leaves = {leaf_a, leaf_b, leaf_c, leaf_d}
    Composites = {mid_node, top_node}
    Top = top_node
    Ports = {0, 1}
    Children <- MCChildren
    InwardLinks <- MCInwardLinks
    InnerLinks <- MCInnerLinks
    OutwardLinks <- MCOutwardLinks
    TimePrecision <- MCTimePrecision
    Durations <- MCDurations
    Emissions <- MCEmissions
    StartT <- MCStartT
    EndT = 4
    CanEndEarly = FALSE
    Source = Source
    Sink = Sink
    Booths = Booths
    None = None
    queue = queue
    kiosks = kiosks
    kiosk_a = kiosk_a
    kiosk_b = kiosk_b
    central = central
    desk_a = desk_a
    desk_b = desk_b
    lane_a = lane_a
    lane_b = lane_b
    booth_a = booth_a
    booth_b = booth_b
    Queues = {queue, desk_a, desk_b, lane_a, lane_b}
    Servers = {kiosk_a, kiosk_b, booth_a, booth_b}
    LaneQueues <- MCLanes
    Downstream <- MCDownstream
    Component <- MCComponent
    Agents <- MCAgents
    Capacity <- MCCapacity
    MaxItems = 3
    Orders <- MCDeclared
INVARIANTS
    EventsOnTime
    WhollyFinalized
    HierarchyInSync
    NoInternalError
    OutputsDrained
    ValuesFollowLinks
    CompletesIfWellWired
    StationsAgree
    ServedInTurn
PROPERTIES
    ElapsedAddsUp
    ImplementsDevs
    MessagesArrive
    ComesToAnEnd

SPECIFICATION Spec
CONSTANTS
    MaxDegree = 4
    BuildList = 6
    Growth = 2
    Nodes <- NodesC
    Points <- PointsC
    Batches <- BatchesC
    Layouts <- LayoutsC
    Writes <- WritesC
    NoVector = NoVector
    SearchList = 8
    ThresholdNum = 1
    ThresholdDen = 2
INVARIANTS
    SlotsAgree
    SearchExact
CHECK_DEADLOCK FALSE

CONSTANTS
    Null = Null
    Empty = Empty
    Failed = Failed
    None = None
    string_to_label_id <- Hash
    Sessions = {s1, s2}
    Statements <- StatementsC
    GraphNames = {"g", "h"}
    MaxStatements = 5
    Buffer = 2
    Dumps <- DumpsC
SPECIFICATION Spec
INVARIANTS
    IndexesAgree
    EndpointsDeclared
PROPERTIES
    CopiesIsomorphic
    GraphsNotLost
CHECK_DEADLOCK FALSE
SYMMETRY Symmetry

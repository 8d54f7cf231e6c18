CONSTANTS Rules <- Grammar
          Cases <- CasesC
SPECIFICATION Spec
INVARIANTS
    NothingShadowed
    PrecedenceRespected
CHECK_DEADLOCK FALSE

SPECIFICATION Spec
CONSTANTS
    Requests <- MCRequests
    NoPlan = NoPlan
INVARIANTS TypeOK RoundsRespectDependencies NoTaskIsLeftOut EstimateIsTheSlowestChain PrivatePlansStayLocal
CHECK_DEADLOCK FALSE

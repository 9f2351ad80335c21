SPECIFICATION Spec
CONSTANTS
    Documents <- MCDocuments
    MaxStarts = 2
    Rev = 12
INVARIANT ReadsAsWritten MovesAreSafe EveryNodeInItsPlace RevolutionIsCutEvenly TableTurnsOnTheWay TravelIsShortest RunBeginsWhereTravelEnds
CHECK_DEADLOCK FALSE

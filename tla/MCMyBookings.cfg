SPECIFICATION Spec
SYMMETRY Made
CONSTANTS
    r1 = r1
    r2 = r2
    r3 = r3
    Nothing = Nothing
    Records <- MCRecords
    First <- MCFirst
    Slots = {s1, s2}
    Attempts = 2
INVARIANTS
    NeverBookless
    AnswersAreTrue
    NothingLeftLocked
    MovesAsShown
PROPERTIES
    LedgerSpec
    EndedMovesMakeNothing

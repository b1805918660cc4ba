SPECIFICATION DiscourseSpec
CONSTANTS
    Callers = {w1, w2}
    Readers = {r1}
    Commands <- MCCommands
    History <- MCHistory
    Views <- MCViews
    a1 = a1
    a2 = a2
    Artifacts = {a1}
    PageLimit = 1
    MaxRepeats = 1
    MaxCommands = 2
SYMMETRY Interchangeable
CHECK_DEADLOCK FALSE
INVARIANTS
    PagesComplete
    ForumRevisionsDense
    OneRowPerCommand

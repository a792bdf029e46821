\* Two commands at a time over two files, edited twice: a file may be
\* changed and changed back.
CONSTANTS
    prompt = prompt
    rungs = rungs
    Jobs = {j1, j2}
    Paths = {prompt, rungs}
    Order <- FileOrder
    Retired = {retired}
    Contents = {old, new}
    MaxEdits = 2
    Missing = Missing
    Unread = Unread
    Absent = Absent
    Torn = Torn
SYMMETRY JobSymmetry
SPECIFICATION Spec
INVARIANTS
    TypeOK
    VerdictExact
    TornExplained

SPECIFICATION Spec
CONSTANTS
    author = author  server = server
    Device = {author, server}
    Author = author
    a = a  b = b
    Content = {a, b}
    Previewable = {a}
    Missing = Missing
    Blank = Blank
    Generates = {author, server}
    Eager = {server}
    MaxRunning = 1
    MaxEdits = 1
    MaxRequests = 1
    MaxPurges = 1
    MaxRestarts = 1
    Reuse = FALSE
INVARIANTS
    NoStalePreview StaysWarm NobodyForgotten
CHECK_DEADLOCK FALSE

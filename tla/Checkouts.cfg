SPECIFICATION RunnerWebSpec
CONSTANTS
    NoChoice = NoChoice
    Choices = {c1, c2}
    Presses = {p1}
    WebRequests = 2
INVARIANT SheetIsTrue
PROPERTY SheetSettles
CHECK_DEADLOCK FALSE

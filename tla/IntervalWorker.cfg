SPECIFICATION Spec
CONSTANTS
    Callers = {c1, c2}
    MaxStarts = 3
PROPERTIES CancelledRunEnds CalledUntilCancelled

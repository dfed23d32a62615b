CONSTANTS
    a = a
    b = b
    c = c
    None = None
    Staff = {a, b, c}
    Width <- TwoLines
    Start <- Starts
    End <- Ends
    Seat <- Seats
    Seven = {a}
    ReliefOf <- Reliefs
    EarlyCrew = {}
    Order <- Orders
    Durations = {1}
    Break = 1
    Grace = 1
    Prepare = 1
    NoBoard = 1
    StopPush = 1
    Spare <- SpareOne
    MaxActs = 2
SPECIFICATION DaySpec
CHECK_DEADLOCK FALSE
INVARIANTS BoardKept UndoneInPlace TimeoutJustified
PROPERTIES ReliefKept

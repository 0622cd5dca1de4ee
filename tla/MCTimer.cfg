SPECIFICATION TimerSpec
CONSTANTS
    t1 = t1
    t2 = t2
    None = None
    Timers <- MCTimers
    Intervals <- MCIntervals
SYMMETRY MCSymmetry
INVARIANTS
    TimerTypeOK
    LoopAsAsked
PROPERTY
    OverIsOver

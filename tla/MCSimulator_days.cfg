SPECIFICATION FairSpec
CONSTANTS
    DayStartHour = 1
    DayEndHour = 2
    LastHour = 3
    EnvDays <- MCEnvDays
    ArgDays <- MCArgDays
    Population = 2
    Personas <- SomePersonas
INVARIANTS
    SimulatorIInv
    FiguresAreRight
    StopsOnTime
PROPERTIES
    StopsOnSignal
    HoursLast
CHECK_DEADLOCK FALSE

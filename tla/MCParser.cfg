CONSTANTS
    Definitions <- MCDefinitions
    Byte <- MCByte
    Class = {"alpha", "end"}
    classes <- MCClasses
    Outside = {"LAST"}
    MAX_COMMAND_LEN = 2
    MAX_ARG_LEN = 2
    MaxFed = 4
SPECIFICATION Spec
CHECK_DEADLOCK FALSE
INVARIANTS
    EventsExact

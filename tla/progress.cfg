\* What must happen in the end.
SPECIFICATION ProgressSpec
CONSTANTS
    NoOrder = NoOrder
    NoTrade = NoTrade
    NoSlot = NoSlot
    NoWindow = NoWindow
PROPERTIES MeteringConcludes PaidIsCredited PaidIsShown DesktopEnds
CHECK_DEADLOCK FALSE

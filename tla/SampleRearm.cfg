CONSTANTS
    Programs <- RearmOnly
    CoreWidth = 2
    RobSize = 3
SPECIFICATION Spec
INVARIANT OverflowHidden

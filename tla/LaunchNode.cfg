CONSTANTS Users = 2
          Commands = 1
          MaxPolls = 2
SPECIFICATION Spec
INVARIANTS CleanedUp LaunchedIsWhole
PROPERTIES LaunchEnds
CHECK_DEADLOCK FALSE

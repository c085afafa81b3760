CONSTANTS Processors = 1
          Files = 2
          HighWater = 2
          MaxEvents = 3
          MaxBreaks = 1
          MaxStops = 1
SPECIFICATION Spec
INVARIANTS PendingIsHeld InOrderOnce
PROPERTIES LossHasCause CatchesUp
CHECK_DEADLOCK FALSE

CONSTANTS Jobs = {j1}
          NoJob = NoJob
          QueueSize = 1
          MaxRuns = 2
          MaxStops = 1
SPECIFICATION Spec
INVARIANTS OneAnswer
CHECK_DEADLOCK FALSE

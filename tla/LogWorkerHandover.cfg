CONSTANTS Jobs = {j1}
          Workers = {w1}
          NoJob = NoJob
          MaxLines = 3
          QueueSize = 1
          WireSize = 1
          UseCRM = TRUE
          MaxRuns = 1
          MaxOutages = 1
          MaxStops = 1
SPECIFICATION Spec
INVARIANTS CompleteIsAccounted FilterIsContained DiesOnlyInOutage
PROPERTIES ImplementsHandover NothingStays
CHECK_DEADLOCK FALSE

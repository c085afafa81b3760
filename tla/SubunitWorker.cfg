CONSTANTS Jobs = {j1}
          NoJob = NoJob
          QueueSize = 1
          MaxRuns = 3
          MaxStops = 1
SPECIFICATION Spec
INVARIANTS FirstAnswerStands StoredOnce
PROPERTIES JobsAreAnswered ImplementsHandover
CHECK_DEADLOCK FALSE

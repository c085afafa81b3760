CONSTANTS Jobs = {j1}
          Workers = {w1, w2}
          NoJob = NoJob
          MaxLines = 2
          QueueSize = 1
          WireSize = 1
          UseCRM = FALSE
          MaxRuns = 2
          MaxOutages = 1
          MaxStops = 1
SPECIFICATION Spec
INVARIANTS InOrderOnce OneWorkerPerJob
SYMMETRY AlikeWorkers
CHECK_DEADLOCK FALSE

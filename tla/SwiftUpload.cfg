CONSTANTS NFiles = 3
          MaxFileCount = 2
SPECIFICATION Spec
INVARIANTS OneAtATime AllTriedUnlessLate
PROPERTY UploadEnds
CHECK_DEADLOCK FALSE

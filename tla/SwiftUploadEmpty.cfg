CONSTANTS NFiles = 1
          MaxFileCount = 1
SPECIFICATION Spec
INVARIANTS NothingEmpty
CHECK_DEADLOCK FALSE

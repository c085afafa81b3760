CONSTANTS Full = 3
          BackoffLimit = 129
          MidChar = {2}
          CutChar = {1}
SPECIFICATION Spec
INVARIANTS NoGapNoRepeat BackoffIsKept
PROPERTY FetchEnds
CHECK_DEADLOCK FALSE

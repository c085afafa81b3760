CONSTANTS Packages = {"p"}
          Files <- MCFiles
          VersionSpecs = {"a", "b"}
          ExtraNames = {"x", "y"}
          HeadLines <- MCHeadLines
          BranchLines <- MCBranchLines
          GlobalReqs <- MCGlobalReqs
SPECIFICATION ReqsSpec
INVARIANT BrokenBranchIsNoError
CHECK_DEADLOCK FALSE

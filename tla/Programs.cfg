CONSTANTS MaxSeconds = 8
          Late = 1
          Rows = 2
          Cols = 4
          GAUGES <- MCGauges
          COUNTERS <- MCCounters
          Blank <- MCBlank
          MaxSessions = 1
          Repos <- MCRepos
          PuppetRepos <- MCPuppetRepos
          InfraPTL = ptl
          Other = other
          Creator = creator
          GivenGroups <- MCGivenGroups
          UpdateOptions <- MCUpdateOptions
          Channels <- MCChannels
          Flags <- MCFlags
          MaxStrays = 1
          Packages = {"p"}
          Files <- MCFiles
          VersionSpecs = {"a", "b"}
          ExtraNames = {"x", "y"}
          HeadLines <- MCHeadLines
          BranchLines <- MCBranchLines
          GlobalReqs <- MCGlobalReqs
          Nodes <- MCNodes
          Trees <- MCTrees
          NoNode = 0
          FileNames <- MCFileNames
          ArgSets <- MCArgSets
          Texts <- MCTexts
          ArgumentSets <- MCArgumentSets
          ProjectNames <- MCProjectNames
          AclConfigs <- MCAclConfigs
          NoAcl = noAcl
          RenameLists <- MCRenameLists
          JobLines <- MCJobLines
          MaxEntries = 2
          MaxCrashes = 2
          MaxInstances = 3
SPECIFICATION ProgramsSpec
INVARIANTS FullWaitUnlessTwoEarly IncrementsAddUp Maintained ExitIsEarned VerdictIsJustified PagesFit
           NormalisedPasses NothingElseLost RenameIsWhole VerdictIsRight OnlyWindowsHurt ReadyIsCurrent
PROPERTY WaitsEnd
CHECK_DEADLOCK FALSE

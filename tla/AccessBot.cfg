CONSTANTS c1 = c1
          c2 = c2
          boss = boss
          user = user
          o = o
          t = t
          ChannelList <- MCChannelList
          Nicks = {boss, user}
          Flags = {o, t}
          NoChannel = NoChannel
          Access <- MCAccess
          GlobalRoles <- MCGlobalRoles
          Roles <- MCRoles
          GlobalMask = {t}
          Masks <- MCMasks
          MaxEdits = 1
          MaxExtras = 1
SPECIFICATION BotSpec
INVARIANT Converges
PROPERTIES NeverAgainstConfig BotEnds
CHECK_DEADLOCK FALSE

------------------------------ MODULE AccessBot ------------------------------
(***************************************************************************)
(* accessbot: brings the access lists of all configured IRC channels into  *)
(* line with channels.yaml.                                                *)
(*                                                                         *)
(* The bot is driven by the notices it receives.  Once it is identified it *)
(* asks ChanServ for the access list of a channel, collects the entries,   *)
(* compares them with the configuration at the end of the list, sends the  *)
(* changes one by one, each after a notice, and goes on to the next        *)
(* channel.  It does not look at what a notice that follows a change says. *)
(* The IRC server with its services, which may refuse whatever the bot asks *)
(* for, operators who edit access lists by hand, unsolicited notices and a *)
(* lost connection are the environment.                                    *)
(***************************************************************************)
EXTENDS Integers, Sequences, FiniteSets, SequencesExt

CONSTANTS ChannelList,  \* the channels of the configuration, in its order
          Nicks, Flags, NoChannel,
          Access,       \* section `access': the flags of a role
          GlobalRoles,  \* section `global': the roles of a nick on every channel
          Roles,        \* section `channels': the roles of a nick on one channel
          GlobalMask,   \* the mask of section `global'
          Masks,        \* the masks of section `channels', a set of at most one mask each
          MaxEdits,     \* bound: entries operators edit by hand
          MaxExtras     \* bound: notices of ChanServ nobody asked for

Channels == Range(ChannelList)

ASSUME ConfigAssumption ==
    /\ ChannelList \in Seq(Channels) /\ IsInjective(ChannelList) /\ NoChannel \notin Channels
    /\ IsFiniteSet(Nicks)
    /\ \A r \in DOMAIN Access : Access[r] \subseteq Flags /\ Access[r] # {}
    /\ GlobalRoles \in [Nicks -> SUBSET DOMAIN Access]
    /\ Roles \in [Channels -> [Nicks -> SUBSET DOMAIN Access]]
    /\ GlobalMask \subseteq Flags /\ Masks \in [Channels -> SUBSET SUBSET Flags]
    /\ MaxEdits \in Nat /\ MaxExtras \in Nat

VARIABLES
    flags,       \* the access lists ChanServ has, [Channels -> [Nicks -> SUBSET Flags]]
    registered,  \* the channels ChanServ knows
    requests,    \* on their way from the bot to the services
    notices,     \* on their way to the bot
    state,       \* "hello", "cap", "up", and at the end "quit", "cut" or "crashed"
    identified,
    channels,    \* channels still to do, the next one at the end
    current,     \* current_channel
    list,        \* current_list: entries <<nick, flags>>
    changes,     \* changes still to send
    original,    \* history: the access lists at the start
    disturbed,   \* history: entries <<channel, nick>> edited by hand or refused by ChanServ
    denied,      \* history: the other requests the services have refused
    edits, extras

servVars == <<flags, registered, original, disturbed, edits>>
botVars == <<state, identified, channels, current, list, changes>>
accessVars == <<servVars, botVars, requests, notices, denied, extras>>

Change == [channel : Channels, nick : Nicks, minus : SUBSET Flags, plus : SUBSET Flags]
Lists == [Channels -> [Nicks -> SUBSET Flags]]

Request == [kind : {"cap", "identify"}] \cup [kind : {"list"}, channel : Channels]
           \cup [kind : {"add"}, change : Change]
Notice == [kind : {"welcome", "ack", "nak", "identified", "refused", "end", "text", "word"}]
          \cup [kind : {"entry"}, channel : Channels, nick : Nicks, flags : SUBSET Flags]

BotTypeOK ==
    /\ flags \in Lists /\ original \in Lists /\ registered \subseteq Channels
    /\ \A i \in DOMAIN requests : requests[i] \in Request
    /\ \A i \in DOMAIN notices : notices[i] \in Notice
    /\ state \in {"hello", "cap", "up", "quit", "cut", "crashed"} /\ identified \in BOOLEAN
    /\ IsPrefix(channels, ChannelList) /\ current \in Channels \cup {NoChannel}
    /\ list \subseteq Nicks \X SUBSET Flags /\ changes \subseteq Change
    /\ disturbed \subseteq Channels \X Nicks /\ denied \subseteq Request
    /\ edits \in 0..MaxEdits /\ extras \in 0..MaxExtras

BotInit ==
    /\ flags \in Lists /\ original = flags
    /\ registered \in SUBSET Channels
    /\ \A c \in Channels \ registered, n \in Nicks : flags[c][n] = {}
    /\ requests = <<>> /\ notices = <<[kind |-> "welcome"]>>
    /\ state = "hello" /\ identified = FALSE
    /\ channels = ChannelList /\ current = NoChannel /\ list = {} /\ changes = {}
    /\ disturbed = {} /\ denied = {} /\ edits = 0 /\ extras = 0

-----------------------------------------------------------------------------
(* WHAT THE CONFIGURATION ASKS FOR: _get_access_list, _get_access_change    *)

(* The roles of a channel come after the global ones and win over them.     *)
Target(c, n) == LET roles == IF Roles[c][n] # {} THEN Roles[c][n] ELSE GlobalRoles[n]
                IN  IF roles = {} THEN {} ELSE Access[CHOOSE r \in roles : TRUE]

Mask(c) == IF Masks[c] = {} THEN GlobalMask ELSE CHOOSE m \in Masks[c] : TRUE

(* Plausible mistakes: the mask is taken for what everybody may keep; a     *)
(* nick that is not on the list yet is forgotten.                           *)
ToRemoveMaskOnly(c, n, has) == has \ Mask(c)
ToAddIfPresent(c, n, has) == IF has = {} THEN {} ELSE Target(c, n) \ has

ToRemove(c, n, has) == has \ (IF Target(c, n) # {} THEN Target(c, n) ELSE Mask(c))
ToAdd(c, n, has) == Target(c, n) \ has

(* _get_access_changes *)
Has(n) == UNION {e[2] : e \in {x \in list : x[1] = n}}
Changes(c) ==
    {[channel |-> c, nick |-> n, minus |-> ToRemove(c, n, Has(n)), plus |-> ToAdd(c, n, Has(n))] :
        n \in {m \in Nicks : ToRemove(c, m, Has(m)) # {} \/ ToAdd(c, m, Has(m)) # {}}}

-----------------------------------------------------------------------------
(* THE BOT: advance and the handlers *)

Sends(r) == requests' = Append(requests, r)

Alive == state \notin {"quit", "cut", "crashed"}

(* The process is gone, with all it knew. *)
Ends(how) == /\ state' = how
             /\ channels' = <<>> /\ current' = NoChannel /\ list' = {} /\ changes' = {}

(* Without changes to send and without a channel: the next one, or the end. *)
NextChannel ==
    \/ channels = <<>> /\ Ends("quit") /\ UNCHANGED requests
    \/ /\ channels # <<>> /\ changes' = {}
       /\ channels' = Front(channels) /\ current' = Last(channels) /\ list' = {}
       /\ Sends([kind |-> "list", channel |-> Last(channels)])
       /\ UNCHANGED state

(* A plausible mistake: the change stays on the list.                       *)
SendChangeKeeps(S) ==
    \E ch \in S : /\ Sends([kind |-> "add", change |-> ch])
                  /\ changes' = S /\ current' = NoChannel
                  /\ UNCHANGED <<state, channels, list>>

(* changes.pop(), of the changes in S. *)
SendChange(S) ==
    \E ch \in S : /\ Sends([kind |-> "add", change |-> ch])
                  /\ changes' = S \ {ch} /\ current' = NoChannel
                  /\ UNCHANGED <<state, channels, list>>

(* advance(msg) while a list is awaited: an entry is collected, the end of  *)
(* the list leads to the changes and to advance() again, any other notice   *)
(* is passed over.  A notice of one or two words has no parts[2].           *)
Listing(m) ==
    \/ m.kind = "entry" /\ list' = list \cup {<<m.nick, m.flags>>}
       /\ UNCHANGED <<state, channels, current, changes, requests>>
    \/ m.kind = "end" /\ (IF Changes(current) = {} THEN NextChannel ELSE SendChange(Changes(current)))
    \/ m.kind = "text" /\ UNCHANGED <<state, channels, current, list, changes, requests>>
    \/ m.kind \in {"word", "identified"} /\ Ends("crashed") /\ UNCHANGED requests

(* After the notice "identified" advance() has no msg: in the middle of a   *)
(* list that is an exception nobody catches.                                *)
Advance(m) ==
    IF changes # {} THEN SendChange(changes)
    ELSE IF current = NoChannel THEN NextChannel
    ELSE Listing(m)

Handles(kinds) == /\ Alive
                  /\ notices # <<>> /\ Head(notices).kind \in kinds
                  /\ notices' = Tail(notices)
                  /\ UNCHANGED <<servVars, denied, extras>>

OnWelcome ==
    /\ Handles({"welcome"})
    /\ Sends([kind |-> "cap"]) /\ state' = "cap"
    /\ UNCHANGED <<identified, channels, current, list, changes>>

(* The capability is acknowledged; if it is not, nothing is done.           *)
OnCap ==
    /\ Handles({"ack", "nak"})
    /\ \/ Head(notices).kind = "ack" /\ Sends([kind |-> "identify"]) /\ state' = "up"
       \/ Head(notices).kind = "nak" /\ UNCHANGED <<requests, state>>
    /\ UNCHANGED <<identified, channels, current, list, changes>>

(* "You are now identified", or anything else, such as that the password is *)
(* wrong, which is ignored.                                                 *)
OnNickServ ==
    /\ Handles({"identified", "refused"})
    /\ \/ Head(notices).kind = "identified" /\ identified' = TRUE /\ Advance(Head(notices))
       \/ Head(notices).kind = "refused" /\ UNCHANGED <<botVars, requests>>

(* Ignored as long as the capability identify-msg is not acknowledged. *)
OnChanServ ==
    /\ Handles({"entry", "end", "text", "word"})
    /\ IF state = "up" THEN Advance(Head(notices))
                       ELSE UNCHANGED <<state, channels, current, list, changes, requests>>
    /\ UNCHANGED identified

Bot == OnWelcome \/ OnCap \/ OnNickServ \/ OnChanServ

-----------------------------------------------------------------------------
(* THE ENVIRONMENT *)

Entries(c) == SetToSeq({[kind |-> "entry", channel |-> c, nick |-> n, flags |-> flags[c][n]] :
                           n \in {m \in Nicks : flags[c][m] # {}}})

Says(msgs) == notices' = notices \o msgs

Refuses(kind) == Says(<<[kind |-> kind]>>) /\ denied' = denied \cup {Head(requests)}

(* The access list of a channel, or a notice that it is not registered, or  *)
(* that its list is not for the bot to see.                                 *)
ServeList ==
    LET c == Head(requests).channel IN
    /\ Head(requests).kind = "list"
    /\ \/ c \in registered /\ Says(Append(Entries(c), [kind |-> "end"])) /\ UNCHANGED denied
       \/ Refuses("text")
    /\ UNCHANGED servVars

(* A change is carried out, or refused; one notice says which. *)
ServeAdd ==
    LET ch == Head(requests).change IN
    /\ Head(requests).kind = "add"
    /\ Says(<<[kind |-> "text"]>>)
    /\ \/ /\ flags' = [flags EXCEPT ![ch.channel][ch.nick] = (@ \ ch.minus) \cup ch.plus]
          /\ UNCHANGED disturbed
       \/ /\ disturbed' = disturbed \cup {<<ch.channel, ch.nick>>}
          /\ UNCHANGED flags
    /\ UNCHANGED <<registered, original, edits, denied>>

ServeOther ==
    /\ \/ Head(requests).kind = "cap" /\ Says(<<[kind |-> "ack"]>>) /\ UNCHANGED denied
       \/ Head(requests).kind = "cap" /\ Refuses("nak")
       \/ Head(requests).kind = "identify" /\ Says(<<[kind |-> "identified"]>>) /\ UNCHANGED denied
       \/ Head(requests).kind = "identify" /\ Refuses("refused")
    /\ UNCHANGED servVars

Serve ==
    /\ requests # <<>> /\ requests' = Tail(requests)
    /\ ServeList \/ ServeAdd \/ ServeOther
    /\ UNCHANGED <<botVars, extras>>

(* An operator gives or takes a flag.  Before the bot asks for a list that   *)
(* is just another list.                                                    *)
Edit ==
    /\ Alive /\ channels # ChannelList
    /\ edits < MaxEdits /\ edits' = edits + 1
    /\ \E c \in registered, n \in Nicks, f \in Flags :
         /\ flags' = [flags EXCEPT ![c][n] = IF f \in @ THEN @ \ {f} ELSE @ \cup {f}]
         /\ disturbed' = disturbed \cup {<<c, n>>}
    /\ UNCHANGED <<registered, original, botVars, requests, notices, denied, extras>>

(* A notice of ChanServ that answers nothing, of many words or of one. *)
Extra ==
    /\ state = "up" /\ extras < MaxExtras /\ extras' = extras + 1
    /\ \E k \in {"text", "word"} : Says(<<[kind |-> k]>>)
    /\ UNCHANGED <<servVars, botVars, requests, denied>>

(* on_disconnect: sys.exit(0), whatever is left to do. *)
Cut ==
    /\ Alive /\ Ends("cut")
    /\ notices' = <<>>
    /\ UNCHANGED <<servVars, identified, requests, denied, extras>>

BotNext == Bot \/ Serve \/ Edit \/ Extra \/ Cut

(* The bot handles what it receives and the services answer. *)
BotSpec == BotInit /\ [][BotNext]_accessVars /\ WF_accessVars(Bot) /\ WF_accessVars(Serve)

-----------------------------------------------------------------------------
(* PROPERTIES *)

Undisturbed(c, n) == c \in registered /\ <<c, n>> \notin disturbed

(* When the bot quits and ChanServ has carried out what it asked for, a     *)
(* listed nick has the flags of its role, and the access of everybody else  *)
(* is "limited to the mask but otherwise left alone".                       *)
Converges ==
    state = "quit" /\ requests = <<>> =>
        \A c \in Channels, n \in Nicks : Undisturbed(c, n) =>
            flags[c][n] = IF Target(c, n) # {} THEN Target(c, n) ELSE original[c][n] \cap Mask(c)

(* However stale the list the bot works from, and whatever notices come     *)
(* in between, nobody is ever given a flag the configuration does not give  *)
(* or deprived of one it leaves.                                            *)
NeverAgainstConfig ==
    [][Serve => \A c \in Channels, n \in Nicks :
          /\ flags'[c][n] \ flags[c][n] \subseteq Target(c, n)
          /\ (flags[c][n] \ flags'[c][n]) \cap
                (IF Target(c, n) # {} THEN Target(c, n) ELSE Mask(c)) = {}]_accessVars

(* Without the capability nothing is read; without "identified" nothing is  *)
(* begun, unless a stray notice of ChanServ begins it; a list that was      *)
(* refused has no end.                                                      *)
Stranded ==
    \/ state = "cap" /\ [kind |-> "cap"] \in denied
    \/ state = "up" /\ current = NoChannel /\ changes = {} /\ [kind |-> "identify"] \in denied
    \/ [kind |-> "list", channel |-> current] \in denied

(* The bot comes to an end, whatever notices come, unless the services      *)
(* refuse the capability, the identification or a list, of which that of a  *)
(* channel that is not registered is one: then it waits for ever, for there *)
(* is no time limit.                                                        *)
BotEnds == <>[](~Alive \/ Stranded)

=============================================================================

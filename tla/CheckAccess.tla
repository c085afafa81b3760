----------------------------- MODULE CheckAccess -----------------------------
(***************************************************************************)
(* checkaccess and check_irc_access: two versions of a program that asks   *)
(* ChanServ for the access list of one channel after another and passes if *)
(* a nick has the flags the configuration gives it on all of them.         *)
(*                                                                         *)
(* The first ("old") clears its failure on every notice of ChanServ and    *)
(* does not know the answer for an unregistered channel; the second        *)
(* ("new") mends both.  Notices of others, or without identification, are  *)
(* ignored; ChanServ may send one that answers nothing at any time.  One   *)
(* with less than three words is an IndexError here.  The connection may   *)
(* be lost, and the exit code then says what is known so far.              *)
(***************************************************************************)
EXTENDS Integers, Sequences, SequencesExt

CONSTANTS Channels,   \* the channels of the configuration, in order
          Flags,      \* access levels
          MaxStrays   \* bound: notices that answer nothing

NoFlags == "no flags"
Unregistered == "unregistered"
NoChannel == "no channel"

ASSUME CheckAssumption ==
    /\ Channels \in Seq(Range(Channels)) /\ NoChannel \notin Range(Channels)
    /\ Flags \cap {NoFlags, Unregistered, "other", "end"} = {}
    /\ MaxStrays \in Nat

VARIABLES
    prog,      \* "old" or "new"
    access,    \* what the nick has on a channel: flags, none, or an unregistered channel
    wanted,    \* the flags the configuration gives it
    cap,       \* "asked", "acked" or "refused": identify-msg
    channels, current,
    listed,    \* current_list: the flags it lists for the nick
    failed,    \* "None", "True" or "False"
    asked,     \* the channel ChanServ has been asked about
    due,       \* what it has yet to send
    outcome,   \* "running", "quit", "pass", "fail" or "crashed"
    strays,    \* notices so far that answer nothing
    checked,   \* history: channels with a verdict
    cut        \* history: the connection was lost

dialogVars == <<channels, current, listed, asked, outcome, checked>>
givenVars == <<prog, access, wanted>>
checkVars == <<givenVars, dialogVars, cap, failed, due, strays, cut>>

-----------------------------------------------------------------------------

(* main: a nick without an access level is an exception.                    *)
CheckInit ==
    /\ prog \in {"old", "new"}
    /\ access \in [Range(Channels) -> Flags \cup {NoFlags, Unregistered}]
    /\ wanted \in Flags \cup {NoFlags}
    /\ channels = Channels /\ current = NoChannel /\ listed = {}
    /\ failed = IF prog = "old" THEN "True" ELSE "None"
    /\ outcome = IF wanted = NoFlags THEN "crashed" ELSE "running"
    /\ cap = "asked" /\ asked = NoChannel /\ due = <<>>
    /\ strays = 0 /\ checked = {} /\ cut = FALSE

(* advance() without a current channel: the last one left, or quit().       *)
NextChannel ==
    IF channels = <<>>
    THEN /\ outcome' = "quit" /\ current' = NoChannel
         /\ UNCHANGED <<channels, listed, asked>>
    ELSE /\ current' = Last(channels) /\ asked' = Last(channels)
         /\ channels' = Front(channels) /\ listed' = {} /\ UNCHANGED outcome

(* on_cap: a NAK leaves the program waiting.                                *)
OnCap ==
    /\ outcome = "running" /\ cap = "asked"
    /\ \/ cap' = "acked" /\ NextChannel /\ UNCHANGED checked
       \/ cap' = "refused" /\ UNCHANGED dialogVars
    /\ UNCHANGED <<givenVars, failed, due, strays, cut>>

NotFound == wanted \notin listed
Judged == checked' = checked \cup {current} /\ NextChannel

Lists(notice) == /\ listed' = listed \cup ({notice} \cap Flags)
                 /\ UNCHANGED <<channels, current, asked, outcome, checked>>

(* advance(msg) of the first version, after self.failed = False.            *)
OldAdvance(notice) ==
    /\ failed' = IF current # NoChannel /\ notice = "end" /\ NotFound THEN "True" ELSE "False"
    /\ IF current = NoChannel THEN NextChannel /\ UNCHANGED checked
       ELSE IF notice = "end" THEN Judged
       ELSE Lists(notice)

(* Plausible mistakes: a channel that is fine says so for those before it,  *)
(* and the answer for an unregistered channel is taken for an entry.        *)
FailedByLast == IF NotFound THEN "True" ELSE "False"
RefusesNever(notice) == notice = "refused"

FailedAfter == IF NotFound THEN "True" ELSE IF failed = "None" THEN "False" ELSE failed

Refuses(notice) == notice = Unregistered

(* advance(msg) of the second version.                                      *)
NewAdvance(notice) ==
    IF current = NoChannel THEN NextChannel /\ UNCHANGED <<failed, checked>>
    ELSE IF Refuses(notice) THEN failed' = "True" /\ Judged
    ELSE IF notice = "end" THEN failed' = FailedAfter /\ Judged
    ELSE Lists(notice) /\ UNCHANGED failed

Advance(notice) == IF prog = "old" THEN OldAdvance(notice) ELSE NewAdvance(notice)

(* on_privnotice: after quit(), too, as long as there is a connection.      *)
Listens == outcome \in {"running", "quit"} /\ cap = "acked"

OnPrivnotice ==
    /\ Listens /\ due # <<>> /\ due' = Tail(due) /\ Advance(Head(due))
    /\ UNCHANGED <<givenVars, cap, strays, cut>>

(* A notice that answers nothing, or a short one.                           *)
OnStray ==
    /\ Listens /\ strays < MaxStrays /\ strays' = strays + 1
    /\ \/ Advance("other")
       \/ /\ current # NoChannel /\ outcome' = "crashed"
          /\ failed' = IF prog = "old" THEN "False" ELSE failed
          /\ UNCHANGED <<channels, current, listed, asked, checked>>
    /\ UNCHANGED <<givenVars, cap, due, cut>>

(* on_disconnect, after quit() or when the connection is lost.              *)
OnDisconnect ==
    /\ outcome \in {"running", "quit"}
    /\ cut' = (outcome = "running")
    /\ outcome' = IF failed = "False" THEN "pass" ELSE "fail"
    /\ UNCHANGED <<givenVars, channels, current, listed, asked, checked, cap, failed, due, strays>>

-----------------------------------------------------------------------------
(* ChanServ: the nick's own entry, those of others, and the end.            *)

Entry(c) == IF access[c] \in Flags THEN <<access[c]>> ELSE <<>>
Answer(c) == IF access[c] = Unregistered THEN <<Unregistered>> ELSE Entry(c) \o <<"other", "end">>

ChanServ ==
    /\ outcome \in {"running", "quit"} /\ asked # NoChannel /\ due = <<>>
    /\ due' = Answer(asked) /\ asked' = NoChannel
    /\ UNCHANGED <<givenVars, channels, current, listed, outcome, checked, cap, failed, strays, cut>>

CheckNext == OnCap \/ OnPrivnotice \/ OnStray \/ OnDisconnect \/ ChanServ
CheckSpec == CheckInit /\ [][CheckNext]_checkVars

-----------------------------------------------------------------------------

Granted(c) == access[c] = wanted

PassIsEarned ==
    outcome = "pass" =>
        IF prog = "new"
        THEN /\ checked # {} /\ \A c \in checked : Granted(c)
             /\ cut \/ checked = Range(Channels)
        ELSE cut \/ strays > 0 \/ Granted(Head(Channels))

FailIsEarned ==
    outcome = "fail" => checked = {} \/ \E c \in checked : ~Granted(c)

(* The exit code.  The second version passes only if it has checked some    *)
(* channel, and none without the flags; all of them, unless the connection  *)
(* was lost.  The first one speaks of the last channel alone, the first of  *)
(* the configuration, and any further notice makes it pass.  Neither makes  *)
(* a failure up: some channel lacks the flags, or none came to a verdict.   *)
ExitIsEarned == PassIsEarned /\ FailIsEarned

=============================================================================

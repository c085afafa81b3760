----------------------------- MODULE Tools_proof -----------------------------
(***************************************************************************)
(* Proofs about two tools of the administrators, launch-node and accessbot.*)
(*                                                                         *)
(* LaunchNode, for any number of user names, set-up commands and polls:    *)
(* what a launch has made at each point of the program, from which follow  *)
(* what a failed launch leaves behind and what a reported one has.         *)
(*                                                                         *)
(* AccessBot, for any configuration and any number of edits by hand and of *)
(* unsolicited notices: the change of every entry the bot has judged is    *)
(* made or on its way, because one list is asked for at a time and judged  *)
(* when all of it has come.                                                *)
(***************************************************************************)
EXTENDS LaunchNode, AccessBot, SequenceFacts, FiniteSetTheorems, TLAPS

(* PART ONE: LAUNCHNODE *)

SetUpPoints == {"setup", "agent", "reboot", "donekey", "dns"}
UpPoints == {"login", "rootkeys", "root"} \cup SetUpPoints

-----------------------------------------------------------------------------
(* THE INDUCTIVE INVARIANT *)

(* What has been made so far: a point of the program after which no call    *)
(* could have made a thing, or after which a call has taken it down.        *)
MadeOK ==
    /\ (outcome = "running") <=> (pc # "end")
    /\ pc \in {"keypair", "create"} => server = "none"
    /\ pc = "keypair" => ~keypair
    /\ pc = "dropkey" => server = "none" \/ unanswered
    /\ pc = "dns" => ~keypair
    /\ pc = "unserver" => ~keypair \/ unclean

(* The floating ip: a loose one is about to be attached, or has a history.  *)
AddressOK ==
    /\ pc \in {"keypair", "create", "dropkey", "wait", "address"} => fip = "none"
    /\ pc \in UpPoints => fip # "loose"
    /\ pc \in {"unkey", "unserver"} => fip # "attached" \/ unclean \/ unseen
    /\ fip = "loose" => \/ pc = "attach" \/ outcome = "interrupted"
                        \/ notattached \/ unanswered \/ unclean \/ unseen

(* How far a server that is being set up has got. *)
UpOK ==
    /\ pc \in {"address", "attach"} \cup UpPoints => server = "active"
    /\ pc \in SetUpPoints => Root \in logins
    /\ pc \in SetUpPoints \ {"setup"} => step = Commands
    /\ pc \in {"reboot", "donekey", "dns"} => puppet \in {"success", "other code"}

(* TypeOK in parts: Booleans, loops, and the rest. *)
FlagsOK ==
    /\ keep \in BOOLEAN /\ keypair \in BOOLEAN /\ reachable \in BOOLEAN
    /\ unanswered \in BOOLEAN /\ unclean \in BOOLEAN /\ notattached \in BOOLEAN
    /\ shown \in BOOLEAN /\ unseen \in BOOLEAN
LoopsOK ==
    /\ logins \subseteq 1..Users
    /\ user \in 1..Users /\ polls \in 0..MaxPolls /\ step \in 0..Commands
CloudOK ==
    /\ ext \subseteq {"keypairs", "fips", "extnet"}
    /\ server \in {"none", "building", "active", "error", "deleted"}
    /\ fip \in {"none", "loose", "attached"}
    /\ puppet \in {"not run", "success", "refused", "other code"}
PointOK ==
    /\ pc \in {"keypair", "create", "dropkey", "wait", "address", "attach", "login", "rootkeys", "root",
               "setup", "agent", "reboot", "donekey", "dns", "unip", "unkey", "unserver", "end"}
    /\ outcome \in {"running", "launched", "launched, not shown", "failed", "interrupted"}
RangesOK == CloudOK /\ PointOK

LaunchInv == TypeOK /\ MadeOK /\ AddressOK /\ UpOK /\ CleanedUp /\ LaunchedIsWhole

-----------------------------------------------------------------------------

(* Where the loops start. *)
LEMMA LoopsStart == 1 \in 1..Users /\ 0 \in 0..MaxPolls /\ 0 \in 0..Commands
<1>1. Users \in Nat /\ Users # 0 /\ MaxPolls \in Nat /\ Commands \in Nat
  BY LaunchAssumption
<1>2. Users >= 1
  BY <1>1
<1> QED
  BY <1>1, <1>2

(* At the start nothing has been made. *)
LEMMA InitInv == Init => LaunchInv
<1> SUFFICES ASSUME Init PROVE LaunchInv
  OBVIOUS
<1> USE DEF Init, Root
<1>1. FlagsOK
  BY DEF FlagsOK
<1>2. LoopsOK
  <2>1. logins \subseteq 1..Users /\ user = 1 /\ polls = 0 /\ step = 0
    OBVIOUS
  <2> QED
    BY <2>1, LoopsStart DEF LoopsOK
<1>3. RangesOK
  BY DEF RangesOK, CloudOK, PointOK
<1>4. MadeOK /\ AddressOK /\ UpOK
  BY DEF MadeOK, AddressOK, UpOK, UpPoints, SetUpPoints
<1>5. CleanedUp /\ LaunchedIsWhole
  BY DEF CleanedUp, LaunchedIsWhole
<1> QED
  BY <1>1, <1>2, <1>3, <1>4, <1>5 DEF LaunchInv, TypeOK, FlagsOK, LoopsOK, RangesOK, CloudOK, PointOK

(* The loops over users, polls and commands stay within their bounds.       *)
LEMMA LoopsStep == LoopsOK /\ [Next]_vars => LoopsOK'
<1> SUFFICES ASSUME LoopsOK, [Next]_vars PROVE LoopsOK'
  OBVIOUS
<1> USE LaunchAssumption DEF LoopsOK, sshVars, loopVars
<1>1. CASE Wait
  BY <1>1 DEF Wait, Timeout
<1>2. CASE Login
  BY <1>2 DEF Login, Timeout, NotYet
<1>3. CASE RootKeys
  BY <1>3, LoopsStart DEF RootKeys, Root
<1>4. CASE LoginAsRoot
  BY <1>4 DEF LoginAsRoot, Timeout, NotYet
<1>5. CASE SetUp
  BY <1>5 DEF SetUp
<1>6. CASE \/ AddKeypair \/ Create \/ DropKey \/ Address \/ Attach
           \/ Agent \/ Reboot \/ DoneKey \/ Show
           \/ RemoveIp \/ RemoveKey \/ RemoveServer
  BY <1>6 DEF AddKeypair, Create, DropKey, Address, Attach, Agent, Reboot, DoneKey, Show,
              RemoveIp, RemoveKey, RemoveServer
<1>7. CASE Build \/ StartSshd \/ ListCatchesUp \/ Interrupt \/ UNCHANGED vars
  BY <1>7 DEF Build, StartSshd, ListCatchesUp, Interrupt, vars
<1> QED
  BY <1>1, <1>2, <1>3, <1>4, <1>5, <1>6, <1>7 DEF Next, Program

(* Every step of the program, of the cloud and of the operator keeps the    *)
(* invariant.                                                               *)
LEMMA NextInv == LaunchInv /\ [Next]_vars => LaunchInv'
<1> SUFFICES ASSUME LaunchInv, [Next]_vars PROVE LaunchInv'
  OBVIOUS
<1>0. LoopsOK'
  BY LoopsStep DEF LaunchInv, TypeOK, LoopsOK
<1>r. RangesOK
  BY DEF LaunchInv, TypeOK, RangesOK, CloudOK, PointOK
<1> USE DEF LaunchInv, Root, UpPoints, SetUpPoints
<1>1. CASE AddKeypair
  <2> USE <1>1 DEF AddKeypair, Works, Fails, End, Goto, options, cloudVars, sshVars, loopVars, history
  <2>1. FlagsOK'
    BY DEF TypeOK, FlagsOK
  <2>3. RangesOK'
    <3>1. CloudOK'
      BY <1>r DEF RangesOK, CloudOK
    <3>2. PointOK'
      BY <1>r DEF RangesOK, PointOK
    <3> QED BY <3>1, <3>2 DEF RangesOK
  <2>4. MadeOK' /\ AddressOK'
    BY DEF MadeOK, AddressOK
  <2>5. UpOK'
    BY DEF UpOK
  <2>6. CleanedUp' /\ LaunchedIsWhole'
    <3>1. server' = "none" /\ fip' = "none" /\ ~keypair /\ outcome' \in {"running", "failed"}
      BY DEF MadeOK, AddressOK
    <3>2. outcome' = "failed" => ~keypair' \/ unanswered'
      BY <3>1 DEF MadeOK
    <3> QED
      BY <3>1, <3>2 DEF CleanedUp, LaunchedIsWhole
  <2> QED
    BY <1>0, <2>1, <2>3, <2>4, <2>5, <2>6 DEF TypeOK, FlagsOK, LoopsOK, RangesOK, CloudOK, PointOK
<1>2. CASE Create
  <2> USE <1>2 DEF Create, Works, Fails, Goto, Raises, End, options, cloudVars, sshVars, loopVars, history
  <2>1. FlagsOK'
    BY DEF TypeOK, FlagsOK
  <2>3. RangesOK'
    <3>1. CloudOK'
      BY <1>r DEF RangesOK, CloudOK
    <3>2. PointOK'
      BY <1>r DEF RangesOK, PointOK
    <3> QED BY <3>1, <3>2 DEF RangesOK
  <2>4. MadeOK' /\ AddressOK'
    BY DEF MadeOK, AddressOK
  <2>5. UpOK'
    BY DEF UpOK
  <2>6. CleanedUp' /\ LaunchedIsWhole'
    BY DEF MadeOK, AddressOK, UpOK, CleanedUp, LaunchedIsWhole
  <2> QED
    BY <1>0, <2>1, <2>3, <2>4, <2>5, <2>6 DEF TypeOK, FlagsOK, LoopsOK, RangesOK, CloudOK, PointOK
<1>3. CASE DropKey
  <2> USE <1>3 DEF DropKey, Works, Fails, End, options, cloudVars, sshVars, loopVars, history
  <2>1. FlagsOK'
    BY DEF TypeOK, FlagsOK
  <2>3. RangesOK'
    <3>1. CloudOK'
      BY <1>r DEF RangesOK, CloudOK
    <3>2. PointOK'
      BY <1>r DEF RangesOK, PointOK
    <3> QED BY <3>1, <3>2 DEF RangesOK
  <2>4. MadeOK' /\ AddressOK'
    BY DEF MadeOK, AddressOK
  <2>5. UpOK'
    BY DEF UpOK
  <2>6. CleanedUp' /\ LaunchedIsWhole'
    BY DEF MadeOK, AddressOK, UpOK, CleanedUp, LaunchedIsWhole
  <2> QED
    BY <1>0, <2>1, <2>3, <2>4, <2>5, <2>6 DEF TypeOK, FlagsOK, LoopsOK, RangesOK, CloudOK, PointOK
<1>4. CASE Wait
  <2> USE <1>4 DEF Wait, Goto, Raises, End, Timeout, options, cloudVars, sshVars, loopVars, history
  <2>1. FlagsOK'
    BY DEF TypeOK, FlagsOK
  <2>3. RangesOK'
    <3>1. CloudOK'
      BY <1>r DEF RangesOK, CloudOK
    <3>2. PointOK'
      BY <1>r DEF RangesOK, PointOK
    <3> QED BY <3>1, <3>2 DEF RangesOK
  <2>4. MadeOK' /\ AddressOK'
    BY DEF MadeOK, AddressOK
  <2>5. UpOK'
    BY DEF UpOK
  <2>6. CleanedUp' /\ LaunchedIsWhole'
    BY DEF MadeOK, AddressOK, UpOK, CleanedUp, LaunchedIsWhole
  <2> QED
    BY <1>0, <2>1, <2>3, <2>4, <2>5, <2>6 DEF TypeOK, FlagsOK, LoopsOK, RangesOK, CloudOK, PointOK
<1>5. CASE Address
  <2> USE <1>5 DEF Address, Works, Fails, Goto, Raises, End, options, cloudVars, sshVars, loopVars, history
  <2>1. FlagsOK'
    BY DEF TypeOK, FlagsOK
  <2>3. RangesOK'
    <3>1. CloudOK'
      BY <1>r DEF RangesOK, CloudOK
    <3>2. PointOK'
      BY <1>r DEF RangesOK, PointOK
    <3> QED BY <3>1, <3>2 DEF RangesOK
  <2>4. MadeOK' /\ AddressOK'
    BY DEF MadeOK, AddressOK
  <2>5. UpOK'
    BY DEF UpOK
  <2>6. CleanedUp' /\ LaunchedIsWhole'
    BY DEF MadeOK, AddressOK, UpOK, CleanedUp, LaunchedIsWhole
  <2> QED
    BY <1>0, <2>1, <2>3, <2>4, <2>5, <2>6 DEF TypeOK, FlagsOK, LoopsOK, RangesOK, CloudOK, PointOK
<1>6. CASE Attach
  <2> USE <1>6 DEF Attach, Works, Fails, Goto, Raises, End, options, cloudVars, sshVars, loopVars, history
  <2>1. FlagsOK'
    BY DEF TypeOK, FlagsOK
  <2>3. RangesOK'
    <3>1. CloudOK'
      BY <1>r DEF RangesOK, CloudOK
    <3>2. PointOK'
      BY <1>r DEF RangesOK, PointOK
    <3> QED BY <3>1, <3>2 DEF RangesOK
  <2>4. MadeOK' /\ AddressOK'
    BY DEF MadeOK, AddressOK
  <2>5. UpOK'
    BY DEF UpOK
  <2>6. CleanedUp' /\ LaunchedIsWhole'
    BY DEF MadeOK, AddressOK, UpOK, CleanedUp, LaunchedIsWhole
  <2> QED
    BY <1>0, <2>1, <2>3, <2>4, <2>5, <2>6 DEF TypeOK, FlagsOK, LoopsOK, RangesOK, CloudOK, PointOK
<1>7. CASE Login
  <2> USE <1>7 DEF Login, Goto, Raises, End, Timeout, Connected, NotLetIn, NotYet, options, cloudVars, sshVars, loopVars, history
  <2>1. FlagsOK'
    BY DEF TypeOK, FlagsOK
  <2>3. RangesOK'
    <3>1. CloudOK'
      BY <1>r DEF RangesOK, CloudOK
    <3>2. PointOK'
      BY <1>r DEF RangesOK, PointOK
    <3> QED BY <3>1, <3>2 DEF RangesOK
  <2>4. MadeOK' /\ AddressOK'
    BY DEF MadeOK, AddressOK
  <2>5. UpOK'
    BY DEF UpOK
  <2>6. CleanedUp' /\ LaunchedIsWhole'
    BY DEF MadeOK, AddressOK, UpOK, CleanedUp, LaunchedIsWhole
  <2> QED
    BY <1>0, <2>1, <2>3, <2>4, <2>5, <2>6 DEF TypeOK, FlagsOK, LoopsOK, RangesOK, CloudOK, PointOK
<1>8. CASE RootKeys
  <2> USE <1>8 DEF RootKeys, Goto, Raises, End, options, cloudVars, sshVars, loopVars, history
  <2>1. FlagsOK'
    BY DEF TypeOK, FlagsOK
  <2>3. RangesOK'
    <3>1. CloudOK'
      BY <1>r DEF RangesOK, CloudOK
    <3>2. PointOK'
      BY <1>r DEF RangesOK, PointOK
    <3> QED BY <3>1, <3>2 DEF RangesOK
  <2>4. MadeOK' /\ AddressOK'
    BY DEF MadeOK, AddressOK
  <2>5. UpOK'
    BY DEF UpOK
  <2>6. CleanedUp' /\ LaunchedIsWhole'
    BY DEF MadeOK, AddressOK, UpOK, CleanedUp, LaunchedIsWhole
  <2> QED
    BY <1>0, <2>1, <2>3, <2>4, <2>5, <2>6 DEF TypeOK, FlagsOK, LoopsOK, RangesOK, CloudOK, PointOK
<1>9. CASE LoginAsRoot
  <2> USE <1>9 DEF LoginAsRoot, Goto, Raises, End, Timeout, Connected, NotLetIn, NotYet, options, cloudVars, sshVars, loopVars, history
  <2>1. FlagsOK'
    BY DEF TypeOK, FlagsOK
  <2>3. RangesOK'
    <3>1. CloudOK'
      BY <1>r DEF RangesOK, CloudOK
    <3>2. PointOK'
      BY <1>r DEF RangesOK, PointOK
    <3> QED BY <3>1, <3>2 DEF RangesOK
  <2>4. MadeOK' /\ AddressOK'
    BY DEF MadeOK, AddressOK
  <2>5. UpOK'
    BY DEF UpOK
  <2>6. CleanedUp' /\ LaunchedIsWhole'
    BY DEF MadeOK, AddressOK, UpOK, CleanedUp, LaunchedIsWhole
  <2> QED
    BY <1>0, <2>1, <2>3, <2>4, <2>5, <2>6 DEF TypeOK, FlagsOK, LoopsOK, RangesOK, CloudOK, PointOK
<1>10. CASE SetUp
  <2> USE <1>10 DEF SetUp, Goto, Raises, End, options, cloudVars, sshVars, loopVars, history
  <2>1. FlagsOK'
    BY DEF TypeOK, FlagsOK
  <2>3. RangesOK'
    <3>1. CloudOK'
      BY <1>r DEF RangesOK, CloudOK
    <3>2. PointOK'
      BY <1>r DEF RangesOK, PointOK
    <3> QED BY <3>1, <3>2 DEF RangesOK
  <2>4. MadeOK' /\ AddressOK'
    BY DEF MadeOK, AddressOK
  <2>5. UpOK'
    BY DEF UpOK
  <2>6. CleanedUp' /\ LaunchedIsWhole'
    BY DEF MadeOK, AddressOK, UpOK, CleanedUp, LaunchedIsWhole
  <2> QED
    BY <1>0, <2>1, <2>3, <2>4, <2>5, <2>6 DEF TypeOK, FlagsOK, LoopsOK, RangesOK, CloudOK, PointOK
<1>11. CASE Agent
  <2> USE <1>11 DEF Agent, Goto, Raises, End, options, cloudVars, sshVars, loopVars, history
  <2>1. FlagsOK'
    BY DEF TypeOK, FlagsOK
  <2>3. RangesOK'
    <3>1. CloudOK'
      BY <1>r DEF RangesOK, CloudOK
    <3>2. PointOK'
      BY <1>r DEF RangesOK, PointOK
    <3> QED BY <3>1, <3>2 DEF RangesOK
  <2>4. MadeOK' /\ AddressOK'
    BY DEF MadeOK, AddressOK
  <2>5. UpOK'
    BY DEF UpOK
  <2>6. CleanedUp' /\ LaunchedIsWhole'
    BY DEF MadeOK, AddressOK, UpOK, CleanedUp, LaunchedIsWhole
  <2> QED
    BY <1>0, <2>1, <2>3, <2>4, <2>5, <2>6 DEF TypeOK, FlagsOK, LoopsOK, RangesOK, CloudOK, PointOK
<1>12. CASE Reboot
  <2> USE <1>12 DEF Reboot, Goto, Raises, End, options, cloudVars, sshVars, loopVars, history
  <2>1. FlagsOK'
    BY DEF TypeOK, FlagsOK
  <2>3. RangesOK'
    <3>1. CloudOK'
      BY <1>r DEF RangesOK, CloudOK
    <3>2. PointOK'
      BY <1>r DEF RangesOK, PointOK
    <3> QED BY <3>1, <3>2 DEF RangesOK
  <2>4. MadeOK' /\ AddressOK'
    BY DEF MadeOK, AddressOK
  <2>5. UpOK'
    BY DEF UpOK
  <2>6. CleanedUp' /\ LaunchedIsWhole'
    BY DEF MadeOK, AddressOK, UpOK, CleanedUp, LaunchedIsWhole
  <2> QED
    BY <1>0, <2>1, <2>3, <2>4, <2>5, <2>6 DEF TypeOK, FlagsOK, LoopsOK, RangesOK, CloudOK, PointOK
<1>13. CASE DoneKey
  <2> USE <1>13 DEF DoneKey, Works, Fails, Goto, Raises, End, options, cloudVars, sshVars, loopVars, history
  <2>1. FlagsOK'
    BY DEF TypeOK, FlagsOK
  <2>3. RangesOK'
    <3>1. CloudOK'
      BY <1>r DEF RangesOK, CloudOK
    <3>2. PointOK'
      BY <1>r DEF RangesOK, PointOK
    <3> QED BY <3>1, <3>2 DEF RangesOK
  <2>4. MadeOK' /\ AddressOK'
    BY DEF MadeOK, AddressOK
  <2>5. UpOK'
    BY DEF UpOK
  <2>6. CleanedUp' /\ LaunchedIsWhole'
    BY DEF MadeOK, AddressOK, UpOK, CleanedUp, LaunchedIsWhole
  <2> QED
    BY <1>0, <2>1, <2>3, <2>4, <2>5, <2>6 DEF TypeOK, FlagsOK, LoopsOK, RangesOK, CloudOK, PointOK
<1>14. CASE Show
  <2> USE <1>14 DEF Show, End, options, cloudVars, sshVars, loopVars, history
  <2>1. FlagsOK'
    BY DEF TypeOK, FlagsOK
  <2>3. RangesOK'
    <3>1. CloudOK'
      BY <1>r DEF RangesOK, CloudOK
    <3>2. PointOK'
      BY <1>r DEF RangesOK, PointOK
    <3> QED BY <3>1, <3>2 DEF RangesOK
  <2>4. MadeOK' /\ AddressOK'
    BY DEF MadeOK, AddressOK
  <2>5. UpOK'
    BY DEF UpOK
  <2>6. CleanedUp' /\ LaunchedIsWhole'
    BY DEF MadeOK, AddressOK, UpOK, CleanedUp, LaunchedIsWhole
  <2> QED
    BY <1>0, <2>1, <2>3, <2>4, <2>5, <2>6 DEF TypeOK, FlagsOK, LoopsOK, RangesOK, CloudOK, PointOK
<1>15. CASE RemoveIp
  <2> USE <1>15 DEF RemoveIp, Found, Goto, options, cloudVars, sshVars, loopVars, history
  <2>1. FlagsOK'
    BY DEF TypeOK, FlagsOK
  <2>3. RangesOK'
    <3>1. CloudOK'
      BY <1>r DEF RangesOK, CloudOK
    <3>2. PointOK'
      BY <1>r DEF RangesOK, PointOK
    <3> QED BY <3>1, <3>2 DEF RangesOK
  <2>4. MadeOK' /\ AddressOK'
    BY DEF MadeOK, AddressOK
  <2>5. UpOK'
    BY DEF UpOK
  <2>6. CleanedUp' /\ LaunchedIsWhole'
    BY DEF MadeOK, AddressOK, UpOK, CleanedUp, LaunchedIsWhole
  <2> QED
    BY <1>0, <2>1, <2>3, <2>4, <2>5, <2>6 DEF TypeOK, FlagsOK, LoopsOK, RangesOK, CloudOK, PointOK
<1>16. CASE RemoveKey
  <2> USE <1>16 DEF RemoveKey, Goto, options, cloudVars, sshVars, loopVars, history
  <2>1. FlagsOK'
    BY DEF TypeOK, FlagsOK
  <2>3. RangesOK'
    <3>1. CloudOK'
      BY <1>r DEF RangesOK, CloudOK
    <3>2. PointOK'
      BY <1>r DEF RangesOK, PointOK
    <3> QED BY <3>1, <3>2 DEF RangesOK
  <2>4. MadeOK' /\ AddressOK'
    BY DEF MadeOK, AddressOK
  <2>5. UpOK'
    BY DEF UpOK
  <2>6. CleanedUp' /\ LaunchedIsWhole'
    BY DEF MadeOK, AddressOK, UpOK, CleanedUp, LaunchedIsWhole
  <2> QED
    BY <1>0, <2>1, <2>3, <2>4, <2>5, <2>6 DEF TypeOK, FlagsOK, LoopsOK, RangesOK, CloudOK, PointOK
<1>17. CASE RemoveServer
  <2> USE <1>17 DEF RemoveServer, End, options, cloudVars, sshVars, loopVars, history
  <2>1. FlagsOK'
    BY DEF TypeOK, FlagsOK
  <2>3. RangesOK'
    <3>1. CloudOK'
      BY <1>r DEF RangesOK, CloudOK
    <3>2. PointOK'
      BY <1>r DEF RangesOK, PointOK
    <3> QED BY <3>1, <3>2 DEF RangesOK
  <2>4. MadeOK' /\ AddressOK'
    BY DEF MadeOK, AddressOK
  <2>5. UpOK'
    BY DEF UpOK
  <2>6. CleanedUp' /\ LaunchedIsWhole'
    <3>1. outcome' = "failed" /\ (unclean => unclean')
      OBVIOUS
    <3>2. server' = "deleted" \/ unclean'
      OBVIOUS
    <3>3. ~keypair' \/ unclean'
      BY <3>1 DEF MadeOK
    <3>4. fip' = "none" \/ (fip' = "loose" /\ (notattached' \/ unseen')) \/ unanswered' \/ unclean'
      BY <3>1 DEF AddressOK, TypeOK, MadeOK
    <3> QED
      BY <3>1, <3>2, <3>3, <3>4 DEF CleanedUp, LaunchedIsWhole
  <2> QED
    BY <1>0, <2>1, <2>3, <2>4, <2>5, <2>6 DEF TypeOK, FlagsOK, LoopsOK, RangesOK, CloudOK, PointOK
<1>18. CASE Build
  <2> USE <1>18 DEF Build, options, cloudVars, sshVars, loopVars, history
  <2>1. FlagsOK'
    BY DEF TypeOK, FlagsOK
  <2>3. RangesOK'
    <3>1. CloudOK'
      BY <1>r DEF RangesOK, CloudOK
    <3>2. PointOK'
      BY <1>r DEF RangesOK, PointOK
    <3> QED BY <3>1, <3>2 DEF RangesOK
  <2>4. MadeOK' /\ AddressOK'
    BY DEF MadeOK, AddressOK
  <2>5. UpOK'
    BY DEF UpOK
  <2>6. CleanedUp' /\ LaunchedIsWhole'
    BY DEF MadeOK, AddressOK, UpOK, CleanedUp, LaunchedIsWhole
  <2> QED
    BY <1>0, <2>1, <2>3, <2>4, <2>5, <2>6 DEF TypeOK, FlagsOK, LoopsOK, RangesOK, CloudOK, PointOK
<1>19. CASE StartSshd
  <2> USE <1>19 DEF StartSshd, options, cloudVars, sshVars, loopVars, history
  <2>1. FlagsOK'
    BY DEF TypeOK, FlagsOK
  <2>3. RangesOK'
    <3>1. CloudOK'
      BY <1>r DEF RangesOK, CloudOK
    <3>2. PointOK'
      BY <1>r DEF RangesOK, PointOK
    <3> QED BY <3>1, <3>2 DEF RangesOK
  <2>4. MadeOK' /\ AddressOK'
    BY DEF MadeOK, AddressOK
  <2>5. UpOK'
    BY DEF UpOK
  <2>6. CleanedUp' /\ LaunchedIsWhole'
    BY DEF MadeOK, AddressOK, UpOK, CleanedUp, LaunchedIsWhole
  <2> QED
    BY <1>0, <2>1, <2>3, <2>4, <2>5, <2>6 DEF TypeOK, FlagsOK, LoopsOK, RangesOK, CloudOK, PointOK
<1>20. CASE Interrupt
  <2> USE <1>20 DEF Interrupt, End, options, cloudVars, sshVars, loopVars, history
  <2>1. FlagsOK'
    BY DEF TypeOK, FlagsOK
  <2>3. RangesOK'
    <3>1. CloudOK'
      BY <1>r DEF RangesOK, CloudOK
    <3>2. PointOK'
      BY <1>r DEF RangesOK, PointOK
    <3> QED BY <3>1, <3>2 DEF RangesOK
  <2>4. MadeOK' /\ AddressOK'
    BY DEF MadeOK, AddressOK
  <2>5. UpOK'
    BY DEF UpOK
  <2>6. CleanedUp' /\ LaunchedIsWhole'
    BY DEF MadeOK, AddressOK, UpOK, CleanedUp, LaunchedIsWhole
  <2> QED
    BY <1>0, <2>1, <2>3, <2>4, <2>5, <2>6 DEF TypeOK, FlagsOK, LoopsOK, RangesOK, CloudOK, PointOK
<1>22. CASE ListCatchesUp
  <2> USE <1>22 DEF ListCatchesUp, options, cloudVars, sshVars, loopVars, history
  <2>1. FlagsOK'
    BY DEF TypeOK, FlagsOK
  <2>3. RangesOK'
    <3>1. CloudOK'
      BY <1>r DEF RangesOK, CloudOK
    <3>2. PointOK'
      BY <1>r DEF RangesOK, PointOK
    <3> QED BY <3>1, <3>2 DEF RangesOK
  <2>4. MadeOK' /\ AddressOK'
    BY DEF MadeOK, AddressOK
  <2>5. UpOK'
    BY DEF UpOK
  <2>6. CleanedUp' /\ LaunchedIsWhole'
    BY DEF MadeOK, AddressOK, UpOK, CleanedUp, LaunchedIsWhole
  <2> QED
    BY <1>0, <2>1, <2>3, <2>4, <2>5, <2>6 DEF TypeOK, FlagsOK, LoopsOK, RangesOK, CloudOK, PointOK
<1>21. CASE UNCHANGED vars
  <2> USE <1>21 DEF vars, options, cloudVars, sshVars, loopVars, history
  <2>1. TypeOK'
    <3>1. FlagsOK'
      BY DEF TypeOK, FlagsOK
    <3>2. RangesOK'
      <4>1. CloudOK'
        BY <1>r DEF RangesOK, CloudOK
      <4>2. PointOK'
        BY <1>r DEF RangesOK, PointOK
      <4> QED BY <4>1, <4>2 DEF RangesOK
    <3> QED
      BY <1>0, <3>1, <3>2 DEF TypeOK, FlagsOK, LoopsOK, RangesOK, CloudOK, PointOK
  <2>2. MadeOK' /\ AddressOK' /\ UpOK'
    BY DEF MadeOK, AddressOK, UpOK
  <2>3. CleanedUp' /\ LaunchedIsWhole'
    BY DEF CleanedUp, LaunchedIsWhole
  <2> QED
    BY <2>1, <2>2, <2>3
<1> QED
  BY <1>1, <1>2, <1>3, <1>4, <1>5, <1>6, <1>7, <1>8, <1>9, <1>10, <1>11, <1>12, <1>13, <1>14, <1>15, <1>16, <1>17, <1>18, <1>19, <1>20, <1>21, <1>22 DEF Next, Program

(* The invariant holds in every state of every behaviour. *)
LEMMA Invariance == Spec => []LaunchInv
BY InitInv, NextInv, PTL DEF Spec

-----------------------------------------------------------------------------
(* THE THEOREMS *)

(* The variables have their types: the loops over users, polls and commands *)
(* stay within their bounds.                                                *)
THEOREM LaunchTypeCorrect == Spec => []TypeOK
<1>1. LaunchInv => TypeOK
  BY DEF LaunchInv
<1> QED
  BY <1>1, Invariance, PTL

(* A failed launch has taken down what it made, except an address it could  *)
(* not attach or that the list it cleaned up from did not show, if the      *)
(* calls that take things down work and every call that took effect was     *)
(* answered: build_server with delete_server.                               *)
THEOREM FailedLaunchesAreCleanedUp == Spec => []CleanedUp
<1>1. LaunchInv => CleanedUp
  BY DEF LaunchInv
<1> QED
  BY <1>1, Invariance, PTL

(* A launch that is reported has a server that is active, lets root in, has *)
(* been through all set-up commands and the puppet agent, and has no        *)
(* throw-away key left.                                                     *)
THEOREM LaunchedServersAreWhole == Spec => []LaunchedIsWhole
<1>1. LaunchInv => LaunchedIsWhole
  BY DEF LaunchInv
<1> QED
  BY <1>1, Invariance, PTL

-----------------------------------------------------------------------------
(* PART TWO: ACCESSBOT *)

Kept(c, n) == IF Target(c, n) # {} THEN Target(c, n) ELSE Mask(c)
Wanted(c, n) == IF Target(c, n) # {} THEN Target(c, n) ELSE original[c][n] \cap Mask(c)

(* The changes on their way: not sent yet, or not carried out yet. *)
Adds == {r.change : r \in {q \in Range(requests) : q.kind = "add"}}
Pending == changes \cup Adds

(* The channels the bot has not judged yet. *)
Untouched == Range(channels) \cup {current}

(* No change asks for what the configuration does not, whatever the list it *)
(* was computed from; none is for a channel that is still to be judged.     *)
AsConfigured ==
    \A ch \in Pending : /\ ch.plus \subseteq Target(ch.channel, ch.nick)
                        /\ ch.minus \cap Kept(ch.channel, ch.nick) = {}
                        /\ ch.channel \notin Untouched

(* The first notices and requests go one by one. *)
Opening ==
    /\ state = "hello" => notices = <<[kind |-> "welcome"]>> /\ requests = <<>>
    /\ state = "cap" => \/ requests = <<[kind |-> "cap"]>> /\ notices = <<>>
                        \/ requests = <<>> /\ notices \in {<<[kind |-> "ack"]>>, <<[kind |-> "nak"]>>, <<>>}
    /\ state \in {"hello", "cap"} => current = NoChannel /\ changes = {}
    /\ state = "up" => /\ \A r \in Range(requests) : r.kind # "cap"
                       /\ \A m \in Range(notices) : m.kind \notin {"welcome", "ack", "nak"}
    /\ ~Alive => channels = <<>> /\ current = NoChannel /\ changes = {}

IsAnswer(m) == m.kind \in {"entry", "end"}
EndLast == \A i, j \in 1..Len(notices) : notices[i].kind = "end" /\ IsAnswer(notices[j]) => j <= i
NoAnswers == \A m \in Range(notices) : ~IsAnswer(m)

ListLast ==
    \A i \in 1..Len(requests) : requests[i].kind = "list"
        => i = Len(requests) /\ requests[i].channel = current /\ list = {} /\ NoAnswers

(* Of the channels still to do each is there once. *)
Distinct == IsInjective(channels) /\ current \notin Range(channels)

(* One list is asked for at a time, behind all other requests; what comes   *)
(* back ends with the end, and no change is computed before it.             *)
OneList ==
    /\ current # NoChannel => changes = {}
    /\ state = "up" =>
       /\ ListLast /\ EndLast
       /\ current = NoChannel => NoAnswers

Told(n) == {e[2] : e \in {x \in list : x[1] = n}}
Telling(n) == {m.flags : m \in {x \in Range(notices) : x.kind = "entry" /\ x.nick = n}}

(* Once the end is on its way, what was collected and what is still to come *)
(* is the list of the start, but for what has been disturbed.               *)
ListIsTrue ==
    state = "up" /\ (\E m \in Range(notices) : m.kind = "end") =>
        \A n \in Nicks : Undisturbed(current, n) =>
            Told(n) \cup Telling(n) = IF original[current][n] = {} THEN {} ELSE {original[current][n]}

(* An entry the bot has judged is as wanted, or its change is on its way;   *)
(* carried out twice it does the same.                                      *)
Settled(c, n) ==
    /\ \A ch \in Pending : ch.channel = c /\ ch.nick = n =>
            ch.minus = ToRemove(c, n, original[c][n]) /\ ch.plus = ToAdd(c, n, original[c][n])
    /\ \/ flags[c][n] = Wanted(c, n)
       \/ flags[c][n] = original[c][n] /\ \E ch \in Pending : ch.channel = c /\ ch.nick = n

Progress ==
    \A c \in Channels, n \in Nicks : Undisturbed(c, n) =>
        IF c \in Untouched THEN flags[c][n] = original[c][n]
        ELSE state \in {"cut", "crashed"} \/ Settled(c, n)

(* BotTypeOK, with the queues as sequences. *)
ServTypeOK == /\ flags \in Lists /\ original \in Lists /\ registered \subseteq Channels
              /\ disturbed \subseteq Channels \X Nicks
QueuesOK == requests \in Seq(Request) /\ notices \in Seq(Notice)
BotOK == /\ state \in {"hello", "cap", "up", "quit", "cut", "crashed"}
         /\ current \in Channels \cup {NoChannel}
         /\ list \subseteq Nicks \X SUBSET Flags /\ changes \subseteq Change
         /\ IsPrefix(channels, ChannelList) /\ channels \in Seq(Channels)
CountsOK == identified \in BOOLEAN /\ denied \subseteq Request /\ edits \in 0..MaxEdits /\ extras \in 0..MaxExtras

BotInv == /\ ServTypeOK /\ QueuesOK /\ BotOK
          /\ AsConfigured /\ Opening /\ Distinct /\ OneList /\ ListIsTrue /\ Progress

-----------------------------------------------------------------------------

(* The targets of the configuration are sets of flags, and its channels a    *)
(* sequence.                                                                 *)
LEMMA ConfigFacts ==
    /\ \A c \in Channels, n \in Nicks : Target(c, n) \subseteq Flags
    /\ ChannelList \in Seq(Channels)
<1>1. ASSUME NEW c \in Channels, NEW n \in Nicks PROVE Target(c, n) \subseteq Flags
  <2> DEFINE roles == IF Roles[c][n] # {} THEN Roles[c][n] ELSE GlobalRoles[n]
  <2>1. roles \subseteq DOMAIN Access
    BY ConfigAssumption
  <2>2. roles # {} => (CHOOSE r \in roles : TRUE) \in roles
    OBVIOUS
  <2>3. Target(c, n) = IF roles = {} THEN {} ELSE Access[CHOOSE r \in roles : TRUE]
    BY DEF Target
  <2> HIDE DEF roles
  <2> QED BY <2>1, <2>2, <2>3, ConfigAssumption
<1>2. ChannelList \in Seq(Channels)
  BY ConfigAssumption
<1> QED BY <1>1, <1>2

(* What is left when the last channel is taken off. *)
LEMMA DistinctFront ==
    ASSUME NEW S, NEW s \in Seq(S), s # <<>>, IsInjective(s)
    PROVE  IsInjective(Front(s)) /\ Last(s) \notin Range(Front(s))
<1> DEFINE k == Len(s)
           t == Front(s)
<1>1. k \in Nat \ {0} /\ DOMAIN s = 1..k
  OBVIOUS
<1>2. t \in Seq(S) /\ Len(t) = k - 1 /\ (\A i \in 1..(k - 1) : t[i] = s[i]) /\ Last(s) = s[k]
  BY FrontAndLast
<1>3. DOMAIN t = 1..(k - 1)
  BY <1>2
<1> HIDE DEF k, t
<1>4. IsInjective(t)
  BY <1>1, <1>2, <1>3 DEF IsInjective
<1>5. Last(s) \notin Range(t)
  <2> SUFFICES ASSUME NEW i \in 1..(k - 1), t[i] = s[k] PROVE FALSE
    BY <1>2, <1>3 DEF Range
  <2> QED BY <1>1, <1>2 DEF IsInjective
<1> QED BY <1>4, <1>5 DEF t

(* The elements of a concatenation. *)
LEMMA RangeOfConcat ==
    ASSUME NEW S, NEW s \in Seq(S), NEW t \in Seq(S)
    PROVE  s \o t \in Seq(S) /\ Range(s \o t) = Range(s) \cup Range(t)
<1> DEFINE u == s \o t
<1>1. /\ u \in Seq(S) /\ Len(u) = Len(s) + Len(t) /\ Len(s) \in Nat /\ Len(t) \in Nat
      /\ \A i \in 1..Len(s) : u[i] = s[i]
      /\ \A i \in 1..Len(t) : u[i + Len(s)] = t[i]
      /\ \A i \in 1..Len(u) : i <= Len(s) \/ u[i] = t[i - Len(s)]
      /\ DOMAIN s = 1..Len(s) /\ DOMAIN t = 1..Len(t) /\ DOMAIN u = 1..Len(u)
  OBVIOUS
<1> HIDE DEF u
<1>2. ASSUME NEW i \in 1..Len(u) PROVE u[i] \in Range(s) \cup Range(t)
  <2>1. CASE i <= Len(s)
    <3>1. i \in 1..Len(s) /\ u[i] = s[i]
      BY <1>1, <2>1
    <3> QED BY <1>1, <3>1 DEF Range
  <2>2. CASE i > Len(s)
    <3>1. i - Len(s) \in 1..Len(t) /\ u[i] = t[i - Len(s)]
      BY <1>1, <2>2
    <3> QED BY <1>1, <3>1 DEF Range
  <2> QED BY <1>1, <2>1, <2>2
<1>3. ASSUME NEW i \in 1..Len(s) PROVE s[i] \in Range(u)
  BY <1>1 DEF Range
<1>4. ASSUME NEW i \in 1..Len(t) PROVE t[i] \in Range(u)
  <2>1. i + Len(s) \in 1..Len(u) /\ u[i + Len(s)] = t[i]
    BY <1>1
  <2> QED BY <1>1, <2>1 DEF Range
<1>5. Range(u) = Range(s) \cup Range(t)
  <2>1. /\ Range(u) = {u[i] : i \in 1..Len(u)} /\ Range(s) = {s[i] : i \in 1..Len(s)}
        /\ Range(t) = {t[i] : i \in 1..Len(t)}
    BY <1>1 DEF Range
  <2>2. Range(u) \subseteq Range(s) \cup Range(t)
    BY <1>2, <2>1
  <2>3. Range(s) \subseteq Range(u) /\ Range(t) \subseteq Range(u)
    BY <1>3, <1>4, <2>1
  <2> QED BY <2>2, <2>3
<1> QED BY <1>1, <1>5 DEF u

(* An access list in some order. *)
LEMMA SetToSeqFacts ==
    ASSUME NEW S, IsFiniteSet(S)
    PROVE  SetToSeq(S) \in Seq(S) /\ Range(SetToSeq(S)) = S
<1> DEFINE n == Cardinality(S)
           f == SetToSeq(S)
<1>1. n \in Nat /\ ExistsBijection(1..n, S)
  BY FS_CardinalityType
<1>2. \E g \in [1..n -> S] : IsInjective(g)
  BY <1>1 DEF ExistsBijection, Bijection, Injection
<1>3. f \in [1..n -> S] /\ IsInjective(f)
  BY <1>2 DEF SetToSeq
<1>4. IsFiniteSet(1..n) /\ Cardinality(1..n) = n
  BY <1>1, FS_Interval
<1> HIDE DEF n, f
<1>5. f \in Injection(1..n, S)
  BY <1>3 DEF Injection
<1>6. f \in Surjection(1..n, S)
  BY <1>4, <1>5, FS_Injection DEF n
<1>7. Range(f) = S
  BY <1>3, <1>6 DEF Surjection, Range
<1>8. f \in Seq(S)
  BY <1>1, <1>3
<1> QED BY <1>7, <1>8 DEF f

(* WHAT A STEP DOES TO THE QUEUES *)

(* Taking the next notice: the end of a list is the last of its answers. *)
LEMMA NoteTaken ==
    ASSUME QueuesOK, notices # <<>>, notices' = Tail(notices)
    PROVE  /\ notices' \in Seq(Notice) /\ Head(notices) \in Notice /\ Head(notices) \in Range(notices)
           /\ Range(notices) = {Head(notices)} \cup Range(notices')
           /\ Range(notices') \subseteq Range(notices)
           /\ EndLast => EndLast'
           /\ EndLast /\ Head(notices).kind = "end" => NoAnswers'
           /\ NoAnswers => NoAnswers'
<1>1. /\ notices \in Seq(Notice) /\ Len(notices) \in Nat /\ Len(notices) >= 1
      /\ Len(notices') = Len(notices) - 1 /\ Head(notices) = notices[1]
      /\ \A i \in 1..Len(notices') : notices'[i] = notices[i + 1]
      /\ notices' \in Seq(Notice) /\ DOMAIN notices' = 1..Len(notices')
  BY DEF QueuesOK
<1>2. Head(notices) \in Notice
  BY <1>1
<1>3. Range(notices) = {Head(notices)} \cup Range(notices')
  BY <1>1, RangeOfTail
<1>4. EndLast => EndLast'
  <2> SUFFICES ASSUME EndLast, NEW i \in 1..Len(notices'), NEW j \in 1..Len(notices'),
                      notices'[i].kind = "end", IsAnswer(notices'[j])
               PROVE  j <= i
    BY DEF EndLast, IsAnswer
  <2>1. i + 1 \in 1..Len(notices) /\ j + 1 \in 1..Len(notices)
    BY <1>1
  <2>2. notices[i + 1].kind = "end" /\ IsAnswer(notices[j + 1])
    BY <1>1
  <2>3. j + 1 <= i + 1
    BY <2>1, <2>2 DEF EndLast
  <2> QED BY <1>1, <2>3
<1>5. EndLast /\ Head(notices).kind = "end" => NoAnswers'
  <2> SUFFICES ASSUME EndLast, Head(notices).kind = "end", NEW j \in 1..Len(notices'), IsAnswer(notices'[j])
               PROVE  FALSE
    BY <1>1 DEF NoAnswers, Range, IsAnswer
  <2>1. 1 \in 1..Len(notices) /\ j + 1 \in 1..Len(notices) /\ notices[1].kind = "end" /\ IsAnswer(notices[j + 1])
    BY <1>1
  <2>2. j + 1 <= 1
    BY <2>1 DEF EndLast
  <2> QED BY <1>1, <2>2
<1> QED BY <1>1, <1>2, <1>3, <1>4, <1>5 DEF NoAnswers, IsAnswer

(* A notice that is no part of a list. *)
LEMMA NoteAdded ==
    ASSUME QueuesOK, NEW m \in Notice, ~IsAnswer(m), notices' = notices \o <<m>>
    PROVE  /\ notices' \in Seq(Notice) /\ Range(notices') = Range(notices) \cup {m}
           /\ EndLast => EndLast'
           /\ NoAnswers => NoAnswers'
           /\ (\E x \in Range(notices') : x.kind = "end") => \E x \in Range(notices) : x.kind = "end"
           /\ \A n : Telling(n)' = Telling(n)
<1>1. notices \in Seq(Notice) /\ <<m>> \in Seq(Notice)
  BY DEF QueuesOK
<1>2. notices' \in Seq(Notice) /\ Range(notices') = Range(notices) \cup {m}
  <2> DEFINE one == <<m>>
  <2>1. one \in Seq(Notice) /\ notices' = notices \o one
    BY <1>1
  <2>2. Range(one) = {m}
    BY RangeOfSingle
  <2> HIDE DEF one
  <2> QED BY <1>1, <2>1, <2>2, RangeOfConcat
<1>3. /\ Len(notices) \in Nat /\ Len(notices') = Len(notices) + 1
      /\ \A i \in 1..Len(notices) : notices'[i] = notices[i]
      /\ notices'[Len(notices) + 1] = m
  BY <1>1
<1>4. EndLast => EndLast'
  <2> SUFFICES ASSUME EndLast, NEW i \in 1..Len(notices'), NEW j \in 1..Len(notices'),
                      notices'[i].kind = "end", IsAnswer(notices'[j])
               PROVE  j <= i
    BY DEF EndLast, IsAnswer
  <2>1. IsAnswer(notices'[i])
    BY DEF IsAnswer
  <2>2. i # Len(notices) + 1 /\ j # Len(notices) + 1
    BY <1>3, <2>1
  <2>3. i \in 1..Len(notices) /\ j \in 1..Len(notices)
    BY <1>3, <2>2
  <2> QED BY <1>3, <2>3 DEF EndLast
<1>5. m.kind # "end" /\ m.kind # "entry"
  BY DEF IsAnswer
<1>6. ASSUME NEW n PROVE Telling(n)' = Telling(n)
  BY <1>2, <1>5 DEF Telling
<1> QED BY <1>2, <1>4, <1>5, <1>6 DEF NoAnswers, IsAnswer

NoList == \A r \in Range(requests) : r.kind # "list"

(* Taking the next request: while a list is asked for, the request is the    *)
(* last one and nothing of an answer has come.                               *)
LEMMA RequestTaken ==
    ASSUME QueuesOK, requests # <<>>, requests' = Tail(requests)
    PROVE  /\ requests' \in Seq(Request) /\ Head(requests) \in Request /\ Head(requests) \in Range(requests)
           /\ Range(requests) = {Head(requests)} \cup Range(requests')
           /\ ListLast /\ UNCHANGED <<current, list>> /\ (NoAnswers => NoAnswers') => ListLast'
           /\ ListLast /\ Head(requests).kind = "list"
                => /\ Head(requests).channel = current /\ list = {} /\ NoAnswers
                   /\ requests' = <<>>
<1>1. /\ requests \in Seq(Request) /\ Len(requests) \in Nat /\ Len(requests) >= 1
      /\ Len(requests') = Len(requests) - 1 /\ Head(requests) = requests[1]
      /\ \A i \in 1..Len(requests') : requests'[i] = requests[i + 1]
      /\ requests' \in Seq(Request)
  BY DEF QueuesOK
<1>2. Head(requests) \in Request
  BY <1>1
<1>3. Range(requests) = {Head(requests)} \cup Range(requests')
  BY <1>1, RangeOfTail
<1>4. ListLast /\ UNCHANGED <<current, list>> /\ (NoAnswers => NoAnswers') => ListLast'
  <2> SUFFICES ASSUME ListLast, UNCHANGED <<current, list>>, NoAnswers => NoAnswers',
                      NEW i \in 1..Len(requests'), requests'[i].kind = "list"
               PROVE  i = Len(requests') /\ requests'[i].channel = current' /\ list' = {} /\ NoAnswers'
    BY DEF ListLast
  <2>1. i + 1 \in 1..Len(requests) /\ requests[i + 1] = requests'[i]
    BY <1>1
  <2>2. i + 1 = Len(requests) /\ requests[i + 1].channel = current /\ list = {} /\ NoAnswers
    BY <2>1 DEF ListLast
  <2>3. i = Len(requests')
    <3>1. Len(requests') = Len(requests) - 1 /\ Len(requests) \in Nat
      BY <1>1
    <3>2. i \in Int
      BY <3>1
    <3> QED BY <2>2, <3>1, <3>2
  <2>4. requests'[i].channel = current' /\ list' = {} /\ NoAnswers'
    BY <2>1, <2>2
  <2> QED BY <2>3, <2>4
<1>5. ASSUME ListLast, Head(requests).kind = "list"
      PROVE  /\ Head(requests).channel = current /\ list = {} /\ NoAnswers
             /\ requests' = <<>>
  <2>1. 1 \in 1..Len(requests) /\ requests[1].kind = "list"
    BY <1>1, <1>5
  <2>2. 1 = Len(requests) /\ requests[1].channel = current /\ list = {} /\ NoAnswers
    BY <1>5, <2>1 DEF ListLast
  <2> QED BY <1>1, <2>2
<1> QED BY <1>2, <1>1, <1>3, <1>4, <1>5

(* A request behind the others, when no list is asked for.                  *)
LEMMA RequestAdded ==
    ASSUME QueuesOK, NEW r \in Request, requests' = Append(requests, r), NoList
    PROVE  /\ requests' \in Seq(Request) /\ Range(requests') = Range(requests) \cup {r}
           /\ r.kind # "list" => ListLast'
           /\ r.channel = current' /\ list' = {} /\ NoAnswers' => ListLast'
<1>1. /\ requests \in Seq(Request) /\ Len(requests) \in Nat
      /\ Len(requests') = Len(requests) + 1 /\ requests'[Len(requests) + 1] = r
      /\ \A i \in 1..Len(requests) : requests'[i] = requests[i]
      /\ requests' \in Seq(Request) /\ DOMAIN requests = 1..Len(requests)
  BY DEF QueuesOK
<1>2. Range(requests') = Range(requests) \cup {r}
  BY <1>1, RangeOfAppend
<1>3. ASSUME NEW i \in 1..Len(requests'), requests'[i].kind = "list"
      PROVE  i = Len(requests') /\ requests'[i] = r
  <2>1. CASE i \in 1..Len(requests)
    <3>1. requests[i] \in Range(requests)
      BY <1>1, <2>1 DEF Range
    <3> QED BY <1>1, <1>3, <2>1, <3>1 DEF NoList
  <2>2. CASE i = Len(requests) + 1
    BY <1>1, <2>2
  <2> QED BY <1>1, <2>1, <2>2
<1> QED BY <1>1, <1>2, <1>3 DEF ListLast

-----------------------------------------------------------------------------
(* THE STEPS OF THE BOT *)

(* The invariant holds before the bot connects. *)
LEMMA InitBot == BotInit => BotInv
<1> SUFFICES ASSUME BotInit PROVE BotInv
  OBVIOUS
<1>1. /\ requests = <<>> /\ notices = <<[kind |-> "welcome"]>>
      /\ state = "hello" /\ channels = ChannelList /\ current = NoChannel /\ list = {} /\ changes = {}
      /\ disturbed = {} /\ flags \in Lists /\ original = flags /\ registered \in SUBSET Channels
  BY DEF BotInit
<1>2. ChannelList \in Seq(Channels) /\ NoChannel \notin Channels /\ IsInjective(ChannelList) /\ Range(ChannelList) = Channels
  BY ConfigAssumption DEF Channels
<1>3. Range(requests) = {} /\ Pending = {} /\ Channels \subseteq Untouched
  BY <1>1, <1>2, RangeOfEmpty DEF Pending, Adds, Untouched
<1>4. ServTypeOK
  BY <1>1 DEF ServTypeOK
<1>5. QueuesOK
  <2>1. [kind |-> "welcome"] \in Notice
    BY DEF Notice
  <2> QED BY <1>1, <2>1 DEF QueuesOK
<1>6. BotOK
  <2>1. IsPrefix(ChannelList, ChannelList)
    BY <1>2 DEF IsPrefix
  <2> QED BY <1>1, <1>2, <2>1 DEF BotOK
<1>7. AsConfigured
  BY <1>3 DEF AsConfigured
<1>8. Opening
  BY <1>1 DEF Opening, Alive
<1>9. Distinct
  BY <1>1, <1>2 DEF Distinct
<1>10. OneList /\ ListIsTrue
  BY <1>1 DEF OneList, ListIsTrue
<1>11. Progress
  BY <1>1, <1>3 DEF Progress
<1> QED BY <1>4, <1>5, <1>6, <1>7, <1>8, <1>9, <1>10, <1>11 DEF BotInv

(* Nothing is done to the lists, and no channel is judged.                  *)
LEMMA ProgressKept ==
    ASSUME Progress, UNCHANGED servVars, Pending' = Pending, Untouched' = Untouched,
           state \in {"cut", "crashed"} => state' \in {"cut", "crashed"}
    PROVE  Progress'
<1>1. UNCHANGED <<flags, registered, original, disturbed>>
  BY DEF servVars
<1>2. ASSUME NEW c \in Channels, NEW n \in Nicks, Settled(c, n) PROVE Settled(c, n)'
  BY <1>1, <1>2 DEF Settled, Wanted
<1>3. \A c, n : Undisturbed(c, n)' <=> Undisturbed(c, n)
  BY <1>1 DEF Undisturbed
<1> QED BY <1>1, <1>2, <1>3 DEF Progress

Takes == notices # <<>> /\ notices' = Tail(notices) /\ UNCHANGED servVars

(* A notice that is passed over, or an entry that is collected.             *)
LEMMA CollectKeeps ==
    ASSUME BotInv, state = "up", Takes, current # NoChannel,
           UNCHANGED <<state, channels, current, changes, requests>>,
           LET m == Head(notices) IN
             \/ m.kind = "entry" /\ list' = list \cup {<<m.nick, m.flags>>}
             \/ m.kind = "text" /\ list' = list
    PROVE  BotInv'
<1> DEFINE m == Head(notices)
<1>t. /\ ServTypeOK /\ QueuesOK /\ BotOK /\ AsConfigured /\ Opening /\ Distinct /\ OneList
      /\ ListIsTrue /\ Progress
  BY DEF BotInv
<1>s. UNCHANGED <<flags, registered, original, disturbed>>
  BY DEF Takes, servVars
<1>n. /\ notices' \in Seq(Notice) /\ m \in Notice /\ m \in Range(notices)
      /\ Range(notices) = {m} \cup Range(notices') /\ EndLast' /\ (NoAnswers => NoAnswers')
  BY <1>t, NoteTaken DEF Takes, OneList
<1>1. Pending' = Pending /\ Untouched' = Untouched
  BY DEF Pending, Adds, Untouched
<1>2. ServTypeOK' /\ QueuesOK' /\ AsConfigured' /\ Distinct'
  BY <1>t, <1>s, <1>n, <1>1 DEF ServTypeOK, QueuesOK, AsConfigured, Distinct, Kept
<1>3. BotOK'
  <2>1. m.kind = "entry" => m.nick \in Nicks /\ m.flags \in SUBSET Flags
    BY <1>n DEF Notice
  <2>2. list' \subseteq Nicks \X SUBSET Flags
    BY <1>t, <2>1 DEF BotOK
  <2> QED BY <1>t, <2>2 DEF BotOK
<1>4. Opening'
  BY <1>t, <1>n DEF Opening, Alive
<1>5. OneList'
  <2>1. ListLast'
    <3>1. CASE list' = list
      BY <1>t, <1>n, <3>1 DEF OneList, ListLast
    <3>2. CASE m.kind = "entry"
      <4>1. ~NoAnswers
        BY <1>n, <3>2 DEF NoAnswers, IsAnswer
      <4> QED BY <1>t, <4>1 DEF OneList, ListLast
    <3> QED BY <3>1, <3>2
  <2> QED BY <1>t, <1>n, <2>1 DEF OneList
<1>6. ListIsTrue'
  <2> SUFFICES ASSUME \E x \in Range(notices') : x.kind = "end", NEW n \in Nicks, Undisturbed(current, n)
               PROVE  Told(n)' \cup Telling(n)'
                        = IF original[current][n] = {} THEN {} ELSE {original[current][n]}
    BY <1>s DEF ListIsTrue, Undisturbed
  <2>1. Told(n) \cup Telling(n) = IF original[current][n] = {} THEN {} ELSE {original[current][n]}
    BY <1>t, <1>n DEF ListIsTrue
  <2>2. CASE m.kind = "text" /\ list' = list
    <3>1. Told(n)' = Told(n)
      BY <2>2 DEF Told
    <3>2. Telling(n)' = Telling(n)
      BY <1>n, <2>2 DEF Telling
    <3> QED BY <2>1, <3>1, <3>2
  <2>3. CASE m.kind = "entry" /\ list' = list \cup {<<m.nick, m.flags>>}
    <3> HIDE DEF m
    <3>1. Told(n)' = Told(n) \cup (IF m.nick = n THEN {m.flags} ELSE {})
      <4> DEFINE e == <<m.nick, m.flags>>
      <4>1. e[1] = m.nick /\ e[2] = m.flags /\ list' = list \cup {e}
        BY <2>3
      <4> HIDE DEF e
      <4> QED BY <4>1 DEF Told
    <3>2. Telling(n) = Telling(n)' \cup (IF m.nick = n THEN {m.flags} ELSE {})
      BY <1>n, <2>3 DEF Telling
    <3> QED BY <2>1, <3>1, <3>2
  <2> QED BY <2>2, <2>3
<1>7. Progress'
  BY <1>t, <1>1, ProgressKept DEF Takes
<1> QED BY <1>2, <1>3, <1>4, <1>5, <1>6, <1>7 DEF BotInv

(* The end, from inside or outside. *)
LEMMA DeathKeeps ==
    ASSUME BotInv, Ends("crashed") \/ Ends("cut"), UNCHANGED <<servVars, requests>>,
           notices' \in Seq(Notice)
    PROVE  BotInv'
<1>t. /\ ServTypeOK /\ QueuesOK /\ BotOK /\ AsConfigured /\ Progress
  BY DEF BotInv
<1>s. UNCHANGED <<flags, registered, original, disturbed>>
  BY DEF servVars
<1>1. state' \in {"crashed", "cut"} /\ channels' = <<>> /\ current' = NoChannel /\ list' = {} /\ changes' = {}
  BY DEF Ends
<1>2. ServTypeOK' /\ QueuesOK'
  BY <1>t, <1>s DEF ServTypeOK, QueuesOK
<1>3. BotOK'
  <2>1. IsPrefix(<<>>, ChannelList)
    BY ConfigFacts DEF IsPrefix
  <2>2. <<>> \in Seq(Channels)
    OBVIOUS
  <2> QED BY <1>1, <2>1, <2>2 DEF BotOK
<1>4. Opening' /\ OneList' /\ ListIsTrue'
  BY <1>1 DEF Opening, Alive, OneList, ListIsTrue
<1>5. Distinct' /\ Untouched' = {NoChannel}
  BY <1>1, RangeOfEmpty DEF Distinct, IsInjective, Untouched
<1>6. AsConfigured'
  <2>1. Pending' \subseteq Pending /\ \A ch \in Pending' : ch.channel # NoChannel
    <3>1. Pending' = Adds /\ Adds \subseteq Pending
      BY <1>1 DEF Pending, Adds
    <3>2. \A q \in Range(requests) : q.kind = "add" => q.change \in Change
      <4>1. Range(requests) \subseteq Request
        BY <1>t, RangeType DEF QueuesOK
      <4> QED BY <4>1 DEF Request
    <3>3. \A ch \in Adds : ch.channel \in Channels
      BY <3>2 DEF Adds, Change
    <3> QED BY <3>1, <3>3, ConfigAssumption
  <2> QED BY <1>t, <1>5, <2>1 DEF AsConfigured, Kept
<1>7. Progress'
  BY <1>1, <1>5, ConfigAssumption DEF Progress
<1> QED BY <1>2, <1>3, <1>4, <1>5, <1>6, <1>7 DEF BotInv

(* The set S of changes is the one to go by: the channel was judged before, *)
(* or the end of its list is being handled and it is judged now.            *)
Ready(S) == \/ current = NoChannel /\ S = changes
            \/ current # NoChannel /\ Head(notices).kind = "end" /\ S = Changes(current)

SettledBy(P, c, n) ==
    /\ \A ch \in P : ch.channel = c /\ ch.nick = n =>
            ch.minus = ToRemove(c, n, original[c][n]) /\ ch.plus = ToAdd(c, n, original[c][n])
    /\ \/ flags[c][n] = Wanted(c, n)
       \/ flags[c][n] = original[c][n] /\ \E ch \in P : ch.channel = c /\ ch.nick = n

(* When the end of a list comes, the bot has every entry of its channel      *)
(* that nobody has disturbed.                                                *)
LEMMA ListComplete ==
    ASSUME BotInv, state = "up", Takes, current # NoChannel, Head(notices).kind = "end",
           NEW n \in Nicks, Undisturbed(current, n)
    PROVE  Has(n) = original[current][n]
<1>t. QueuesOK /\ OneList /\ ListIsTrue
  BY DEF BotInv
<1>1. NoAnswers' /\ Range(notices) = {Head(notices)} \cup Range(notices')
  BY <1>t, NoteTaken DEF Takes, OneList
<1>2. Telling(n) = {}
  BY <1>1 DEF Telling, NoAnswers, IsAnswer
<1>3. Told(n) = IF original[current][n] = {} THEN {} ELSE {original[current][n]}
  BY <1>t, <1>1, <1>2 DEF ListIsTrue
<1>4. Has(n) = UNION Told(n)
  BY DEF Has, Told
<1> QED BY <1>3, <1>4

(* What _get_access_changes makes of a complete list. *)
LEMMA ChangesFacts ==
    ASSUME BotInv, NEW c \in Channels
    PROVE  \A ch \in Changes(c) :
               /\ ch \in Change /\ ch.channel = c
               /\ ch.plus = ToAdd(c, ch.nick, Has(ch.nick)) /\ ch.minus = ToRemove(c, ch.nick, Has(ch.nick))
               /\ ch.plus \subseteq Target(c, ch.nick) /\ ch.minus \cap Kept(c, ch.nick) = {}
<1> SUFFICES ASSUME NEW n \in Nicks
             PROVE  LET ch == [channel |-> c, nick |-> n, minus |-> ToRemove(c, n, Has(n)), plus |-> ToAdd(c, n, Has(n))]
                    IN  /\ ch \in Change /\ ch.channel = c
                        /\ ch.plus = ToAdd(c, ch.nick, Has(ch.nick)) /\ ch.minus = ToRemove(c, ch.nick, Has(ch.nick))
                        /\ ch.plus \subseteq Target(c, ch.nick) /\ ch.minus \cap Kept(c, ch.nick) = {}
  BY DEF Changes
<1>1. Has(n) \subseteq Flags
  <2>1. \A e \in list : e[2] \subseteq Flags
    BY DEF BotInv, BotOK
  <2> QED BY <2>1 DEF Has
<1>2. Target(c, n) \subseteq Flags
  BY ConfigFacts
<1>3. ToRemove(c, n, Has(n)) \in SUBSET Flags /\ ToRemove(c, n, Has(n)) \cap Kept(c, n) = {}
  BY <1>1 DEF ToRemove, Kept
<1>4. ToAdd(c, n, Has(n)) \in SUBSET Flags /\ ToAdd(c, n, Has(n)) \subseteq Target(c, n)
  BY <1>2 DEF ToAdd
<1> QED BY <1>3, <1>4 DEF Change

(* So what the bot decides at that point settles the whole channel: a        *)
(* change made, on its way, or not needed.                                   *)
LEMMA Judging ==
    ASSUME BotInv, state = "up", Takes, NEW S, Ready(S)
    PROVE  /\ S \subseteq Change /\ NoAnswers' /\ NoList
           /\ notices' \in Seq(Notice) /\ EndLast' /\ (\A m \in Range(notices') : m.kind \notin {"welcome", "ack", "nak"})
           /\ \A ch \in S \cup Adds : /\ ch.plus \subseteq Target(ch.channel, ch.nick)
                                      /\ ch.minus \cap Kept(ch.channel, ch.nick) = {}
                                      /\ ch.channel \notin Range(channels)
           /\ \A ch \in S \cup Adds : ch.channel # NoChannel
           /\ \A c \in Channels \ Range(channels), n \in Nicks :
                  Undisturbed(c, n) => SettledBy(S \cup Adds, c, n)
           /\ \A c \in Range(channels), n \in Nicks : Undisturbed(c, n) => flags[c][n] = original[c][n]
<1>t. /\ QueuesOK /\ BotOK /\ AsConfigured /\ Opening /\ Distinct /\ OneList /\ Progress
  BY DEF BotInv
<1>n. /\ notices' \in Seq(Notice) /\ EndLast' /\ (NoAnswers => NoAnswers')
      /\ Range(notices') \subseteq Range(notices) /\ Head(notices) \in Range(notices)
      /\ (Head(notices).kind = "end" => NoAnswers')
  BY <1>t, NoteTaken DEF Takes, OneList
<1>r. \A r \in Range(requests) : r.kind = "add" => r.change \in Change
  <2>1. Range(requests) \subseteq Request
    BY <1>t, RangeType DEF QueuesOK
  <2> QED BY <2>1 DEF Request
<1>a. Adds \subseteq Change /\ Adds \subseteq Pending
  BY <1>r DEF Adds, Pending
<1>m. \A m \in Range(notices') : m.kind \notin {"welcome", "ack", "nak"}
  BY <1>t, <1>n DEF Opening
<1>c. S \cup Adds \subseteq Change => \A ch \in S \cup Adds : ch.channel # NoChannel
  BY ConfigAssumption DEF Change
<1>p. \A c \in Range(channels), n \in Nicks : Undisturbed(c, n) => flags[c][n] = original[c][n]
  <2>1. Range(channels) \subseteq Channels
    BY <1>t, RangeType DEF BotOK
  <2> QED BY <1>t, <2>1 DEF Progress, Untouched
<1>l. NoList <=> \A i \in 1..Len(requests) : requests[i].kind # "list"
  <2>1. DOMAIN requests = 1..Len(requests)
    BY <1>t DEF QueuesOK
  <2> QED BY <2>1 DEF NoList, Range
<1>1. CASE current = NoChannel /\ S = changes
  <2>1. S \cup Adds = Pending
    BY <1>1 DEF Pending
  <2>2. S \subseteq Change
    BY <1>t, <1>1 DEF BotOK
  <2>3. NoAnswers'
    BY <1>t, <1>n, <1>1 DEF OneList
  <2>4. NoList
    <3>1. ASSUME NEW i \in 1..Len(requests), requests[i].kind = "list" PROVE FALSE
      <4>1. requests[i].channel = NoChannel
        BY <1>t, <1>1, <3>1 DEF OneList, ListLast
      <4>2. requests[i] \in Request
        BY <1>t, <3>1 DEF QueuesOK
      <4>3. requests[i].channel \in Channels
        BY <3>1, <4>2 DEF Request
      <4> QED BY <4>1, <4>3, ConfigAssumption
    <3> QED BY <1>l, <3>1
  <2>5. ASSUME NEW c \in Channels \ Range(channels), NEW n \in Nicks, Undisturbed(c, n)
        PROVE  SettledBy(S \cup Adds, c, n)
    <3>1. c \notin Untouched
      BY <1>1, ConfigAssumption DEF Untouched
    <3>2. Settled(c, n)
      BY <1>t, <2>5, <3>1 DEF Progress
    <3> QED BY <2>1, <3>2 DEF Settled, SettledBy
  <2>6. \A ch \in S \cup Adds : /\ ch.plus \subseteq Target(ch.channel, ch.nick)
                                /\ ch.minus \cap Kept(ch.channel, ch.nick) = {}
                                /\ ch.channel \notin Range(channels)
    BY <1>t, <2>1 DEF AsConfigured, Untouched
  <2> QED BY <1>n, <1>m, <1>a, <1>c, <1>p, <2>2, <2>3, <2>4, <2>5, <2>6
<1>2. CASE current # NoChannel /\ Head(notices).kind = "end" /\ S = Changes(current)
  <2>1. current \in Channels /\ changes = {} /\ Pending = Adds /\ current \notin Range(channels)
    BY <1>t, <1>2 DEF BotOK, OneList, Pending, Distinct
  <2>2. S \subseteq Change /\ \A ch \in S : /\ ch.plus \subseteq Target(ch.channel, ch.nick)
                                            /\ ch.minus \cap Kept(ch.channel, ch.nick) = {}
                                            /\ ch.channel = current
    BY <1>2, <2>1, ChangesFacts
  <2>3. NoAnswers'
    BY <1>n, <1>2
  <2>4. NoList
    <3>1. ~NoAnswers
      BY <1>n, <1>2 DEF NoAnswers, IsAnswer
    <3> QED BY <1>t, <1>l, <3>1 DEF OneList, ListLast
  <2>5. ASSUME NEW c \in Channels \ Range(channels), NEW n \in Nicks, Undisturbed(c, n)
        PROVE  SettledBy(S \cup Adds, c, n)
    <3>1. CASE c = current
      <4>1. Has(n) = original[c][n]
        BY <1>2, <2>5, <3>1, ListComplete
      <4>2. \A ch \in Adds : ch.channel # c
        BY <1>t, <2>1, <3>1 DEF AsConfigured, Untouched
      <4>3. \A ch \in S : ch.nick = n => /\ ch.minus = ToRemove(c, n, original[c][n])
                                         /\ ch.plus = ToAdd(c, n, original[c][n])
        BY <1>2, <2>1, <3>1, <4>1, ChangesFacts
      <4>4. flags[c][n] = original[c][n]
        BY <1>t, <2>5, <3>1 DEF Progress, Untouched
      <4>5. CASE ToRemove(c, n, Has(n)) # {} \/ ToAdd(c, n, Has(n)) # {}
        <5> DEFINE ch == [channel |-> c, nick |-> n, minus |-> ToRemove(c, n, Has(n)), plus |-> ToAdd(c, n, Has(n))]
        <5>1. ch \in S
          BY <1>2, <3>1, <4>5 DEF Changes
        <5>2. ch.channel = c /\ ch.nick = n
          OBVIOUS
        <5> HIDE DEF ch
        <5> QED BY <4>2, <4>3, <4>4, <5>1, <5>2 DEF SettledBy
      <4>6. CASE ToRemove(c, n, Has(n)) = {} /\ ToAdd(c, n, Has(n)) = {}
        <5>1. flags[c][n] = Wanted(c, n)
          BY <4>1, <4>4, <4>6 DEF Wanted, ToRemove, ToAdd
        <5> QED BY <4>2, <4>3, <5>1 DEF SettledBy
      <4> QED BY <4>5, <4>6
    <3>2. CASE c # current
      <4>1. Settled(c, n)
        BY <1>t, <2>5, <3>2, <1>2 DEF Progress, Untouched
      <4>2. \A ch \in S : ch.channel # c
        BY <2>2, <3>2
      <4> QED BY <2>1, <4>1, <4>2 DEF Settled, SettledBy
    <3> QED BY <3>1, <3>2
  <2>6. \A ch \in S \cup Adds : /\ ch.plus \subseteq Target(ch.channel, ch.nick)
                                /\ ch.minus \cap Kept(ch.channel, ch.nick) = {}
                                /\ ch.channel \notin Range(channels)
    <3>1. \A ch \in Adds : /\ ch.plus \subseteq Target(ch.channel, ch.nick)
                           /\ ch.minus \cap Kept(ch.channel, ch.nick) = {}
                           /\ ch.channel \notin Range(channels)
      BY <1>t, <2>1 DEF AsConfigured, Untouched
    <3> QED BY <2>1, <2>2, <3>1
  <2> QED BY <1>n, <1>m, <1>a, <1>c, <1>p, <2>2, <2>3, <2>4, <2>5, <2>6
<1> QED BY <1>1, <1>2 DEF Ready

(* Without changes left the bot quits or goes on to the next channel.       *)
LEMMA NextChannelKeeps ==
    ASSUME BotInv, state = "up", Takes, Ready({}), NextChannel
    PROVE  BotInv'
<1>t. /\ ServTypeOK /\ QueuesOK /\ BotOK /\ AsConfigured /\ Opening /\ Distinct
  BY DEF BotInv
<1>s. UNCHANGED <<flags, registered, original, disturbed>>
  BY DEF Takes, servVars
<1>j. /\ NoAnswers' /\ NoList
      /\ notices' \in Seq(Notice) /\ EndLast' /\ (\A m \in Range(notices') : m.kind \notin {"welcome", "ack", "nak"})
      /\ \A ch \in Adds : /\ ch.plus \subseteq Target(ch.channel, ch.nick)
                          /\ ch.minus \cap Kept(ch.channel, ch.nick) = {}
                          /\ ch.channel \notin Range(channels)
      /\ \A ch \in Adds : ch.channel # NoChannel
      /\ \A c \in Channels \ Range(channels), n \in Nicks : Undisturbed(c, n) => SettledBy(Adds, c, n)
      /\ \A c \in Range(channels), n \in Nicks : Undisturbed(c, n) => flags[c][n] = original[c][n]
  <2> DEFINE S == {}
  <2>1. Ready(S) /\ S \cup Adds = Adds
    OBVIOUS
  <2> HIDE DEF S
  <2>2. /\ NoAnswers' /\ NoList
        /\ notices' \in Seq(Notice) /\ EndLast' /\ (\A m \in Range(notices') : m.kind \notin {"welcome", "ack", "nak"})
    BY <2>1, Judging
  <2>3. \A ch \in S \cup Adds : /\ ch.plus \subseteq Target(ch.channel, ch.nick)
                                /\ ch.minus \cap Kept(ch.channel, ch.nick) = {}
                                /\ ch.channel \notin Range(channels)
    BY <2>1, Judging
  <2>4. \A ch \in S \cup Adds : ch.channel # NoChannel
    BY <2>1, Judging
  <2>5. \A c \in Channels \ Range(channels), n \in Nicks : Undisturbed(c, n) => SettledBy(S \cup Adds, c, n)
    BY <2>1, Judging
  <2>6. \A c \in Range(channels), n \in Nicks : Undisturbed(c, n) => flags[c][n] = original[c][n]
    BY <2>1, Judging
  <2> QED BY <2>1, <2>2, <2>3, <2>4, <2>5, <2>6
<1>1. ServTypeOK'
  BY <1>t, <1>s DEF ServTypeOK
<1>p. ASSUME NEW c \in Channels, NEW n \in Nicks, SettledBy(Adds, c, n), Pending' = Adds
      PROVE  Settled(c, n)'
  BY <1>s, <1>p DEF Settled, SettledBy, Wanted
<1>u. \A c, n : Undisturbed(c, n)' <=> Undisturbed(c, n)
  BY <1>s DEF Undisturbed
<1>2. CASE channels = <<>> /\ Ends("quit") /\ UNCHANGED requests
  <2>1. state' = "quit" /\ channels' = <<>> /\ current' = NoChannel /\ list' = {} /\ changes' = {} /\ requests' = requests
    BY <1>2 DEF Ends
  <2>2. QueuesOK' /\ BotOK'
    BY <1>t, <1>j, <1>2, <2>1 DEF QueuesOK, BotOK
  <2>3. Opening' /\ OneList' /\ ListIsTrue'
    BY <2>1 DEF Opening, Alive, OneList, ListIsTrue
  <2>4. Untouched' = {NoChannel} /\ Pending' = Adds /\ Range(channels) = {} /\ Range(channels') = {}
    BY <1>2, <2>1, RangeOfEmpty DEF Untouched, Pending, Adds
  <2>5. Distinct'
    BY <1>t, <1>2, <2>1, <2>4 DEF Distinct
  <2>6. AsConfigured'
    BY <1>j, <2>4 DEF AsConfigured, Kept
  <2>7. Progress'
    BY <1>j, <1>p, <1>u, <2>4, ConfigAssumption DEF Progress
  <2> QED BY <1>1, <2>2, <2>3, <2>5, <2>6, <2>7 DEF BotInv
<1>3. CASE /\ channels # <<>> /\ changes' = {}
           /\ channels' = Front(channels) /\ current' = Last(channels) /\ list' = {}
           /\ Sends([kind |-> "list", channel |-> Last(channels)])
           /\ UNCHANGED state
  <2> DEFINE r == [kind |-> "list", channel |-> Last(channels)]
  <2>1. /\ channels' \in Seq(Channels) /\ current' \in Channels /\ IsInjective(channels')
        /\ Range(channels) = Range(channels') \cup {current'} /\ current' \notin Range(channels')
        /\ Len(channels') = Len(channels) - 1 /\ \A i \in 1..(Len(channels) - 1) : channels'[i] = channels[i]
    BY <1>t, <1>3, FrontAndLast, DistinctFront DEF BotOK, Distinct
  <2>2. r \in Request /\ r.kind = "list" /\ r.channel = current' /\ requests' = Append(requests, r)
    BY <1>3, <2>1 DEF Request, Sends
  <2> HIDE DEF r
  <2>3. requests' \in Seq(Request) /\ Range(requests') = Range(requests) \cup {r} /\ ListLast'
    BY <1>t, <1>j, <1>3, <2>2, RequestAdded
  <2>4. QueuesOK'
    BY <1>j, <2>3 DEF QueuesOK
  <2>5. BotOK'
    <3>1. IsPrefix(channels', ChannelList)
      <4>1. Len(channels) \in Nat /\ Len(channels) # 0 /\ Len(channels) <= Len(ChannelList) /\ Len(ChannelList) \in Nat
        BY <1>t, <1>3, ConfigFacts DEF BotOK, IsPrefix
      <4>2. SubSeq(channels, 1, Len(channels)) = SubSeq(ChannelList, 1, Len(channels))
        BY <1>t DEF BotOK, IsPrefix
      <4>3. \A i \in 1..Len(channels) : channels[i] = ChannelList[i]
        <5> SUFFICES ASSUME NEW i \in 1..Len(channels) PROVE channels[i] = ChannelList[i]
          OBVIOUS
        <5>1. SubSeq(channels, 1, Len(channels))[i] = channels[i]
          BY <1>t, <4>1 DEF BotOK
        <5>2. SubSeq(ChannelList, 1, Len(channels))[i] = ChannelList[i]
          BY <4>1, ConfigFacts
        <5> QED BY <4>2, <5>1, <5>2
      <4>4. \A i \in 1..Len(channels') : channels'[i] = ChannelList[i]
        BY <2>1, <4>1, <4>3
      <4>5. SubSeq(channels', 1, Len(channels')) = SubSeq(ChannelList, 1, Len(channels'))
        BY <2>1, <4>1, <4>4, ConfigFacts, SMTT(30)
      <4> QED BY <2>1, <4>1, <4>5 DEF IsPrefix
    <3> QED BY <1>t, <1>3, <2>1, <3>1 DEF BotOK
  <2>6. Opening'
    <3>1. \A q \in Range(requests') : q.kind # "cap"
      BY <1>t, <2>2, <2>3 DEF Opening
    <3> QED BY <1>j, <1>3, <3>1 DEF Opening, Alive
  <2>7. Distinct'
    BY <2>1 DEF Distinct
  <2>8. OneList'
    BY <1>j, <1>3, <2>3 DEF OneList
  <2>9. ListIsTrue'
    BY <1>j DEF ListIsTrue, NoAnswers, IsAnswer
  <2>10. Pending' = Adds /\ Untouched' = Range(channels)
    BY <1>3, <2>1, <2>2, <2>3 DEF Pending, Adds, Untouched
  <2>11. AsConfigured'
    BY <1>j, <2>10 DEF AsConfigured, Kept
  <2>12. Progress'
    BY <1>j, <1>p, <1>u, <1>s, <2>10 DEF Progress
  <2> QED BY <1>1, <2>4, <2>5, <2>6, <2>7, <2>8, <2>9, <2>11, <2>12 DEF BotInv
<1> QED BY <1>2, <1>3 DEF NextChannel

(* A change moves from the set of changes to the requests.                  *)
LEMMA SendingKeeps ==
    ASSUME BotInv, state = "up", Takes, NEW S, Ready(S), SendChange(S)
    PROVE  BotInv'
<1>t. /\ ServTypeOK /\ QueuesOK /\ BotOK /\ Opening /\ Distinct
  BY DEF BotInv
<1>s. UNCHANGED <<flags, registered, original, disturbed>>
  BY DEF Takes, servVars
<1>j. /\ S \subseteq Change /\ NoAnswers' /\ NoList
      /\ notices' \in Seq(Notice) /\ EndLast' /\ (\A m \in Range(notices') : m.kind \notin {"welcome", "ack", "nak"})
      /\ \A ch \in S \cup Adds : /\ ch.plus \subseteq Target(ch.channel, ch.nick)
                                 /\ ch.minus \cap Kept(ch.channel, ch.nick) = {}
                                 /\ ch.channel \notin Range(channels)
      /\ \A ch \in S \cup Adds : ch.channel # NoChannel
      /\ \A c \in Channels \ Range(channels), n \in Nicks : Undisturbed(c, n) => SettledBy(S \cup Adds, c, n)
      /\ \A c \in Range(channels), n \in Nicks : Undisturbed(c, n) => flags[c][n] = original[c][n]
  BY Judging
<1>1. PICK ch \in S : /\ Sends([kind |-> "add", change |-> ch])
                      /\ changes' = S \ {ch} /\ current' = NoChannel
                      /\ UNCHANGED <<state, channels, list>>
  BY DEF SendChange
<1> DEFINE r == [kind |-> "add", change |-> ch]
<1>2. r \in Request /\ r.kind = "add" /\ r.change = ch /\ requests' = Append(requests, r)
  BY <1>1, <1>j DEF Request, Sends
<1> HIDE DEF r
<1>3. requests' \in Seq(Request) /\ Range(requests') = Range(requests) \cup {r} /\ ListLast'
  BY <1>t, <1>j, <1>2, RequestAdded
<1>4. ServTypeOK' /\ QueuesOK' /\ BotOK'
  BY <1>t, <1>s, <1>j, <1>1, <1>3 DEF ServTypeOK, QueuesOK, BotOK
<1>5. Opening'
  <2>1. \A q \in Range(requests') : q.kind # "cap"
    BY <1>t, <1>2, <1>3 DEF Opening
  <2> QED BY <1>j, <1>1, <2>1 DEF Opening, Alive
<1>6. Distinct'
  <2>1. Range(channels) \subseteq Channels
    BY <1>t, RangeType DEF BotOK
  <2> QED BY <1>t, <1>1, <2>1, ConfigAssumption DEF Distinct
<1>7. OneList'
  BY <1>j, <1>1, <1>3 DEF OneList
<1>8. ListIsTrue'
  BY <1>j DEF ListIsTrue, NoAnswers, IsAnswer
<1>9. Pending' = S \cup Adds /\ Untouched' = Range(channels) \cup {NoChannel}
  <2>1. Adds' = Adds \cup {ch}
    BY <1>2, <1>3 DEF Adds
  <2> QED BY <1>1, <2>1 DEF Pending, Untouched
<1>10. AsConfigured'
  BY <1>j, <1>9 DEF AsConfigured, Kept
<1>11. Progress'
  <2>1. ASSUME NEW c \in Channels, NEW n \in Nicks, SettledBy(S \cup Adds, c, n)
        PROVE  Settled(c, n)'
    BY <1>s, <1>9, <2>1 DEF Settled, SettledBy, Wanted
  <2>2. \A c, n : Undisturbed(c, n)' <=> Undisturbed(c, n)
    BY <1>s DEF Undisturbed
  <2> QED BY <1>j, <1>9, <1>s, <2>1, <2>2, ConfigAssumption DEF Progress
<1> QED BY <1>4, <1>5, <1>6, <1>7, <1>8, <1>10, <1>11 DEF BotInv

(* Going on to the next channel keeps the invariant. *)
LEMMA AdvanceKeeps ==
    ASSUME BotInv, state = "up", Takes, Advance(Head(notices))
    PROVE  BotInv'
<1> DEFINE m == Head(notices)
<1>t. QueuesOK /\ OneList
  BY DEF BotInv
<1>n. notices' \in Seq(Notice)
  BY <1>t, NoteTaken DEF Takes
<1>1. CASE changes # {}
  <2>1. Ready(changes) /\ SendChange(changes)
    BY <1>1, <1>t DEF Ready, OneList, Advance
  <2> QED BY <2>1, SendingKeeps
<1>2. CASE changes = {} /\ current = NoChannel
  <2>1. Ready({}) /\ NextChannel
    BY <1>2 DEF Ready, Advance
  <2> QED BY <2>1, NextChannelKeeps
<1>3. CASE changes = {} /\ current # NoChannel
  <2>0. Listing(m)
    BY <1>3 DEF Advance
  <2>1. CASE /\ m.kind = "entry" /\ list' = list \cup {<<m.nick, m.flags>>}
             /\ UNCHANGED <<state, channels, current, changes, requests>>
    BY <1>3, <2>1, CollectKeeps
  <2>2. CASE m.kind = "text" /\ UNCHANGED <<state, channels, current, list, changes, requests>>
    BY <1>3, <2>2, CollectKeeps
  <2>3. CASE m.kind \in {"word", "identified"} /\ Ends("crashed") /\ UNCHANGED requests
    BY <1>n, <2>3, DeathKeeps DEF Takes
  <2>4. CASE m.kind = "end" /\ Changes(current) = {} /\ NextChannel
    <3>1. Ready({})
      BY <1>3, <2>4 DEF Ready
    <3> QED BY <2>4, <3>1, NextChannelKeeps
  <2>5. CASE m.kind = "end" /\ SendChange(Changes(current))
    <3>1. Ready(Changes(current))
      BY <1>3, <2>5 DEF Ready
    <3> QED BY <2>5, <3>1, SendingKeeps
  <2> HIDE DEF m
  <2> QED BY <2>0, <2>1, <2>2, <2>3, <2>4, <2>5 DEF Listing
<1> QED BY <1>1, <1>2, <1>3

(* The opening: welcome, capability, identification.                        *)
LEMMA OpeningKeeps ==
    ASSUME BotInv, OnWelcome \/ (OnCap /\ Head(notices).kind = "ack")
    PROVE  BotInv'
<1>t. /\ ServTypeOK /\ QueuesOK /\ BotOK /\ AsConfigured /\ Opening /\ Distinct /\ OneList
      /\ ListIsTrue /\ Progress
  BY DEF BotInv
<1>s. /\ UNCHANGED servVars /\ UNCHANGED <<flags, registered, original, disturbed>> /\ Alive
      /\ UNCHANGED <<identified, channels, current, list, changes>>
      /\ notices # <<>> /\ notices' = Tail(notices)
  BY DEF OnWelcome, OnCap, Handles, servVars
<1>h. Head(notices) \in Range(notices) /\ notices' \in Seq(Notice)
  BY <1>s, <1>t, NoteTaken
<1>a. Alive => state \in {"hello", "cap", "up"}
  BY <1>t DEF Alive, BotOK
<1>1. ASSUME requests' \in Seq(Request), \A q \in Range(requests') : q.kind \in {"cap", "identify"}, requests = <<>>,
             state \in {"hello", "cap"}, state' \in {"cap", "up"}, Opening', Range(notices') = {}
      PROVE  BotInv'
  <2>1. Range(requests) = {} /\ Adds = {} /\ Adds' = {}
    BY <1>1, RangeOfEmpty DEF Adds
  <2>2. Pending' = Pending /\ Untouched' = Untouched
    BY <1>s, <2>1 DEF Pending, Untouched
  <2>3. ServTypeOK' /\ QueuesOK' /\ BotOK' /\ Distinct' /\ AsConfigured'
    BY <1>t, <1>s, <1>h, <1>1, <2>2 DEF ServTypeOK, QueuesOK, BotOK, Distinct, AsConfigured, Kept
  <2>4. NoAnswers' /\ ListIsTrue'
    BY <1>1 DEF NoAnswers, ListIsTrue
  <2>5. EndLast'
    <3>1. DOMAIN notices' = 1..Len(notices')
      BY <1>h
    <3>2. \A i \in 1..Len(notices') : notices'[i] \in Range(notices')
      BY <3>1 DEF Range
    <3> QED BY <1>1, <3>2 DEF EndLast
  <2>6. ListLast'
    <3>1. DOMAIN requests' = 1..Len(requests')
      BY <1>1
    <3>2. \A i \in 1..Len(requests') : requests'[i] \in Range(requests')
      BY <3>1 DEF Range
    <3> QED BY <1>1, <3>2 DEF ListLast
  <2>7. OneList'
    BY <1>t, <1>s, <2>4, <2>5, <2>6 DEF OneList
  <2>8. Progress'
    BY <1>t, <1>s, <1>1, <2>2, ProgressKept
  <2> QED BY <1>1, <2>3, <2>4, <2>7, <2>8 DEF BotInv
<1>2. CASE OnWelcome
  <2>1. Head(notices).kind = "welcome" /\ state' = "cap" /\ requests' = Append(requests, [kind |-> "cap"])
    BY <1>2 DEF OnWelcome, Handles, Sends
  <2>2. state # "up"
    BY <1>t, <1>h, <2>1 DEF Opening
  <2>3. state # "cap"
    BY <1>t, <1>s, <2>1 DEF Opening
  <2>4. state = "hello" /\ notices = <<[kind |-> "welcome"]>> /\ requests = <<>>
    BY <1>t, <1>s, <1>a, <2>2, <2>3 DEF Opening
  <2>5. requests' = <<[kind |-> "cap"]>> /\ notices' = <<>>
    BY <1>s, <2>1, <2>4
  <2>6. requests' \in Seq(Request) /\ \A q \in Range(requests') : q.kind \in {"cap", "identify"}
    <3> DEFINE r == [kind |-> "cap"]
    <3>1. r \in Request /\ r.kind = "cap" /\ requests' = <<r>>
      BY <2>5 DEF Request
    <3> HIDE DEF r
    <3> QED BY <3>1, RangeOfSingle
  <2>7. Opening'
    BY <1>t, <1>s, <2>1, <2>4, <2>5 DEF Opening, Alive
  <2> QED BY <1>1, <2>1, <2>4, <2>5, <2>6, <2>7, RangeOfEmpty
<1>3. CASE OnCap /\ Head(notices).kind = "ack"
  <2>1. Head(notices).kind = "ack" /\ state' = "up" /\ requests' = Append(requests, [kind |-> "identify"])
    BY <1>3 DEF OnCap, Handles, Sends
  <2>2. state # "up"
    BY <1>t, <1>h, <2>1 DEF Opening
  <2>3. state # "hello"
    BY <1>t, <1>s, <2>1 DEF Opening
  <2>4. state = "cap" /\ notices = <<[kind |-> "ack"]>> /\ requests = <<>>
    BY <1>t, <1>s, <1>a, <2>1, <2>2, <2>3 DEF Opening
  <2>5. requests' = <<[kind |-> "identify"]>> /\ notices' = <<>>
    BY <1>s, <2>1, <2>4
  <2>6. requests' \in Seq(Request) /\ \A q \in Range(requests') : q.kind = "identify"
    <3> DEFINE r == [kind |-> "identify"]
    <3>1. r \in Request /\ r.kind = "identify" /\ requests' = <<r>>
      BY <2>5 DEF Request
    <3> HIDE DEF r
    <3> QED BY <3>1, RangeOfSingle
  <2>7. Opening'
    BY <2>1, <2>5, <2>6, RangeOfEmpty DEF Opening, Alive
  <2> QED BY <1>1, <2>1, <2>4, <2>5, <2>6, <2>7, RangeOfEmpty
<1> QED BY <1>2, <1>3

(* A notice that is passed over, because it refuses something. *)
LEMMA IgnoredKeeps ==
    ASSUME BotInv, Takes, Alive, ~IsAnswer(Head(notices)), Head(notices).kind \notin {"welcome", "ack"},
           UNCHANGED <<botVars, requests>>
    PROVE  BotInv'
<1>t. /\ ServTypeOK /\ QueuesOK /\ BotOK /\ AsConfigured /\ Opening /\ Distinct /\ OneList
      /\ ListIsTrue /\ Progress
  BY DEF BotInv
<1>s. /\ UNCHANGED <<state, channels, current, list, changes, requests>>
      /\ UNCHANGED <<flags, registered, original, disturbed>> /\ UNCHANGED servVars
      /\ notices # <<>> /\ notices' = Tail(notices)
  BY DEF Takes, botVars, servVars
<1>n. /\ notices' \in Seq(Notice)
      /\ Range(notices) = {Head(notices)} \cup Range(notices')
      /\ Range(notices') \subseteq Range(notices)
      /\ EndLast => EndLast'
      /\ NoAnswers => NoAnswers'
  BY <1>s, <1>t, NoteTaken
<1>1. Pending' = Pending /\ Untouched' = Untouched
  BY <1>s DEF Pending, Adds, Untouched
<1>2. ServTypeOK' /\ QueuesOK' /\ BotOK' /\ Distinct' /\ AsConfigured'
  BY <1>t, <1>s, <1>n, <1>1 DEF ServTypeOK, QueuesOK, BotOK, Distinct, AsConfigured, Kept
<1>3. OneList'
  BY <1>t, <1>s, <1>n DEF OneList, ListLast
<1>4. \A n : Telling(n)' = Telling(n) /\ Told(n)' = Told(n)
  BY <1>s, <1>n DEF Telling, Told, IsAnswer
<1>5. ListIsTrue'
  BY <1>t, <1>s, <1>n, <1>4 DEF ListIsTrue, Undisturbed
<1>6. Progress'
  BY <1>t, <1>s, <1>1, ProgressKept
<1>7. Opening'
  <2>1. state # "hello"
    BY <1>t, <1>s DEF Opening
  <2>2. CASE state = "cap"
    <3>1. notices \in {<<[kind |-> "ack"]>>, <<[kind |-> "nak"]>>} /\ requests = <<>>
      BY <1>t, <1>s, <2>2 DEF Opening
    <3>2. notices' = <<>>
      BY <1>s, <3>1
    <3> QED BY <1>t, <1>s, <2>2, <3>1, <3>2 DEF Opening, Alive
  <2>3. CASE state = "up"
    BY <1>t, <1>s, <1>n, <2>3 DEF Opening, Alive
  <2> QED BY <1>t, <2>1, <2>2, <2>3 DEF BotOK, Alive
<1> QED BY <1>2, <1>3, <1>5, <1>6, <1>7 DEF BotInv

(* Whatever the bot does with a notice keeps it. *)
LEMMA BotKeeps ==
    ASSUME BotInv, Bot
    PROVE  BotInv'
<1>t. QueuesOK /\ BotOK /\ Opening
  BY DEF BotInv
<1>1. CASE OnWelcome \/ (OnCap /\ Head(notices).kind = "ack")
  BY <1>1, OpeningKeeps
<1>i. CASE (OnCap /\ Head(notices).kind = "nak") \/ (OnNickServ /\ Head(notices).kind = "refused")
  <2>1. Takes /\ Alive /\ UNCHANGED <<botVars, requests>>
    BY <1>i DEF OnCap, OnNickServ, Handles, Takes, botVars
  <2> QED BY <1>i, <2>1, IgnoredKeeps DEF IsAnswer
<1>2. CASE (OnNickServ /\ Head(notices).kind = "identified") \/ OnChanServ
  <2>1. Handles({"identified", "refused"}) \/ Handles({"entry", "end", "text", "word"})
    BY <1>2 DEF OnNickServ, OnChanServ
  <2>2. Takes /\ Alive /\ Head(notices).kind \notin {"welcome", "ack", "nak"}
    BY <2>1 DEF Handles, Takes
  <2>3. state = "up"
    <3>1. state # "hello" /\ state # "cap"
      BY <1>t, <2>2 DEF Opening, Takes
    <3> QED BY <1>t, <2>2, <3>1 DEF BotOK, Alive
  <2>4. Advance(Head(notices))
    BY <1>2, <2>3 DEF OnNickServ, OnChanServ
  <2> QED BY <2>2, <2>3, <2>4, AdvanceKeeps
<1> QED BY <1>1, <1>i, <1>2 DEF Bot, OnCap, OnNickServ

-----------------------------------------------------------------------------
(* THE STEPS OF THE ENVIRONMENT *)

(* A request is answered by one notice that is no part of a list.           *)
LEMMA AnswerKeeps ==
    ASSUME BotInv, requests # <<>>, requests' = Tail(requests), UNCHANGED botVars,
           NEW m \in Notice, ~IsAnswer(m), notices' = notices \o <<m>>,
           UNCHANGED <<registered, original>>, disturbed \subseteq disturbed',
           IF Head(requests).kind = "cap" THEN m \in {[kind |-> "ack"], [kind |-> "nak"]}
                                          ELSE m.kind \notin {"welcome", "ack", "nak"}
    PROVE  /\ QueuesOK' /\ BotOK' /\ AsConfigured' /\ Opening' /\ Distinct' /\ OneList' /\ ListIsTrue'
           /\ Untouched' = Untouched
           /\ Pending' \subseteq Pending
           /\ Pending = Pending' \cup (IF Head(requests).kind = "add" THEN {Head(requests).change} ELSE {})
<1>t. QueuesOK /\ BotOK /\ AsConfigured /\ Opening /\ Distinct /\ OneList /\ ListIsTrue
  BY DEF BotInv
<1>s. UNCHANGED <<state, channels, current, list, changes>>
  BY DEF botVars
<1>r. /\ requests' \in Seq(Request) /\ Head(requests) \in Range(requests)
      /\ Range(requests) = {Head(requests)} \cup Range(requests')
      /\ ListLast /\ (NoAnswers => NoAnswers') => ListLast'
  BY <1>t, <1>s, RequestTaken
<1>n. /\ notices' \in Seq(Notice) /\ Range(notices') = Range(notices) \cup {m}
      /\ EndLast => EndLast'
      /\ NoAnswers => NoAnswers'
      /\ (\E x \in Range(notices') : x.kind = "end") => \E x \in Range(notices) : x.kind = "end"
      /\ \A n : Telling(n)' = Telling(n)
  BY <1>t, NoteAdded
<1>1. QueuesOK' /\ BotOK' /\ Distinct' /\ Untouched' = Untouched
  BY <1>t, <1>s, <1>r, <1>n DEF QueuesOK, BotOK, Distinct, Untouched
<1>2. /\ Pending' \subseteq Pending
      /\ Pending = Pending' \cup (IF Head(requests).kind = "add" THEN {Head(requests).change} ELSE {})
  BY <1>s, <1>r DEF Pending, Adds
<1>3. AsConfigured'
  BY <1>t, <1>1, <1>2 DEF AsConfigured, Kept
<1>4. OneList'
  BY <1>t, <1>s, <1>r, <1>n DEF OneList
<1>5. ListIsTrue'
  <2>1. \A n : Told(n)' = Told(n) /\ (Undisturbed(current, n)' => Undisturbed(current, n))
    BY <1>s DEF Told, Undisturbed
  <2> QED BY <1>t, <1>s, <1>n, <2>1 DEF ListIsTrue
<1>6. Opening'
  <2>1. CASE state = "hello"
    BY <1>t, <2>1 DEF Opening
  <2>2. CASE state = "cap"
    <3>1. requests = <<[kind |-> "cap"]>> /\ notices = <<>>
      BY <1>t, <2>2 DEF Opening
    <3>2. Head(requests).kind = "cap" /\ requests' = <<>>
      BY <3>1
    <3>3. notices' \in {<<[kind |-> "ack"]>>, <<[kind |-> "nak"]>>}
      BY <3>1, <3>2
    <3> QED BY <1>t, <1>s, <2>2, <3>2, <3>3 DEF Opening, Alive
  <2>3. CASE state = "up"
    <3>1. Head(requests).kind # "cap"
      BY <1>t, <1>r, <2>3 DEF Opening
    <3> QED BY <1>t, <1>s, <1>r, <1>n, <2>3, <3>1 DEF Opening, Alive
  <2>4. CASE ~Alive
    BY <1>t, <1>s, <2>4 DEF Opening, Alive
  <2> QED BY <1>t, <2>1, <2>2, <2>3, <2>4 DEF BotOK, Alive
<1> QED BY <1>1, <1>2, <1>3, <1>4, <1>5, <1>6

(* The answer is no answer to a change.                                     *)
LEMMA OtherAnswerKeeps ==
    ASSUME BotInv, requests # <<>>, requests' = Tail(requests), UNCHANGED botVars, UNCHANGED servVars,
           NEW m \in Notice, ~IsAnswer(m), notices' = notices \o <<m>>, Head(requests).kind # "add",
           IF Head(requests).kind = "cap" THEN m \in {[kind |-> "ack"], [kind |-> "nak"]}
                                          ELSE m.kind \notin {"welcome", "ack", "nak"}
    PROVE  BotInv'
<1>t. ServTypeOK /\ Progress
  BY DEF BotInv
<1>s. UNCHANGED <<flags, registered, original, disturbed>> /\ state' = state
  BY DEF servVars, botVars
<1>1. /\ QueuesOK' /\ BotOK' /\ AsConfigured' /\ Opening' /\ Distinct' /\ OneList' /\ ListIsTrue'
      /\ Untouched' = Untouched
      /\ Pending = Pending' \cup (IF Head(requests).kind = "add" THEN {Head(requests).change} ELSE {})
  BY <1>s, AnswerKeeps
<1>2. Progress'
  BY <1>t, <1>s, <1>1, ProgressKept
<1>3. ServTypeOK'
  BY <1>t, <1>s DEF ServTypeOK
<1> QED BY <1>1, <1>2, <1>3 DEF BotInv

(* An answer to the capability request or to the identification keeps it. *)
LEMMA ServeOtherKeeps ==
    ASSUME BotInv, requests # <<>>, requests' = Tail(requests), UNCHANGED botVars, ServeOther
    PROVE  BotInv'
<1>1. ASSUME NEW k \in {"ack", "nak", "identified", "refused"}, Says(<<[kind |-> k]>>),
             Head(requests).kind = IF k \in {"ack", "nak"} THEN "cap" ELSE "identify"
      PROVE  BotInv'
  <2> DEFINE m == [kind |-> k]
  <2>1. /\ m \in Notice /\ ~IsAnswer(m) /\ notices' = notices \o <<m>> /\ m.kind = k
        /\ k \in {"ack", "nak"} => m \in {[kind |-> "ack"], [kind |-> "nak"]}
    BY <1>1 DEF Notice, IsAnswer, Says
  <2>2. UNCHANGED servVars
    BY DEF ServeOther
  <2> HIDE DEF m
  <2> QED BY <1>1, <2>1, <2>2, OtherAnswerKeeps
<1> QED BY <1>1 DEF ServeOther, Refuses

(* A settled entry is as wanted, or its change is on its way. *)
LEMMA SettledCases ==
    ASSUME NEW c, NEW n, Settled(c, n)
    PROVE  \/ flags[c][n] = Wanted(c, n)
           \/ flags[c][n] = original[c][n] /\ \E x \in Pending : x.channel = c /\ x.nick = n
  BY DEF Settled

(* The flags of one entry of a list. *)
LEMMA ServeAddKeeps ==
    ASSUME BotInv, requests # <<>>, requests' = Tail(requests), UNCHANGED botVars, ServeAdd
    PROVE  BotInv'
<1> DEFINE ch == Head(requests).change
           m == [kind |-> "text"]
<1>t. ServTypeOK /\ QueuesOK /\ AsConfigured /\ Progress
  BY DEF BotInv
<1>s. /\ UNCHANGED <<registered, original>> /\ state' = state /\ Head(requests).kind = "add"
      /\ \/ /\ flags' = [flags EXCEPT ![ch.channel][ch.nick] = (@ \ ch.minus) \cup ch.plus]
            /\ UNCHANGED disturbed
         \/ /\ disturbed' = disturbed \cup {<<ch.channel, ch.nick>>}
            /\ UNCHANGED flags
  BY DEF ServeAdd, botVars
<1>m. m \in Notice /\ ~IsAnswer(m) /\ notices' = notices \o <<m>> /\ m.kind = "text"
  BY DEF ServeAdd, Notice, IsAnswer, Says
<1>r. Head(requests) \in Request /\ Head(requests) \in Range(requests)
  BY <1>t, RequestTaken
<1>c. ch \in Change /\ ch \in Pending
  BY <1>r, <1>s DEF Request, Pending, Adds
<1> HIDE DEF m
<1>1. /\ QueuesOK' /\ BotOK' /\ AsConfigured' /\ Opening' /\ Distinct' /\ OneList' /\ ListIsTrue'
      /\ Untouched' = Untouched
      /\ Pending' \subseteq Pending
      /\ Pending = Pending' \cup {ch}
  BY <1>s, <1>m, AnswerKeeps
<1> HIDE DEF ch
<1>2. ch.channel \in Channels /\ ch.nick \in Nicks /\ ch.minus \subseteq Flags /\ ch.plus \subseteq Flags
  BY <1>c DEF Change
<1>3. ServTypeOK'
  <2>1. flags \in [Channels -> [Nicks -> SUBSET Flags]] /\ original' \in Lists /\ registered' \subseteq Channels
    BY <1>t, <1>s DEF ServTypeOK, Lists
  <2>2. <<ch.channel, ch.nick>> \in Channels \X Nicks
    BY <1>2
  <2>3. disturbed' \subseteq Channels \X Nicks
    BY <1>t, <1>s, <2>2 DEF ServTypeOK
  <2>4. flags' \in [Channels -> [Nicks -> SUBSET Flags]]
    <3>1. CASE flags' = [flags EXCEPT ![ch.channel][ch.nick] = (@ \ ch.minus) \cup ch.plus]
      <4> DEFINE row == flags[ch.channel]
                 new == (row[ch.nick] \ ch.minus) \cup ch.plus
      <4>1. row \in [Nicks -> SUBSET Flags]
        BY <1>2, <2>1
      <4>2. new \in SUBSET Flags
        BY <1>2, <4>1
      <4>3. flags' = [flags EXCEPT ![ch.channel] = [row EXCEPT ![ch.nick] = new]]
        BY <3>1
      <4> HIDE DEF row, new
      <4>4. [row EXCEPT ![ch.nick] = new] \in [Nicks -> SUBSET Flags]
        BY <1>2, <4>1, <4>2
      <4> QED BY <1>2, <2>1, <4>3, <4>4
    <3> QED BY <1>s, <2>1, <3>1
  <2> QED BY <2>1, <2>3, <2>4 DEF ServTypeOK, Lists
<1>4. ch.channel \notin Untouched
  BY <1>t, <1>c DEF AsConfigured
<1>5. ASSUME NEW c \in Channels, NEW n \in Nicks, c # ch.channel \/ n # ch.nick
      PROVE  flags'[c][n] = flags[c][n]
  BY <1>s, <1>t, <1>2, <1>5 DEF ServTypeOK, Lists
<1>6. ASSUME NEW c \in Channels, NEW n \in Nicks PROVE Undisturbed(c, n)' => Undisturbed(c, n)
  BY <1>s DEF Undisturbed
<1>7. ASSUME NEW c \in Channels, NEW n \in Nicks, Undisturbed(c, n)', c \notin Untouched, Settled(c, n)
      PROVE  Settled(c, n)'
  <2>w. Wanted(c, n)' = Wanted(c, n)
    BY <1>s DEF Wanted
  <2>1. \A x \in Pending' : x.channel = c /\ x.nick = n =>
            x.minus = ToRemove(c, n, original'[c][n]) /\ x.plus = ToAdd(c, n, original'[c][n])
    BY <1>s, <1>1, <1>7 DEF Settled
  <2>2. CASE c # ch.channel \/ n # ch.nick
    <3>1. flags[c][n] = Wanted(c, n) \/ (flags[c][n] = original[c][n] /\ \E x \in Pending' : x.channel = c /\ x.nick = n)
      <4>1. \A x \in Pending : x.channel = c /\ x.nick = n => x \in Pending'
        BY <1>1, <2>2
      <4>2. flags[c][n] = Wanted(c, n) \/ (flags[c][n] = original[c][n] /\ \E x \in Pending : x.channel = c /\ x.nick = n)
        BY <1>7, SettledCases
      <4> QED BY <4>1, <4>2
    <3>2. flags'[c][n] = flags[c][n] /\ original'[c][n] = original[c][n]
      BY <1>s, <1>5, <2>2
    <3> QED BY <2>w, <2>1, <3>1, <3>2 DEF Settled
  <2>3. CASE c = ch.channel /\ n = ch.nick
    <3>1. <<c, n>> \notin disturbed'
      BY <1>7 DEF Undisturbed
    <3>2. flags' = [flags EXCEPT ![c][n] = (@ \ ch.minus) \cup ch.plus]
      BY <1>s, <2>3, <3>1
    <3>3. flags'[c][n] = (flags[c][n] \ ch.minus) \cup ch.plus
      BY <1>t, <3>2 DEF ServTypeOK, Lists
    <3>4. ch.minus = ToRemove(c, n, original[c][n]) /\ ch.plus = ToAdd(c, n, original[c][n])
      BY <1>7, <1>c, <2>3 DEF Settled
    <3>5. flags[c][n] = Wanted(c, n) \/ flags[c][n] = original[c][n]
      BY <1>7 DEF Settled
    <3>6. flags'[c][n] = Wanted(c, n)
      <4> DEFINE T == Target(c, n)
                 M == Mask(c)
                 O == original[c][n]
                 F == flags[c][n]
      <4>1. CASE T # {}
        <5>1. ch.minus = O \ T /\ ch.plus = T \ O /\ Wanted(c, n) = T
          BY <3>4, <4>1 DEF ToRemove, ToAdd, Wanted
        <5> HIDE DEF T, M, O, F
        <5>2. F = T \/ F = O
          BY <3>5, <5>1 DEF F, O
        <5>3. (F \ (O \ T)) \cup (T \ O) = T
          BY <5>2
        <5> QED BY <3>3, <5>1, <5>3 DEF F
      <4>2. CASE T = {}
        <5>1. ch.minus = O \ M /\ ch.plus = {} /\ Wanted(c, n) = O \cap M
          BY <3>4, <4>2 DEF ToRemove, ToAdd, Wanted
        <5> HIDE DEF T, M, O, F
        <5>2. F = O \cap M \/ F = O
          BY <3>5, <5>1 DEF F, O
        <5>3. (F \ (O \ M)) \cup {} = O \cap M
          BY <5>2
        <5> QED BY <3>3, <5>1, <5>3 DEF F
      <4> QED BY <4>1, <4>2
    <3> QED BY <2>w, <2>1, <3>6 DEF Settled
  <2> QED BY <2>2, <2>3
<1>8. Progress'
  <2> SUFFICES ASSUME NEW c \in Channels, NEW n \in Nicks, Undisturbed(c, n)'
               PROVE  IF c \in Untouched' THEN flags'[c][n] = original'[c][n]
                      ELSE state' \in {"cut", "crashed"} \/ Settled(c, n)'
    BY DEF Progress
  <2>1. IF c \in Untouched THEN flags[c][n] = original[c][n] ELSE state \in {"cut", "crashed"} \/ Settled(c, n)
    BY <1>t, <1>6 DEF Progress
  <2>2. CASE c \in Untouched
    BY <1>s, <1>1, <1>4, <1>5, <2>1, <2>2
  <2>3. CASE c \notin Untouched
    BY <1>s, <1>1, <1>7, <2>1, <2>3
  <2> QED BY <2>2, <2>3
<1> QED BY <1>1, <1>3, <1>8 DEF BotInv

(* What ChanServ says when a list is asked for: the entries in some order,  *)
(* then the end.                                                            *)
LEMMA ListFacts ==
    ASSUME BotInv, NEW c \in Channels, NEW t, t = Append(Entries(c), [kind |-> "end"])
    PROVE  LET S == {[kind |-> "entry", channel |-> c, nick |-> n, flags |-> flags[c][n]] :
                        n \in {m \in Nicks : flags[c][m] # {}}}
           IN  /\ t \in Seq(Notice) /\ Range(t) = S \cup {[kind |-> "end"]}
               /\ \A i \in 1..(Len(t) - 1) : t[i].kind = "entry"
<1> DEFINE N == {m \in Nicks : flags[c][m] # {}}
           F(n) == [kind |-> "entry", channel |-> c, nick |-> n, flags |-> flags[c][n]]
           S == {F(n) : n \in N}
           e == Entries(c)
           z == [kind |-> "end"]
<1>1. IsFiniteSet(S)
  <2>1. IsFiniteSet(N)
    BY ConfigAssumption, FS_Subset
  <2> DEFINE g == [n \in N |-> F(n)]
  <2>2. g \in Surjection(N, S)
    BY DEF Surjection
  <2> HIDE DEF g, N, S
  <2> QED BY <2>1, <2>2, FS_Surjection
<1>2. e \in Seq(S) /\ Range(e) = S
  <2>1. e = SetToSeq(S)
    BY DEF Entries
  <2> QED BY <1>1, <2>1, SetToSeqFacts
<1>3. S \subseteq Notice /\ z \in Notice
  <2>1. \A n \in Nicks : flags[c][n] \in SUBSET Flags
    BY DEF BotInv, ServTypeOK, Lists
  <2> QED BY <2>1 DEF Notice
<1>4. \A x \in S : x.kind = "entry"
  OBVIOUS
<1> HIDE DEF S, e, z
<1>5. e \in Seq(Notice)
  BY <1>2, <1>3
<1>6. t = Append(e, z)
  BY DEF e, z
<1>7. t \in Seq(Notice) /\ Range(t) = S \cup {z}
  <2>1. t \in Seq(Notice)
    BY <1>3, <1>5, <1>6, TypeOfAppend
  <2>2. Range(Append(e, z)) = Range(e) \cup {z}
    BY <1>5, RangeOfAppend
  <2> QED BY <1>2, <1>6, <2>1, <2>2
<1>8. \A i \in 1..(Len(t) - 1) : t[i].kind = "entry"
  <2>1. Len(t) = Len(e) + 1 /\ Len(e) \in Nat /\ \A i \in 1..Len(e) : t[i] = e[i]
    BY <1>5, <1>6
  <2>2. \A i \in 1..Len(e) : e[i] \in S
    BY <1>2
  <2> QED BY <1>4, <2>1, <2>2
<1> QED BY <1>7, <1>8 DEF S, z

(* ChanServ serving a list keeps it: what is answered is what the channel    *)
(* has.                                                                      *)
LEMMA ServeListKeeps ==
    ASSUME BotInv, requests # <<>>, requests' = Tail(requests), UNCHANGED botVars, ServeList
    PROVE  BotInv'
<1> DEFINE c == Head(requests).channel
<1>t. /\ ServTypeOK /\ QueuesOK /\ BotOK /\ AsConfigured /\ Opening /\ Distinct /\ OneList
      /\ ListIsTrue /\ Progress
  BY DEF BotInv
<1>s. /\ UNCHANGED <<flags, registered, original, disturbed>> /\ UNCHANGED servVars
      /\ UNCHANGED <<state, channels, current, list, changes>>
      /\ Head(requests).kind = "list"
      /\ \/ notices' = notices \o Append(Entries(c), [kind |-> "end"])
         \/ notices' = notices \o <<[kind |-> "text"]>>
  BY DEF ServeList, Refuses, servVars, botVars, Says
<1>r. /\ requests' \in Seq(Request) /\ Head(requests) \in Request /\ Head(requests) \in Range(requests)
      /\ Range(requests) = {Head(requests)} \cup Range(requests')
      /\ ListLast => c = current /\ list = {} /\ NoAnswers /\ requests' = <<>>
  BY <1>t, <1>s, RequestTaken
<1>c. c \in Channels
  BY <1>r, <1>s DEF Request
<1>1. CASE notices' = notices \o <<[kind |-> "text"]>>
  <2> DEFINE m == [kind |-> "text"]
  <2>1. m \in Notice /\ ~IsAnswer(m) /\ notices' = notices \o <<m>> /\ m.kind = "text"
    BY <1>s, <1>1 DEF Notice, IsAnswer
  <2> QED BY <1>s, <2>1, OtherAnswerKeeps
<1>2. CASE notices' = notices \o Append(Entries(c), [kind |-> "end"])
  <2> DEFINE t == Append(Entries(c), [kind |-> "end"])
             S == {[kind |-> "entry", channel |-> c, nick |-> n, flags |-> flags[c][n]] :
                      n \in {m \in Nicks : flags[c][m] # {}}}
  <2>1. notices' = notices \o t
    BY <1>2
  <2>2. /\ t \in Seq(Notice) /\ Range(t) = S \cup {[kind |-> "end"]}
        /\ \A i \in 1..(Len(t) - 1) : t[i].kind = "entry"
    BY <1>c, ListFacts
  <2>3. \A x \in Range(t) : x.kind \in {"entry", "end"}
    BY <2>2
  <2>4. \A n \in Nicks : {x.flags : x \in {y \in Range(t) : y.kind = "entry" /\ y.nick = n}}
                           = IF flags[c][n] = {} THEN {} ELSE {flags[c][n]}
    <3> SUFFICES ASSUME NEW n \in Nicks
                 PROVE  {x.flags : x \in {y \in Range(t) : y.kind = "entry" /\ y.nick = n}}
                           = IF flags[c][n] = {} THEN {} ELSE {flags[c][n]}
      OBVIOUS
    <3> DEFINE Y == {y \in Range(t) : y.kind = "entry" /\ y.nick = n}
    <3>1. \A y \in Y : y.flags = flags[c][n] /\ flags[c][n] # {}
      BY <2>2
    <3>2. flags[c][n] # {} => \E y \in Y : TRUE
      <4> SUFFICES ASSUME flags[c][n] # {} PROVE \E y \in Y : TRUE
        OBVIOUS
      <4> DEFINE y == [kind |-> "entry", channel |-> c, nick |-> n, flags |-> flags[c][n]]
      <4>1. y \in S /\ y.kind = "entry" /\ y.nick = n
        OBVIOUS
      <4> HIDE DEF t, S, y
      <4> QED BY <2>2, <4>1
    <3> HIDE DEF Y
    <3> QED BY <3>1, <3>2 DEF Y
  <2> HIDE DEF t, S, c
  <2>5. notices' \in Seq(Notice) /\ Range(notices') = Range(notices) \cup Range(t)
    BY <1>t, <2>1, <2>2, RangeOfConcat DEF QueuesOK
  <2>6. ServTypeOK' /\ QueuesOK' /\ BotOK' /\ Distinct' /\ Untouched' = Untouched
    BY <1>t, <1>s, <1>r, <2>5 DEF ServTypeOK, QueuesOK, BotOK, Distinct, Untouched
  <2>7. Pending' = Pending
    BY <1>s, <1>r DEF Pending, Adds
  <2>8. AsConfigured'
    BY <1>t, <2>6, <2>7 DEF AsConfigured, Kept
  <2>9. Progress'
    BY <1>t, <1>s, <2>6, <2>7, ProgressKept
  <2>10. Opening'
    <3>1. CASE state \in {"hello", "cap"}
      <4>1. requests = <<[kind |-> "cap"]>>
        BY <1>t, <3>1 DEF Opening
      <4> QED BY <1>s, <4>1
    <3>2. CASE state = "up"
      BY <1>t, <1>s, <1>r, <2>3, <2>5, <3>2 DEF Opening, Alive
    <3>3. CASE ~Alive
      BY <1>t, <1>s, <3>3 DEF Opening, Alive
    <3> QED BY <1>t, <3>1, <3>2, <3>3 DEF BotOK, Alive
  <2>11. CASE state # "up"
    <3>1. OneList' /\ ListIsTrue'
      BY <1>t, <1>s, <2>11 DEF OneList, ListIsTrue
    <3> QED BY <2>6, <2>8, <2>9, <2>10, <3>1 DEF BotInv
  <2>12. CASE state = "up"
    <3>1. c = current /\ list = {} /\ NoAnswers /\ requests' = <<>>
      BY <1>t, <1>r, <2>12 DEF OneList
    <3>2. current # NoChannel
      BY <1>c, <3>1, ConfigAssumption
    <3>3. EndLast'
      <4>1. /\ Len(notices) \in Nat /\ Len(t) \in Nat /\ Len(notices') = Len(notices) + Len(t)
            /\ \A i \in 1..Len(notices) : notices'[i] = notices[i]
            /\ \A i \in 1..Len(t) : notices'[i + Len(notices)] = t[i]
            /\ DOMAIN notices = 1..Len(notices)
        BY <1>t, <2>1, <2>2 DEF QueuesOK
      <4> SUFFICES ASSUME NEW i \in 1..Len(notices'), notices'[i].kind = "end" PROVE i = Len(notices')
        BY <4>1 DEF EndLast
      <4>2. i \notin 1..Len(notices)
        BY <3>1, <4>1 DEF NoAnswers, IsAnswer, Range
      <4>3. i - Len(notices) \in 1..Len(t) /\ notices'[i] = t[i - Len(notices)]
        <5>1. i - Len(notices) \in 1..Len(t) /\ i = (i - Len(notices)) + Len(notices)
          BY <4>1, <4>2
        <5> QED BY <4>1, <5>1
      <4>4. i - Len(notices) \notin 1..(Len(t) - 1)
        BY <2>2, <4>3
      <4> QED BY <4>1, <4>3, <4>4
    <3>4. ListLast'
      <4>1. requests' = <<>>
        BY <3>1
      <4>2. Len(<<>>) = 0 /\ 1..0 = {}
        OBVIOUS
      <4> QED BY <4>1, <4>2 DEF ListLast
    <3>5. OneList'
      BY <1>t, <1>s, <3>2, <3>3, <3>4 DEF OneList
    <3>6. ListIsTrue'
      <4> SUFFICES ASSUME NEW n \in Nicks, Undisturbed(current, n)
                   PROVE  Told(n)' \cup Telling(n)'
                            = IF original[current][n] = {} THEN {} ELSE {original[current][n]}
        BY <1>s DEF ListIsTrue, Undisturbed
      <4>1. Told(n)' = {}
        BY <1>s, <3>1 DEF Told
      <4>2. Telling(n)' = {x.flags : x \in {y \in Range(t) : y.kind = "entry" /\ y.nick = n}}
        <5>1. \A y \in Range(notices) : y.kind # "entry"
          BY <3>1 DEF NoAnswers, IsAnswer
        <5> QED BY <2>5, <5>1 DEF Telling
      <4>3. flags[current][n] = original[current][n]
        BY <1>c, <1>t, <3>1 DEF Progress, Untouched
      <4> QED BY <2>4, <3>1, <4>1, <4>2, <4>3
    <3> QED BY <2>6, <2>8, <2>9, <2>10, <3>5, <3>6 DEF BotInv
  <2> QED BY <2>11, <2>12
<1> QED BY <1>s, <1>1, <1>2

(* An operator's edit. *)
LEMMA EditKeeps ==
    ASSUME BotInv, Edit
    PROVE  BotInv'
<1>t. /\ ServTypeOK /\ QueuesOK /\ BotOK /\ AsConfigured /\ Opening /\ Distinct /\ OneList
      /\ ListIsTrue /\ Progress
  BY DEF BotInv
<1>s. UNCHANGED <<registered, original, state, channels, current, list, changes, requests, notices>>
  BY DEF Edit, botVars
<1>1. PICK c \in registered, n \in Nicks, f \in Flags :
         /\ flags' = [flags EXCEPT ![c][n] = IF f \in @ THEN @ \ {f} ELSE @ \cup {f}]
         /\ disturbed' = disturbed \cup {<<c, n>>}
  BY DEF Edit
<1>2. c \in Channels
  BY <1>t DEF ServTypeOK
<1>3. flags' \in Lists
  <2> DEFINE row == flags[c]
             new == IF f \in row[n] THEN row[n] \ {f} ELSE row[n] \cup {f}
  <2>1. flags \in [Channels -> [Nicks -> SUBSET Flags]]
    BY <1>t DEF ServTypeOK, Lists
  <2>2. row \in [Nicks -> SUBSET Flags]
    BY <1>2, <2>1
  <2>3. new \in SUBSET Flags
    BY <2>2
  <2>4. flags' = [flags EXCEPT ![c] = [row EXCEPT ![n] = new]]
    BY <1>1
  <2> HIDE DEF row, new
  <2>5. [row EXCEPT ![n] = new] \in [Nicks -> SUBSET Flags]
    BY <2>2, <2>3
  <2> QED BY <1>2, <2>1, <2>4, <2>5 DEF Lists
<1>4. ServTypeOK'
  <2>1. <<c, n>> \in Channels \X Nicks
    BY <1>2
  <2> QED BY <1>t, <1>s, <1>1, <1>3, <2>1 DEF ServTypeOK
<1>5. QueuesOK' /\ BotOK' /\ Distinct' /\ OneList' /\ Opening'
  BY <1>t, <1>s DEF QueuesOK, BotOK, Distinct, OneList, ListLast, EndLast, NoAnswers, Opening, Alive
<1>6. Pending' = Pending /\ Untouched' = Untouched
  BY <1>s DEF Pending, Adds, Untouched
<1>7. AsConfigured'
  BY <1>t, <1>6 DEF AsConfigured, Kept
<1>8. \A d, k : Undisturbed(d, k)' => Undisturbed(d, k) /\ <<d, k>> # <<c, n>>
  BY <1>s, <1>1 DEF Undisturbed
<1>9. ListIsTrue'
  BY <1>t, <1>s, <1>8 DEF ListIsTrue, Told, Telling
<1>10. Progress'
  <2> SUFFICES ASSUME NEW d \in Channels, NEW k \in Nicks, Undisturbed(d, k)'
               PROVE  IF d \in Untouched' THEN flags'[d][k] = original'[d][k]
                      ELSE state' \in {"cut", "crashed"} \/ Settled(d, k)'
    BY DEF Progress
  <2>1. d # c \/ k # n
    BY <1>8
  <2>2. flags'[d][k] = flags[d][k]
    BY <1>1, <1>t, <1>2, <2>1 DEF ServTypeOK, Lists
  <2>3. IF d \in Untouched THEN flags[d][k] = original[d][k] ELSE state \in {"cut", "crashed"} \/ Settled(d, k)
    BY <1>t, <1>8 DEF Progress
  <2>4. Settled(d, k) => Settled(d, k)'
    BY <1>s, <1>6, <2>2 DEF Settled, Wanted
  <2> QED BY <1>s, <1>6, <2>2, <2>3, <2>4
<1> QED BY <1>4, <1>5, <1>7, <1>9, <1>10 DEF BotInv

(* A notice that answers nothing. *)
LEMMA ExtraKeeps ==
    ASSUME BotInv, Extra
    PROVE  BotInv'
<1>t. /\ ServTypeOK /\ QueuesOK /\ BotOK /\ AsConfigured /\ Opening /\ Distinct /\ OneList
      /\ ListIsTrue /\ Progress
  BY DEF BotInv
<1>s. /\ UNCHANGED <<flags, registered, original, disturbed, state, channels, current, list, changes, requests>>
      /\ UNCHANGED servVars /\ state = "up"
  BY DEF Extra, botVars, servVars
<1>1. PICK k \in {"text", "word"} : notices' = notices \o <<[kind |-> k]>>
  BY DEF Extra, Says
<1> DEFINE m == [kind |-> k]
<1>m. m \in Notice /\ ~IsAnswer(m) /\ notices' = notices \o <<m>> /\ m.kind \in {"text", "word"}
  BY <1>1 DEF Notice, IsAnswer
<1> HIDE DEF m
<1>n. /\ notices' \in Seq(Notice) /\ Range(notices') = Range(notices) \cup {m}
      /\ EndLast => EndLast'
      /\ NoAnswers => NoAnswers'
      /\ (\E x \in Range(notices') : x.kind = "end") => \E x \in Range(notices) : x.kind = "end"
      /\ \A n : Telling(n)' = Telling(n)
  BY <1>t, <1>m, NoteAdded
<1>2. ServTypeOK' /\ QueuesOK' /\ BotOK' /\ Distinct'
  BY <1>t, <1>s, <1>n DEF ServTypeOK, QueuesOK, BotOK, Distinct
<1>3. Pending' = Pending /\ Untouched' = Untouched
  BY <1>s DEF Pending, Adds, Untouched
<1>4. AsConfigured'
  BY <1>t, <1>3 DEF AsConfigured, Kept
<1>5. Opening'
  BY <1>t, <1>s, <1>m, <1>n DEF Opening, Alive
<1>6. OneList'
  BY <1>t, <1>s, <1>n DEF OneList, ListLast
<1>7. ListIsTrue'
  <2>1. \A n : Told(n)' = Told(n) /\ (Undisturbed(current, n)' => Undisturbed(current, n))
    BY <1>s DEF Told, Undisturbed
  <2> QED BY <1>t, <1>s, <1>n, <2>1 DEF ListIsTrue
<1>8. Progress'
  BY <1>t, <1>s, <1>3, ProgressKept
<1> QED BY <1>2, <1>4, <1>5, <1>6, <1>7, <1>8 DEF BotInv

(* The loss of the connection keeps it. *)
LEMMA CutKeeps ==
    ASSUME BotInv, Cut
    PROVE  BotInv'
<1>1. notices' \in Seq(Notice)
  BY DEF Cut
<1> QED BY <1>1, DeathKeeps DEF Cut

(* So every step keeps it. *)
LEMMA BotInvKept == BotInv /\ [BotNext]_accessVars => BotInv'
<1> SUFFICES ASSUME BotInv, [BotNext]_accessVars PROVE BotInv'
  OBVIOUS
<1>1. CASE Bot
  BY <1>1, BotKeeps
<1>2. CASE Serve
  <2>1. requests # <<>> /\ requests' = Tail(requests) /\ UNCHANGED botVars
    BY <1>2 DEF Serve
  <2>2. ServeList \/ ServeAdd \/ ServeOther
    BY <1>2 DEF Serve
  <2> QED BY <2>1, <2>2, ServeListKeeps, ServeAddKeeps, ServeOtherKeeps
<1>3. CASE Edit
  BY <1>3, EditKeeps
<1>4. CASE Extra
  BY <1>4, ExtraKeeps
<1>5. CASE Cut
  BY <1>5, CutKeeps
<1>6. CASE UNCHANGED accessVars
  <2>1. UNCHANGED <<flags, registered, original, disturbed, state, channels, current, list, changes, requests, notices>>
    BY <1>6 DEF accessVars, servVars, botVars
  <2>2. UNCHANGED servVars
    BY <1>6 DEF accessVars
  <2>3. Pending' = Pending /\ Untouched' = Untouched
    BY <2>1 DEF Pending, Adds, Untouched
  <2>4. ServTypeOK' /\ QueuesOK' /\ BotOK' /\ AsConfigured' /\ Opening' /\ Distinct'
    BY <2>1, <2>3 DEF BotInv, ServTypeOK, QueuesOK, BotOK, AsConfigured, Kept, Opening, Alive, Distinct
  <2>5. OneList'
    BY <2>1 DEF BotInv, OneList, ListLast, EndLast, NoAnswers, IsAnswer
  <2>6. ListIsTrue'
    BY <2>1 DEF BotInv, ListIsTrue, Told, Telling, Undisturbed
  <2>7. Progress'
    BY <2>1, <2>2, <2>3, ProgressKept DEF BotInv
  <2> QED BY <2>4, <2>5, <2>6, <2>7 DEF BotInv
<1> QED BY <1>1, <1>2, <1>3, <1>4, <1>5, <1>6 DEF BotNext

(* When the bot quits, no channel is left to judge, and without requests on *)
(* their way every entry that was not disturbed is as wanted.               *)
LEMMA BotInvConverges == BotInv => Converges
<1> SUFFICES ASSUME BotInv, state = "quit", requests = <<>>, NEW c \in Channels, NEW n \in Nicks, Undisturbed(c, n)
             PROVE  flags[c][n] = Wanted(c, n)
  BY DEF Converges, Wanted
<1>1. channels = <<>> /\ current = NoChannel /\ changes = {}
  BY DEF BotInv, Opening, Alive
<1>2. Untouched = {NoChannel} /\ Pending = {}
  BY <1>1, RangeOfEmpty DEF Untouched, Pending, Adds
<1>3. c \notin Untouched
  BY <1>2, ConfigAssumption
<1>4. Settled(c, n)
  BY <1>3 DEF BotInv, Progress
<1> QED BY <1>2, <1>4 DEF Settled

(* When the bot quits and nothing it asked for is on its way, every access  *)
(* list is as channels.yaml asks, but for what was edited or refused.       *)
THEOREM BotConverges == BotSpec => []Converges
<1>1. BotInit => BotInv
  BY InitBot
<1>2. BotInv /\ [BotNext]_accessVars => BotInv'
  BY BotInvKept
<1>3. BotInv => Converges
  BY BotInvConverges
<1> QED BY <1>1, <1>2, <1>3, PTL DEF BotSpec

(* A change that ChanServ serves gives only flags of the configuration and   *)
(* takes none it grants.                                                     *)
LEMMA ServeAsConfigured ==
    BotInv /\ [BotNext]_accessVars
        => [Serve => \A c \in Channels, n \in Nicks :
              /\ flags'[c][n] \ flags[c][n] \subseteq Target(c, n)
              /\ (flags[c][n] \ flags'[c][n]) \cap
                    (IF Target(c, n) # {} THEN Target(c, n) ELSE Mask(c)) = {}]_accessVars
<1> SUFFICES ASSUME BotInv, [BotNext]_accessVars, Serve, NEW c \in Channels, NEW n \in Nicks
             PROVE  /\ flags'[c][n] \ flags[c][n] \subseteq Target(c, n)
                    /\ (flags[c][n] \ flags'[c][n]) \cap Kept(c, n) = {}
  BY DEF Kept
<1>1. CASE UNCHANGED flags
  BY <1>1
<1>2. CASE ServeAdd /\ flags' # flags
  <2> DEFINE ch == Head(requests).change
  <2>1. /\ Head(requests).kind = "add"
        /\ flags' = [flags EXCEPT ![ch.channel][ch.nick] = (@ \ ch.minus) \cup ch.plus]
    BY <1>2 DEF ServeAdd
  <2>2. requests # <<>> /\ requests' = Tail(requests)
    BY DEF Serve
  <2>3. ch \in Pending
    <3>1. Head(requests) \in Range(requests)
      BY <2>2, RequestTaken DEF BotInv
    <3> QED BY <2>1, <3>1 DEF Pending, Adds
  <2> HIDE DEF ch
  <2>4. ch.plus \subseteq Target(ch.channel, ch.nick) /\ ch.minus \cap Kept(ch.channel, ch.nick) = {}
    BY <2>3 DEF BotInv, AsConfigured
  <2>5. flags \in [Channels -> [Nicks -> SUBSET Flags]]
    BY DEF BotInv, ServTypeOK, Lists
  <2>6. CASE c = ch.channel /\ n = ch.nick
    <3>1. flags'[c][n] = (flags[c][n] \ ch.minus) \cup ch.plus
      BY <2>1, <2>5, <2>6
    <3> QED BY <2>4, <2>6, <3>1
  <2>7. CASE c # ch.channel \/ n # ch.nick
    <3>1. flags'[c][n] = flags[c][n]
      BY <2>1, <2>5, <2>7
    <3> QED BY <3>1
  <2> QED BY <2>6, <2>7
<1> QED BY <1>1, <1>2 DEF Serve, ServeList, ServeOther, servVars

(* No change the bot asks for gives a flag the configuration does not give  *)
(* or takes one it leaves, in whatever order notices and edits come.        *)
THEOREM BotObeysConfig == BotSpec => NeverAgainstConfig
<1>1. BotInit => BotInv
  BY InitBot
<1>2. BotInv /\ [BotNext]_accessVars => BotInv'
  BY BotInvKept
<1> QED BY <1>1, <1>2, ServeAsConfigured, PTL DEF BotSpec, NeverAgainstConfig

(* The flags stay flags of nicks on channels, the queues hold requests and  *)
(* notices the handlers know, and the counters keep their bounds.           *)
THEOREM BotTypeCorrect == BotSpec => []BotTypeOK
<1>1. BotInit => BotInv /\ CountsOK
  <2>1. 0 \in 0..MaxEdits /\ 0 \in 0..MaxExtras
    BY ConfigAssumption
  <2>2. BotInit => CountsOK
    BY <2>1 DEF BotInit, CountsOK
  <2> QED BY <2>2, InitBot
<1>2. BotInv /\ [BotNext]_accessVars => BotInv'
  BY BotInvKept
<1>3. BotInv /\ CountsOK /\ [BotNext]_accessVars => CountsOK'
  <2> SUFFICES ASSUME BotInv, CountsOK, [BotNext]_accessVars PROVE CountsOK'
    OBVIOUS
  <2>1. CASE Bot
    BY <2>1 DEF CountsOK, Bot, OnWelcome, OnCap, OnNickServ, OnChanServ, Handles, servVars, botVars
  <2>2. CASE Serve
    <3>1. Head(requests) \in Request
      BY <2>2, RequestTaken DEF Serve, BotInv
    <3>2. denied' \subseteq denied \cup {Head(requests)}
      BY <2>2 DEF Serve, ServeList, ServeAdd, ServeOther, Refuses
    <3>3. UNCHANGED <<identified, edits, extras>>
      BY <2>2 DEF Serve, botVars, servVars, ServeList, ServeAdd, ServeOther
    <3> QED BY <3>1, <3>2, <3>3 DEF CountsOK
  <2>3. CASE Edit
    BY <2>3, ConfigAssumption DEF CountsOK, Edit, botVars
  <2>4. CASE Extra
    BY <2>4, ConfigAssumption DEF CountsOK, Extra, botVars, servVars
  <2>5. CASE Cut
    BY <2>5 DEF CountsOK, Cut, servVars
  <2>6. CASE UNCHANGED accessVars
    BY <2>6 DEF CountsOK, accessVars, botVars, servVars
  <2> QED BY <2>1, <2>2, <2>3, <2>4, <2>5, <2>6 DEF BotNext
<1>4. BotInv /\ CountsOK => BotTypeOK
  BY DEF BotInv, ServTypeOK, QueuesOK, BotOK, CountsOK, BotTypeOK
<1> QED BY <1>1, <1>2, <1>3, <1>4, PTL DEF BotSpec

-----------------------------------------------------------------------------
(* THE BOT DOES NOT WAIT IN VAIN: the safety half of BotEnds *)

(* It acts on notices only.  If none is on its way to it, and nothing it    *)
(* has sent is still to be answered, then the services have refused what it *)
(* cannot go on without.                                                    *)
WaitsOnlyWhereRefused == Alive /\ requests = <<>> /\ notices = <<>> => Stranded

(* The notices that are not just passed over. *)
Awaited == {m \in Range(notices) : m.kind \notin {"nak", "refused"}}

(* Between two lists something is on its way, unless it was refused at the  *)
(* start, and so it is while there are changes to send; of a list that was  *)
(* asked for the request or the end is, unless it was refused.              *)
OnItsWay ==
    /\ Alive /\ current = NoChannel => Range(requests) \cup Awaited # {} \/ Stranded
    /\ changes # {} => (\E r \in Range(requests) : r.kind = "add") \/ Awaited # {}
    /\ state = "up" /\ current # NoChannel =>
          \/ \E r \in Range(requests) : r.kind = "list"
          \/ \E m \in Range(notices) : m.kind = "end"
          \/ [kind |-> "list", channel |-> current] \in denied

(* The bot sends before it waits. *)
LEMMA BotOnItsWay == ASSUME BotInv, OnItsWay, Bot PROVE OnItsWay'
<1>t. QueuesOK /\ Opening /\ OneList /\ denied' = denied
  BY DEF BotInv, Bot, OnWelcome, OnCap, OnNickServ, OnChanServ, Handles
<1>1. /\ notices # <<>> /\ notices' = Tail(notices) /\ Alive
      /\ Head(notices) \in Range(notices)
      /\ Range(notices) = {Head(notices)} \cup Range(notices')
  <2>1. notices # <<>> /\ notices' = Tail(notices) /\ Alive
    BY DEF Bot, OnWelcome, OnCap, OnNickServ, OnChanServ, Handles
  <2> QED BY <1>t, <2>1, NoteTaken
<1>s. ASSUME NEW r, requests' = Append(requests, r) PROVE r \in Range(requests')
  <2>1. requests \in Seq(Request)
    BY <1>t DEF QueuesOK
  <2> QED BY <1>s, <2>1, RangeOfAppend
<1>2. ASSUME NextChannel PROVE OnItsWay'
  <2>1. CASE Ends("quit")
    BY <2>1 DEF Ends, OnItsWay, Alive
  <2>2. CASE /\ current' = Last(channels) /\ changes' = {}
             /\ requests' = Append(requests, [kind |-> "list", channel |-> Last(channels)])
    <3> DEFINE r == [kind |-> "list", channel |-> Last(channels)]
    <3>1. r \in Range(requests') /\ r.kind = "list"
      BY <1>s, <2>2
    <3> QED BY <2>2, <3>1 DEF OnItsWay
  <2> QED BY <1>2, <2>1, <2>2 DEF NextChannel, Sends
<1>3. ASSUME NEW S, SendChange(S) PROVE OnItsWay'
  <2>1. PICK ch \in S : requests' = Append(requests, [kind |-> "add", change |-> ch]) /\ current' = NoChannel
    BY <1>3 DEF SendChange, Sends
  <2> DEFINE r == [kind |-> "add", change |-> ch]
  <2>2. r \in Range(requests') /\ r.kind = "add"
    BY <1>s, <2>1
  <2> QED BY <2>1, <2>2 DEF OnItsWay
<1>4. ASSUME Listing(Head(notices)), current # NoChannel, state = "up" PROVE OnItsWay'
  <2>1. CASE Head(notices).kind \in {"entry", "text"}
    <3>1. UNCHANGED <<state, current, requests, changes>>
      BY <1>4, <2>1 DEF Listing
    <3>2. \A m \in Range(notices) : m.kind = "end" => m \in Range(notices')
      BY <1>1, <2>1
    <3>3. changes = {}
      BY <1>t, <1>4 DEF OneList
    <3> QED BY <1>t, <1>1, <1>4, <3>1, <3>2, <3>3 DEF OnItsWay
  <2>2. CASE Head(notices).kind = "end"
    BY <1>2, <1>3, <1>4, <2>2 DEF Listing
  <2>3. CASE Ends("crashed")
    BY <2>3 DEF Ends, OnItsWay, Alive
  <2> QED BY <1>4, <2>1, <2>2, <2>3 DEF Listing
<1>5. ASSUME Advance(Head(notices)), state = "up" PROVE OnItsWay'
  BY <1>2, <1>3, <1>4, <1>5 DEF Advance
<1>6. state \in {"hello", "cap"} =>
         /\ notices \in {<<[kind |-> "welcome"]>>, <<[kind |-> "ack"]>>, <<[kind |-> "nak"]>>}
         /\ current = NoChannel /\ changes = {}
  BY <1>t, <1>1 DEF Opening
<1>7. state \in {"hello", "cap", "up"}
  BY <1>1 DEF BotInv, BotOK, Alive
<1>8. CASE OnWelcome \/ (OnCap /\ Head(notices).kind = "ack")
  <2>1. /\ UNCHANGED <<current, changes>>
        /\ \E r : requests' = Append(requests, r)
    BY <1>8 DEF OnWelcome, OnCap, Sends
  <2>2. Range(requests') # {}
    BY <1>s, <2>1
  <2>3. current = NoChannel /\ changes = {}
    <3>1. Head(notices).kind \in {"welcome", "ack"}
      BY <1>8 DEF OnWelcome, OnCap, Handles
    <3>2. state # "up"
      BY <1>t, <1>1, <3>1 DEF Opening
    <3> QED BY <1>6, <1>7, <3>2
  <2> QED BY <2>1, <2>2, <2>3 DEF OnItsWay
<1>9. CASE (OnCap /\ Head(notices).kind = "nak") \/ (OnNickServ /\ Head(notices).kind = "refused")
  <2>1. UNCHANGED <<state, current, changes, requests>>
    BY <1>9 DEF OnCap, OnNickServ, botVars
  <2>2. Awaited' = Awaited /\ (Stranded' <=> Stranded)
    BY <1>t, <1>1, <1>9, <2>1 DEF Awaited, Stranded
  <2>3. \A m \in Range(notices) : m.kind = "end" => m \in Range(notices')
    BY <1>1, <1>9
  <2> QED BY <1>t, <1>1, <2>1, <2>2, <2>3 DEF OnItsWay
<1>10. CASE (OnNickServ /\ Head(notices).kind = "identified") \/ OnChanServ
  <2>1. Head(notices).kind \in {"identified", "entry", "end", "text", "word"}
    BY <1>10 DEF OnNickServ, OnChanServ, Handles
  <2>2. state = "up"
    BY <1>6, <1>7, <2>1
  <2> QED BY <1>5, <1>10, <2>2 DEF OnNickServ, OnChanServ
<1> QED BY <1>8, <1>9, <1>10 DEF Bot, OnCap, OnNickServ

(* Whatever the bot sends is answered or refused, and a list has an end. *)
LEMMA ServeOnItsWay == ASSUME BotInv, OnItsWay, Serve PROVE OnItsWay'
<1>t. QueuesOK /\ Opening
  BY DEF BotInv
<1>1. /\ requests # <<>> /\ requests' = Tail(requests) /\ UNCHANGED <<state, current, changes>>
      /\ ServeList \/ ServeAdd \/ ServeOther
  BY DEF Serve, botVars
<1>2. denied \subseteq denied'
  BY <1>1 DEF ServeList, ServeAdd, ServeOther, Refuses
<1>3. /\ Head(requests) \in Request /\ Head(requests) \in Range(requests)
      /\ Range(requests) = {Head(requests)} \cup Range(requests')
      /\ ListLast /\ Head(requests).kind = "list" => Head(requests).channel = current
  BY <1>t, <1>1, RequestTaken
<1>4. ASSUME NEW k \in {"ack", "nak", "identified", "refused", "text"}, Says(<<[kind |-> k]>>)
      PROVE  /\ Range(notices) \subseteq Range(notices')
             /\ k \in {"ack", "identified", "text"} => Awaited' # {}
             /\ Awaited \subseteq Awaited'
  <2> DEFINE m == [kind |-> k]
             T == Notice \cup {m}
             one == <<m>>
  <2>1. notices \in Seq(T) /\ one \in Seq(T) /\ notices' = notices \o one
    BY <1>t, <1>4 DEF QueuesOK, Says
  <2>2. Range(one) = {m} /\ m.kind = k
    BY RangeOfSingle
  <2> HIDE DEF T, one, m
  <2>3. Range(notices') = Range(notices) \cup {m}
    BY <2>1, <2>2, RangeOfConcat
  <2> QED BY <2>2, <2>3 DEF Awaited
<1>5. CASE /\ Head(requests).kind # "list"
           /\ \E k \in {"ack", "identified", "text"} : Says(<<[kind |-> k]>>)
  <2>1. Awaited' # {} /\ Range(notices) \subseteq Range(notices')
    BY <1>4, <1>5
  <2> QED BY <1>1, <1>2, <1>3, <1>5, <2>1 DEF OnItsWay
<1>6. CASE Head(requests).kind = "cap" /\ Refuses("nak")
  <2>1. Range(notices) \subseteq Range(notices') /\ Awaited \subseteq Awaited'
    BY <1>4, <1>6 DEF Refuses
  <2>2. state # "up"
    BY <1>t, <1>3, <1>6 DEF Opening
  <2>3. Alive' => state = "cap" /\ changes = {}
    <3>1. state # "hello"
      BY <1>t, <1>1 DEF Opening
    <3> QED BY <1>t, <1>1, <2>2, <3>1 DEF Opening, Alive, BotInv, BotOK
  <2>4. ~Alive => changes = {}
    BY <1>t DEF Opening
  <2>5. [kind |-> "cap"] \in denied'
    <3>1. Head(requests) = [kind |-> "cap"]
      BY <1>3, <1>6 DEF Request
    <3> QED BY <1>6, <3>1 DEF Refuses
  <2>6. Alive' => Stranded'
    BY <1>1, <2>3, <2>5 DEF Stranded
  <2> QED BY <1>1, <2>2, <2>3, <2>4, <2>6 DEF OnItsWay, Alive
<1>7. CASE Head(requests).kind = "identify" /\ Refuses("refused")
  <2>1. Range(notices) \subseteq Range(notices') /\ Awaited \subseteq Awaited'
    BY <1>4, <1>7 DEF Refuses
  <2>2. (\E r \in Range(requests) : r.kind = "add") => \E r \in Range(requests') : r.kind = "add"
    BY <1>3, <1>7
  <2>3. (\E r \in Range(requests) : r.kind = "list") => \E r \in Range(requests') : r.kind = "list"
    BY <1>3, <1>7
  <2>4. changes' # {} => (\E r \in Range(requests') : r.kind = "add") \/ Awaited' # {}
    BY <1>1, <2>1, <2>2 DEF OnItsWay
  <2>5. Alive /\ current = NoChannel => Range(requests') \cup Awaited' # {} \/ Stranded'
    <3>1. CASE changes # {}
      BY <1>1, <2>4, <3>1
    <3>2. CASE changes = {} /\ Alive /\ current = NoChannel
      <4>1. [kind |-> "identify"] \in denied'
        <5>1. Head(requests) = [kind |-> "identify"]
          BY <1>3, <1>7 DEF Request
        <5> QED BY <1>7, <5>1 DEF Refuses
      <4>2. state = "up"
        <5>1. state # "hello"
          BY <1>t, <1>1 DEF Opening
        <5>2. state # "cap"
          <6>1. requests = <<[kind |-> "cap"]>> => Head(requests).kind = "cap"
            OBVIOUS
          <6> QED BY <1>t, <1>1, <1>7, <6>1 DEF Opening
        <5> QED BY <3>2, <5>1, <5>2 DEF Alive, BotInv, BotOK
      <4> QED BY <1>1, <3>2, <4>1, <4>2 DEF Stranded
    <3> QED BY <3>1, <3>2
  <2> QED BY <1>1, <1>2, <2>1, <2>3, <2>4, <2>5 DEF OnItsWay, Alive
<1>8. CASE ServeList
  <2> DEFINE c == Head(requests).channel
             u == Append(Entries(c), [kind |-> "end"])
  <2>1. /\ Head(requests).kind = "list"
        /\ (Says(u) /\ UNCHANGED denied) \/ Refuses("text")
    BY <1>8 DEF ServeList
  <2>2. c \in Channels
    BY <1>3, <2>1 DEF Request
  <2>3. state = "up" => c = current
    BY <1>3, <2>1 DEF BotInv, OneList
  <2>4. CASE Says(u)
    <3>1. u \in Seq(Notice) /\ [kind |-> "end"] \in Range(u)
      BY <2>2, ListFacts
    <3>2. notices' = notices \o u
      BY <2>4 DEF Says
    <3> DEFINE m == [kind |-> "end"]
    <3> HIDE DEF u
    <3>3. Range(notices') = Range(notices) \cup Range(u)
      BY <1>t, <3>1, <3>2, RangeOfConcat DEF QueuesOK
    <3>4. m \in Range(notices') /\ m.kind = "end"
      BY <3>1, <3>3
    <3>5. Awaited' # {}
      BY <3>4 DEF Awaited
    <3> QED BY <3>4, <3>5 DEF OnItsWay
  <2>5. CASE Refuses("text")
    <3>1. Awaited' # {}
      BY <1>4, <2>5 DEF Refuses
    <3>2. state = "up" => [kind |-> "list", channel |-> current] \in denied'
      <4>1. Head(requests) = [kind |-> "list", channel |-> c]
        BY <1>3, <2>1 DEF Request
      <4> QED BY <2>3, <2>5, <4>1 DEF Refuses
    <3> QED BY <1>1, <3>1, <3>2 DEF OnItsWay
  <2> QED BY <2>1, <2>4, <2>5
<1>9. CASE ServeAdd \/ ServeOther
  <2>1. \/ /\ Head(requests).kind # "list"
           /\ \E k \in {"ack", "identified", "text"} : Says(<<[kind |-> k]>>)
        \/ Head(requests).kind = "cap" /\ Refuses("nak")
        \/ Head(requests).kind = "identify" /\ Refuses("refused")
    BY <1>9 DEF ServeAdd, ServeOther
  <2> QED BY <1>5, <1>6, <1>7, <2>1
<1> QED BY <1>1, <1>8, <1>9

(* Edits, notices nobody asked for and a lost connection take nothing away. *)
LEMMA OthersOnItsWay ==
    ASSUME BotInv, OnItsWay, Edit \/ Extra \/ Cut \/ UNCHANGED accessVars
    PROVE  OnItsWay'
<1>1. CASE Edit \/ UNCHANGED accessVars
  <2>1. UNCHANGED <<state, current, changes, requests, notices, denied>>
    BY <1>1 DEF Edit, accessVars, botVars
  <2> QED BY <2>1 DEF OnItsWay, Alive, Stranded, Awaited
<1>2. CASE Extra
  <2>1. UNCHANGED <<state, current, changes, requests, denied>>
    BY <1>2 DEF Extra, botVars
  <2>2. PICK k \in {"text", "word"} : notices' = notices \o <<[kind |-> k]>>
    BY <1>2 DEF Extra, Says
  <2> DEFINE m == [kind |-> k]
  <2>3. m \in Notice /\ ~IsAnswer(m) /\ notices' = notices \o <<m>>
    BY <2>2 DEF Notice, IsAnswer
  <2> HIDE DEF m
  <2>4. Range(notices') = Range(notices) \cup {m}
    BY <2>3, NoteAdded DEF BotInv
  <2>5. Awaited \subseteq Awaited' /\ (Stranded' <=> Stranded)
    BY <2>1, <2>4 DEF Awaited, Stranded
  <2> QED BY <2>1, <2>4, <2>5 DEF OnItsWay, Alive
<1>3. CASE Cut
  BY <1>3 DEF Cut, Ends, OnItsWay, Alive
<1> QED BY <1>1, <1>2, <1>3

(* As long as the bot lives there is a notice for it to come, unless the    *)
(* services have refused the capability, the identification or a list: then *)
(* it waits for ever, for accessbot.py acts on notices only and has no time *)
(* limit.                                                                   *)
THEOREM BotWaitsOnlyWhereRefused == BotSpec => []WaitsOnlyWhereRefused
<1>1. BotInit => OnItsWay
  <2> SUFFICES ASSUME BotInit PROVE OnItsWay
    OBVIOUS
  <2> DEFINE m == [kind |-> "welcome"]
  <2>1. notices = <<m>> /\ state = "hello" /\ changes = {}
    BY DEF BotInit
  <2>2. Range(notices) = {m} /\ m.kind = "welcome"
    BY <2>1, RangeOfSingle
  <2>3. Awaited # {}
    BY <2>2 DEF Awaited
  <2> QED BY <2>1, <2>3 DEF OnItsWay
<1>2. BotInv /\ OnItsWay /\ [BotNext]_accessVars => OnItsWay'
  BY BotOnItsWay, ServeOnItsWay, OthersOnItsWay DEF BotNext
<1>3. BotInv /\ OnItsWay => WaitsOnlyWhereRefused
  <2> SUFFICES ASSUME BotInv, OnItsWay, Alive, requests = <<>>, notices = <<>>
               PROVE  Stranded
    BY DEF WaitsOnlyWhereRefused
  <2>1. Range(requests) = {} /\ Range(notices) = {} /\ Awaited = {}
    BY RangeOfEmpty DEF Awaited
  <2>2. CASE current = NoChannel
    BY <2>1, <2>2 DEF OnItsWay
  <2>3. CASE current # NoChannel
    <3>1. state = "up"
      BY <2>3 DEF BotInv, BotOK, Opening, Alive
    <3> QED BY <2>1, <2>3, <3>1 DEF OnItsWay, Stranded
  <2> QED BY <2>2, <2>3
<1> QED BY InitBot, BotInvKept, <1>1, <1>2, <1>3, PTL DEF BotSpec

=============================================================================

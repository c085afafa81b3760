------------------------------ MODULE LaunchNode ------------------------------
(***************************************************************************)
(* launch-node.py: builds a server in an OpenStack cloud, logs in, runs    *)
(* puppet on it and reboots it.  The program makes a keypair, a server and *)
(* where the cloud wants it a floating ip; whatever goes wrong after the   *)
(* server was asked for, it is to take all of them down again.             *)
(*                                                                         *)
(* Every call to the cloud may fail, before or after it was carried out,   *)
(* and its list of floating ips may be behind.  The cloud, which builds    *)
(* the server or fails to, its sshd and an operator's ^C are the           *)
(* environment.  --volume, which main() refuses, and the text of the dns   *)
(* commands are left out.                                                  *)
(***************************************************************************)
EXTENDS Integers

CONSTANTS Users,    \* number of user names tried: root, ubuntu, centos, admin
          Commands, \* number of set-up commands before the puppet agent
          MaxPolls  \* bound: turns of a loop over iterate_timeout

ASSUME LaunchAssumption == Users \in Nat \ {0} /\ Commands \in Nat /\ MaxPolls \in Nat

Root == 1

VARIABLES
    keep,       \* the option --keep
    ext,        \* what the cloud has: keypairs, floating ips, an Ext-Net with addresses
    server, keypair, fip, \* cloud: what this launch has made
    shown,      \* cloud: its list has the attached address with the server's id
    reachable, logins,    \* server: sshd is up; user names that get a shell
    pc, user, polls, step, \* the program: where it is, and its loop variables
    puppet,     \* what the exit code of the agent said that was let pass
    outcome,
    unanswered, \* history: a call failed although it was carried out
    unclean,    \* history: a call of the cleaning up failed
    notattached, \* history: add_floating_ip() failed
    unseen      \* history: the list cleaned up from did not show the address

cloudVars == <<server, keypair, fip, shown>>
sshVars == <<reachable, logins>>
loopVars == <<user, polls, step>>
history == <<unanswered, unclean, notattached, unseen>>
options == <<keep, ext>>
vars == <<options, cloudVars, sshVars, pc, loopVars, puppet, outcome, history>>

TypeOK ==
    /\ keep \in BOOLEAN /\ ext \subseteq {"keypairs", "fips", "extnet"}
    /\ server \in {"none", "building", "active", "error", "deleted"}
    /\ keypair \in BOOLEAN /\ fip \in {"none", "loose", "attached"} /\ shown \in BOOLEAN
    /\ reachable \in BOOLEAN /\ logins \subseteq 1..Users
    /\ pc \in {"keypair", "create", "dropkey", "wait", "address", "attach", "login", "rootkeys", "root",
               "setup", "agent", "reboot", "donekey", "dns", "unip", "unkey", "unserver", "end"}
    /\ user \in 1..Users /\ polls \in 0..MaxPolls /\ step \in 0..Commands
    /\ puppet \in {"not run", "success", "refused", "other code"}
    /\ outcome \in {"running", "launched", "launched, not shown", "failed", "interrupted"}
    /\ unanswered \in BOOLEAN /\ unclean \in BOOLEAN /\ notattached \in BOOLEAN /\ unseen \in BOOLEAN

Init ==
    /\ keep \in BOOLEAN /\ ext \in SUBSET {"keypairs", "fips", "extnet"}
    /\ server = "none" /\ keypair = FALSE /\ fip = "none" /\ shown = FALSE
    /\ reachable = FALSE /\ logins \in SUBSET (1..Users)
    /\ pc = "keypair" /\ user = Root /\ polls = 0 /\ step = 0
    /\ puppet = "not run" /\ outcome = "running"
    /\ unanswered = FALSE /\ unclean = FALSE /\ notattached = FALSE /\ unseen = FALSE

-----------------------------------------------------------------------------
(* CALLS AND EXCEPTIONS *)

(* A call that changes x, the cloud's side of it, to v: it works, or it     *)
(* fails without effect, or its effect stands but the answer does not come. *)
Works(x, v) == x' = v /\ UNCHANGED unanswered
Fails(x, v) == \/ UNCHANGED <<x, unanswered>>
               \/ x' = v /\ unanswered' = TRUE

Goto(next) == pc' = next /\ UNCHANGED outcome
End(how) == pc' = "end" /\ outcome' = how

(* Every exception in build_server's second try statement ends here. *)
Raises == IF keep THEN End("failed") ELSE Goto("unip")

-----------------------------------------------------------------------------
(* BUILDING THE SERVER: build_server, wait_for_resource *)

AddKeypair ==
    /\ pc = "keypair"
    /\ \/ "keypairs" \notin ext /\ Goto("create") /\ UNCHANGED <<keypair, unanswered>>
       \/ "keypairs" \in ext /\ Works(keypair, TRUE) /\ Goto("create")
       \/ "keypairs" \in ext /\ Fails(keypair, TRUE) /\ End("failed")
       \/ End("failed") /\ UNCHANGED <<keypair, unanswered>>
    /\ UNCHANGED <<options, server, fip, shown, sshVars, loopVars, puppet, unclean, notattached, unseen>>

(* What the answer lacks of the server, adminPass, is asked for next.       *)
Create ==
    /\ pc = "create"
    /\ \/ Works(server, "building") /\ (Goto("wait") \/ Raises)
       \/ Fails(server, "building") /\ Goto("dropkey")
    /\ UNCHANGED <<options, keypair, fip, shown, sshVars, loopVars, puppet, unclean, notattached, unseen>>

(* The first except clause; without keypairs kp is unbound, which the inner *)
(* try statement reports and forgets as well.                               *)
DropKey ==
    /\ pc = "dropkey" /\ End("failed")
    /\ \/ Works(keypair, FALSE) /\ UNCHANGED unclean
       \/ "keypairs" \in ext /\ Fails(keypair, FALSE) /\ unclean' = TRUE
    /\ UNCHANGED <<options, server, fip, shown, sshVars, loopVars, puppet, notattached, unseen>>

Timeout == polls = MaxPolls /\ Raises /\ UNCHANGED polls

(* A plausible mistake: a status that cannot be read does not count. *)
WaitUncounted ==
    /\ pc = "wait"
    /\ \/ server = "active" /\ Goto("address") /\ polls' = 0
       \/ UNCHANGED <<pc, outcome, polls>>
       \/ Timeout
    /\ UNCHANGED <<options, cloudVars, sshVars, user, step, puppet, history>>

(* Only ACTIVE ends the loop: an error is polled until the time is up, and  *)
(* so is a status that cannot be read.                                      *)
Wait ==
    /\ pc = "wait"
    /\ \/ server = "active" /\ Goto("address") /\ polls' = 0
       \/ polls < MaxPolls /\ polls' = polls + 1 /\ UNCHANGED <<pc, outcome>>
       \/ Timeout
    /\ UNCHANGED <<options, cloudVars, sshVars, user, step, puppet, history>>

-----------------------------------------------------------------------------
(* ITS ADDRESS: get_public_ip *)

(* An address the server already has, of Ext-Net, a floating ip the cloud    *)
(* gave it, or without floating ips one of its networks; or a new one.      *)
Address ==
    /\ pc = "address"
    /\ \/ Goto("login") /\ UNCHANGED <<fip, unanswered>>
       \/ "extnet" \notin ext /\ Raises /\ UNCHANGED <<fip, unanswered>>
       \/ /\ "extnet" \notin ext /\ "fips" \in ext
          /\ \/ Works(fip, "loose") /\ Goto("attach")
             \/ Fails(fip, "loose") /\ Raises
    /\ UNCHANGED <<options, server, keypair, shown, sshVars, loopVars, puppet, unclean, notattached, unseen>>

(* The list that is asked at once may show the address or not; one it does  *)
(* not show yet leads on to the other networks.                             *)
Attach ==
    /\ pc = "attach"
    /\ \/ /\ Works(fip, "attached") /\ UNCHANGED notattached
          /\ Goto("login") \/ Raises
       \/ Fails(fip, "attached") /\ notattached' = TRUE /\ Raises
    /\ shown' \in BOOLEAN
    /\ UNCHANGED <<options, server, keypair, sshVars, loopVars, puppet, unclean, unseen>>

-----------------------------------------------------------------------------
(* SETTING IT UP: bootstrap_server, ssh_connect, interpret_puppet_exitcodes *)

(* ssh_connect: sshd that is not up yet is waited for; a user who is not    *)
(* let in, or gets no shell, gives None; any other exception raises.        *)
Connected(u) == reachable /\ u \in logins
NotLetIn(u) == reachable /\ u \notin logins
NotYet == /\ ~reachable
          /\ polls < MaxPolls /\ polls' = polls + 1 /\ UNCHANGED <<pc, outcome>>

Login ==
    /\ pc = "login"
    /\ \/ /\ Connected(user) /\ polls' = 0 /\ UNCHANGED user
          /\ Goto(IF user = Root THEN "root" ELSE "rootkeys")
       \/ NotLetIn(user) /\ user < Users /\ user' = user + 1 /\ polls' = 0 /\ UNCHANGED <<pc, outcome>>
       \/ NotLetIn(user) /\ user = Users /\ Raises /\ UNCHANGED <<user, polls>>
       \/ reachable /\ Raises /\ UNCHANGED <<user, polls>>
       \/ (NotYet \/ Timeout) /\ UNCHANGED user
    /\ UNCHANGED <<options, cloudVars, sshVars, step, puppet, history>>

RootKeys ==
    /\ pc = "rootkeys"
    /\ \/ logins' = logins \cup {Root} /\ Goto("root")
       \/ Raises /\ UNCHANGED logins
    /\ UNCHANGED <<options, cloudVars, reachable, loopVars, puppet, history>>

(* A None here has no method ssh; other exceptions raise as well. *)
LoginAsRoot ==
    /\ pc = "root"
    /\ \/ Connected(Root) /\ Goto("setup") /\ polls' = 0
       \/ reachable /\ Raises /\ UNCHANGED polls
       \/ NotYet \/ Timeout
    /\ UNCHANGED <<options, cloudVars, sshVars, user, step, puppet, history>>

SetUp ==
    /\ pc = "setup"
    /\ \/ step < Commands /\ step' = step + 1 /\ UNCHANGED <<pc, outcome>>
       \/ step < Commands /\ Raises /\ UNCHANGED step
       \/ step = Commands /\ Goto("agent") /\ UNCHANGED step
    /\ UNCHANGED <<options, cloudVars, sshVars, user, polls, puppet, history>>

(* A plausible mistake: the exit code of the agent is not looked at. *)
AgentUnchecked ==
    /\ pc = "agent" /\ Goto("reboot")
    /\ puppet' \in {"success", "refused", "other code"}
    /\ UNCHANGED <<options, cloudVars, sshVars, loopVars, history>>

(* 0 and 2 are successes, 1 and 124 raise; any other code passes: those for *)
(* resources that failed, for no such command, for a broken connection.     *)
Agent ==
    /\ pc = "agent"
    /\ \/ puppet' \in {"success", "other code"} /\ Goto("reboot")
       \/ Raises /\ UNCHANGED puppet
    /\ UNCHANGED <<options, cloudVars, sshVars, loopVars, history>>

(* The connection may break before the exit code comes (-1), which passes;  *)
(* any other exception raises.                                              *)
Reboot ==
    /\ pc = "reboot"
    /\ Goto("donekey") \/ Raises
    /\ UNCHANGED <<options, cloudVars, sshVars, loopVars, puppet, history>>

(* Still in the try statement: a key that cannot be deleted takes the       *)
(* server down.                                                             *)
DoneKey ==
    /\ pc = "donekey"
    /\ \/ Works(keypair, FALSE) /\ Goto("dns")
       \/ "keypairs" \in ext /\ Fails(keypair, FALSE) /\ Raises
    /\ UNCHANGED <<options, server, fip, shown, sshVars, loopVars, puppet, unclean, notattached, unseen>>

(* print_dns() and forgetting the inventory of ansible, outside of any try. *)
Show ==
    /\ pc = "dns"
    /\ \E how \in {"launched", "launched, not shown"} : End(how)
    /\ UNCHANGED <<options, cloudVars, sshVars, loopVars, puppet, history>>

-----------------------------------------------------------------------------
(* TAKING IT DOWN: delete_server, whose parts fail each for itself *)

(* The list is searched for addresses with the id of the server. *)
Found == fip = "attached" /\ shown

(* A plausible mistake: the address is taken off the server and kept. *)
RemoveIpOnly ==
    /\ pc = "unip" /\ Goto("unkey")
    /\ fip' = IF Found THEN "loose" ELSE fip
    /\ unclean' \in {unclean, TRUE}
    /\ unseen' = (unseen \/ (fip = "attached" /\ ~shown))
    /\ UNCHANGED <<options, server, keypair, shown, sshVars, loopVars, puppet, unanswered, notattached>>

(* An address that is found is taken off and deleted, or one of the calls   *)
(* fails.  The clause here and in RemoveKey is a bare except: a ^C counts   *)
(* as a call that fails.                                                    *)
RemoveIp ==
    /\ pc = "unip" /\ Goto("unkey")
    /\ \/ Found /\ fip' = "none" /\ UNCHANGED <<unclean, unseen>>
       \/ ~Found /\ unseen' = (unseen \/ fip = "attached") /\ UNCHANGED <<fip, unclean>>
       \/ /\ unclean' = TRUE /\ UNCHANGED unseen
          /\ fip' \in IF Found THEN {"attached", "loose", "none"} ELSE {fip}
    /\ UNCHANGED <<options, server, keypair, shown, sshVars, loopVars, puppet, unanswered, notattached>>

RemoveKey ==
    /\ pc = "unkey" /\ Goto("unserver")
    /\ \/ keypair' = FALSE /\ UNCHANGED unclean
       \/ keypair' \in {keypair, FALSE} /\ unclean' = TRUE
    /\ UNCHANGED <<options, server, fip, shown, sshVars, loopVars, puppet, unanswered, notattached, unseen>>

(* The original exception goes on in either case.  A server that goes       *)
(* leaves a floating ip behind.                                             *)
RemoveServer ==
    /\ pc = "unserver" /\ End("failed")
    /\ \/ server' = "deleted" /\ UNCHANGED unclean
       \/ server' \in {server, "deleted"} /\ unclean' = TRUE
    /\ fip' = IF server' = "deleted" /\ fip = "attached" THEN "loose" ELSE fip
    /\ UNCHANGED <<options, keypair, shown, sshVars, loopVars, puppet, unanswered, notattached, unseen>>

Program == \/ AddKeypair \/ Create \/ DropKey \/ Wait \/ Address \/ Attach
           \/ Login \/ RootKeys \/ LoginAsRoot \/ SetUp \/ Agent \/ Reboot \/ DoneKey \/ Show
           \/ RemoveIp \/ RemoveKey \/ RemoveServer

-----------------------------------------------------------------------------
(* THE ENVIRONMENT *)

Build ==
    /\ server = "building" /\ server' \in {"active", "error"}
    /\ UNCHANGED <<options, keypair, fip, shown, sshVars, pc, loopVars, puppet, outcome, history>>

StartSshd ==
    /\ server = "active" /\ ~reachable /\ reachable' = TRUE
    /\ UNCHANGED <<options, cloudVars, logins, pc, loopVars, puppet, outcome, history>>

ListCatchesUp ==
    /\ fip = "attached" /\ ~shown /\ shown' = TRUE
    /\ UNCHANGED <<options, server, keypair, fip, sshVars, pc, loopVars, puppet, outcome, history>>

(* KeyboardInterrupt is no Exception: nothing is taken down. *)
Interrupt ==
    /\ outcome = "running" /\ End("interrupted")
    /\ UNCHANGED <<options, cloudVars, sshVars, loopVars, puppet, history>>

Next == Program \/ Build \/ StartSshd \/ ListCatchesUp \/ Interrupt

Spec == Init /\ [][Next]_vars /\ WF_vars(Program)

-----------------------------------------------------------------------------
(* PROPERTIES *)

(* A launch that fails leaves nothing behind that costs money: whatever     *)
(* call failed and at whatever point, server, keypair and floating ip are   *)
(* gone, if the calls that take them down work and none lies about its      *)
(* outcome.  An address that delete_server cannot find, since it could not   *)
(* be attached or the list does not show it yet, is the exception.          *)
CleanedUp ==
    outcome = "failed" /\ ~keep /\ ~unclean /\ ~unanswered
        => /\ server \in {"none", "deleted"} /\ ~keypair
           /\ fip = "none" \/ (fip = "loose" /\ (notattached \/ unseen))

(* A server that is reported as launched stands, lets root in, has been set *)
(* up, has not been refused by the puppet agent and has no throw-away key   *)
(* left, and the address that was made for it is its own.                   *)
LaunchedIsWhole ==
    outcome \in {"launched", "launched, not shown"}
        => /\ server = "active" /\ puppet \in {"success", "other code"} /\ step = Commands /\ Root \in logins
           /\ ~keypair /\ fip # "loose"

(* Whatever the cloud does or fails to do, the program comes to an end.     *)
LaunchEnds == <>(pc = "end")

=============================================================================

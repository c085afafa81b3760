------------------------- MODULE XenServerConversion -------------------------
(***************************************************************************)
(* convert_node_to_xenserver.sh installs XenServer beside the Ubuntu of an *)
(* instance.  It is run at every boot of either system and goes on from a  *)
(* state file; later every restart goes through Ubuntu, which stores the   *)
(* network settings of the instance, into XenServer, which transfers them  *)
(* to the appliance, a guest of its own.                                   *)
(*                                                                         *)
(* The machine may stop at any point.  A command that fails ends the       *)
(* script (set -e) until someone restarts the machine, which comes to the  *)
(* same.  A stop finds on disk what was there at the last reboot or sync   *)
(* or anything written since, each file for itself; before the script      *)
(* installs itself in its first stage, a person starts it instead.         *)
(***************************************************************************)
EXTENDS Integers, Sequences

CONSTANTS MaxCrashes,    \* bound: stops of the machine
          MaxInstances   \* bound: instances started from snapshots

Stages == {"START", "SETUP_INSTALLER", "XENSERVER_FIRSTBOOT", "UBUNTU", "XENSERVER"}
Empty == ""

VARIABLES
    stateFile,    \* on Ubuntu's file system
    bootNext,     \* default of the boot loader: "ubuntu", "installer" or "xenserver"
    ramdisk,      \* /xsinst is there, and what else START lays down
    appliance,    \* "none", "imported" (nobody can reach it or log in) or "keyed"
    stored,       \* cloud-settings, in the ramdisk and later on dom0; 0 is an empty file
    settled,      \* what of these is on disk for sure
    dirty,        \* which of them have been written since
    system,       \* what has booted
    script,       \* "runs", "waits" (for ever), "died" or "ended"
    command,      \* which of its commands is next
    stageRun,     \* the stage it is in
    importedNow,  \* APP_IMPORTED_NOW
    services,     \* what the system starts beside it is up: Ubuntu's network, XenServer's API
    guest,        \* the appliance: "down", "booting", "up" or "going" (down, to boot again)
    applied,      \* the settings it has come up with
    ready,        \* the file to touch on completion, which no boot survives
    hasty,        \* history: it was touched in an appliance on its way down
    address,      \* the instance's network settings: a number that each instance increments
    crashes, unlucky   \* history: stops, and whether one of them tore the disk

diskVars == <<stateFile, bootNext, ramdisk, appliance, stored>>
safeVars == <<settled, dirty>>
guestVars == <<guest, applied, ready, hasty>>
scriptVars == <<system, script, command, stageRun, importedNow, services>>
historyVars == <<address, crashes, unlucky>>
conversionVars == <<diskVars, safeVars, guestVars, scriptVars, historyVars>>

Disk == [stateFile |-> stateFile, bootNext |-> bootNext, ramdisk |-> ramdisk,
         appliance |-> appliance, stored |-> stored]
Settles == settled' = Disk' /\ dirty' = {}

ConversionInit ==
    /\ stateFile = "START" /\ bootNext = "ubuntu" /\ ramdisk = FALSE /\ appliance = "none" /\ stored = 0
    /\ settled = Disk /\ dirty = {}
    /\ system = "ubuntu" /\ script = "runs" /\ command = 1 /\ stageRun = "START"
    /\ importedNow = FALSE /\ services = FALSE
    /\ guest = "down" /\ applied = 0 /\ ready = FALSE /\ hasty = FALSE
    /\ address = 1 /\ crashes = 0 /\ unlucky = FALSE

-----------------------------------------------------------------------------
(* main: the commands that matter of each stage, and the stage it sets *)

Commands(stage) ==
    CASE stage = "START" -> <<"dump_disk_config", "mkdir", "truncate", "write", "reboot">>
      [] stage = "SETUP_INSTALLER" ->
            <<"dump_disk_config", "store", "nextboot", "truncate", "write", "reboot">>
      [] stage = "UBUNTU" -> <<"mount_dom0_fs", "wait_for_networking", "store", "nextboot",
                               "truncate", "write", "reboot">>
      [] OTHER -> <<"wait_for_xapi", "vm-import", "dom0key", "configure", "nextboot",
                    "truncate", "write", "sync", "done">>

(* A plausible mistake: the first boot of XenServer is taken for any other  *)
(* one, so that the state is set as in the stage before.                    *)
NextStateCopied(stage) ==
    CASE stage = "START" -> "SETUP_INSTALLER"
      [] stage \in {"SETUP_INSTALLER", "UBUNTU"} -> "XENSERVER_FIRSTBOOT"
      [] OTHER -> "XENSERVER"

NextState(stage) ==
    CASE stage = "START" -> "SETUP_INSTALLER"
      [] stage = "SETUP_INSTALLER" -> "XENSERVER_FIRSTBOOT"
      [] stage = "UBUNTU" -> "XENSERVER"
      [] OTHER -> "UBUNTU"

NextBoot(stage) == CASE stage = "SETUP_INSTALLER" -> "installer"
                     [] stage = "UBUNTU" -> "xenserver"
                     [] OTHER -> "ubuntu"

(* Either system runs the script when it is up; with an empty state file no *)
(* stage matches.  An appliance on its way down may or may not have written *)
(* the settings it was given.                                               *)
Boots ==
    /\ system' = bootNext' /\ stageRun' = stateFile' /\ command' = 1
    /\ script' = IF bootNext' = "installer" \/ stateFile' \in Stages THEN "runs" ELSE "ended"
    /\ importedNow' = FALSE /\ services' = FALSE /\ Settles
    /\ guest' = "down" /\ ready' = FALSE /\ hasty' = FALSE
    /\ applied' \in {applied} \cup (IF guest = "going" THEN {stored} ELSE {})

(* The installer takes the settings along and makes XenServer's boot loader *)
(* the one that counts.                                                     *)
Install ==
    /\ system = "installer" /\ bootNext' = "xenserver" /\ system' = "xenserver"
    /\ script' = IF stateFile \in Stages THEN "runs" ELSE "ended"
    /\ UNCHANGED <<stateFile, ramdisk, appliance, stored, command, stageRun, importedNow, services>>
    /\ Settles /\ UNCHANGED <<guestVars, historyVars>>

-----------------------------------------------------------------------------
(* The commands *)

Runs(c) == script = "runs" /\ system # "installer" /\ Commands(stageRun)[command] = c

Proceeds == command' = command + 1 /\ UNCHANGED <<system, script, stageRun, services>>
Continues == Proceeds /\ UNCHANGED <<diskVars, safeVars, guestVars, importedNow>>
Ends(how) == script' = how /\ UNCHANGED <<diskVars, safeVars, guestVars, system, command, stageRun,
                                          importedNow, services>>
Writes(file) == Proceeds /\ dirty' = dirty \cup {file} /\ UNCHANGED settled

(* The disk is xvda in Ubuntu and sda in dom0.                              *)
OnUbuntu == /\ Runs("dump_disk_config") \/ Runs("mount_dom0_fs")
            /\ IF system = "ubuntu" THEN Continues ELSE Ends("died")

WaitForNetworking == Runs("wait_for_networking") /\ services /\ Continues

(* wait_for_xapi: Ubuntu never has the cookie of XenServer's API.           *)
WaitForXapi == /\ Runs("wait_for_xapi")
               /\ IF system = "xenserver" THEN services /\ Continues ELSE Ends("waits")

(* create_ramdisk_contents: mkdir without -p.                               *)
Mkdir == /\ Runs("mkdir")
         /\ IF ramdisk THEN Ends("died")
            ELSE Writes("ramdisk") /\ ramdisk' = TRUE
                 /\ UNCHANGED <<stateFile, bootNext, appliance, stored, guestVars, importedNow>>

Stores(value) ==
    IF stageRun = "SETUP_INSTALLER" /\ ~ramdisk THEN Ends("died")
    ELSE Writes("stored") /\ stored' = value
         /\ UNCHANGED <<stateFile, bootNext, ramdisk, appliance, guestVars, importedNow>>

(* A plausible mistake: settings that have been stored are kept.            *)
StoreOnce == Runs("store") /\ Stores(IF stored = 0 THEN address ELSE stored)

(* store_cloud_settings, in Ubuntu.                                         *)
Store == Runs("store") /\ Stores(address)

(* configure_networking: it needs the settings (set -u); an appliance of    *)
(* that name is not imported again.                                         *)
VmImport == /\ Runs("vm-import")
            /\ IF stored = 0 THEN Ends("died")
               ELSE /\ importedNow' = (appliance = "none") /\ guest' = "booting"
                    /\ IF appliance = "none" THEN Writes("appliance") /\ appliance' = "imported"
                       ELSE Proceeds /\ UNCHANGED <<appliance, safeVars>>
                    /\ UNCHANGED <<stateFile, bootNext, ramdisk, stored, applied, ready, hasty>>

(* Only an appliance that is new is given a key, when it answers.           *)
Dom0Key == /\ Runs("dom0key") /\ guest = "up"
           /\ IF importedNow
              THEN Writes("appliance") /\ appliance' = "keyed"
                   /\ UNCHANGED <<stateFile, bootNext, ramdisk, stored, guestVars, importedNow>>
              ELSE Continues

(* The settings are written in the appliance, which is told to reboot.      *)
(* Without a key the login fails; where nothing answers, ping goes on.      *)
Configure == /\ Runs("configure")
             /\ IF appliance = "keyed"
                THEN Writes("appliance") /\ guest' = "going"
                     /\ UNCHANGED <<diskVars, applied, ready, hasty, importedNow>>
                ELSE \E how \in {"died", "waits"} : Ends(how)

SetNextBoot == /\ Runs("nextboot") /\ Writes("bootNext") /\ bootNext' = NextBoot(stageRun)
               /\ UNCHANGED <<stateFile, ramdisk, appliance, stored, guestVars, importedNow>>

(* set_state: the shell truncates the file before echo writes to it.        *)
Truncate == /\ Runs("truncate") /\ Writes("stateFile") /\ stateFile' = Empty
            /\ UNCHANGED <<bootNext, ramdisk, appliance, stored, guestVars, importedNow>>
WriteState == /\ Runs("write") /\ Writes("stateFile") /\ stateFile' = NextState(stageRun)
              /\ UNCHANGED <<bootNext, ramdisk, appliance, stored, guestVars, importedNow>>

(* sync reaches what dom0 has written, not what the appliance still has in  *)
(* its memory.                                                              *)
Sync == /\ Runs("sync") /\ Proceeds /\ settled' = Disk
        /\ dirty' = (IF guest = "going" THEN {"appliance"} ELSE {})
        /\ UNCHANGED <<diskVars, guestVars, importedNow>>

Reboot == Runs("reboot") /\ UNCHANGED diskVars /\ Boots

(* create_done_file_on_appliance: tried until the appliance takes it, the   *)
(* one that is on its way down included.                                    *)
CreateDoneFile == /\ Runs("done") /\ guest \in {"up", "going"}
                  /\ ready' = TRUE /\ hasty' = (guest = "going") /\ script' = "ended"
                  /\ UNCHANGED <<diskVars, safeVars, guest, applied, system, command, stageRun,
                                 importedNow, services>>

ScriptStep ==
    /\ \/ OnUbuntu \/ WaitForNetworking \/ WaitForXapi \/ Mkdir \/ Store \/ VmImport \/ Dom0Key \/ Configure
       \/ SetNextBoot \/ Truncate \/ WriteState \/ Sync \/ Reboot \/ CreateDoneFile
    /\ UNCHANGED historyVars

-----------------------------------------------------------------------------
(* What goes on beside the script *)

ServicesStart == /\ system # "installer" /\ ~services /\ services' = TRUE
                 /\ UNCHANGED <<diskVars, safeVars, guestVars, system, script, command, stageRun, importedNow>>
                 /\ UNCHANGED historyVars

(* The appliance comes up, after its reboot with what it was given.         *)
GuestBoots == /\ guest = "booting" /\ guest' = "up"
              /\ UNCHANGED <<applied, ready, hasty, dirty>>
GuestReboots == /\ guest = "going" /\ guest' = "up" /\ applied' = stored /\ ready' = FALSE
                /\ dirty' = (IF command = 9 THEN dirty \ {"appliance"} ELSE dirty)
                /\ UNCHANGED hasty
GuestStep == (GuestBoots \/ GuestReboots) /\ UNCHANGED <<diskVars, settled, scriptVars, historyVars>>

(* What a stop leaves of a file that was written since the last sync.       *)
Survives(file, now, torn) == IF file \in dirty THEN {settled[file], now, torn} ELSE {now}

(* The disk is whole when the stage can be repeated from its beginning, or  *)
(* when all it has written is there.                                        *)
Repeatable == /\ stateFile' = settled.stateFile /\ bootNext' = settled.bootNext
              /\ ramdisk' = settled.ramdisk /\ appliance' \in {settled.appliance, "keyed"}
Finished == stateFile' = NextState(stageRun) /\ UNCHANGED <<bootNext, ramdisk, appliance, stored>>

Crash == /\ crashes < MaxCrashes /\ crashes' = crashes + 1
         /\ stateFile' \in Survives("stateFile", stateFile, Empty)
         /\ bootNext' \in Survives("bootNext", bootNext, bootNext)
         /\ ramdisk' \in Survives("ramdisk", ramdisk, ramdisk)
         /\ appliance' \in Survives("appliance", appliance, "imported")
         /\ stored' \in Survives("stored", stored, 0)
         /\ unlucky' = (unlucky \/ ~(Repeatable \/ Finished)) /\ Boots /\ UNCHANGED address

(* An instance is started from a snapshot of one that was ready and whose   *)
(* hypervisor was halted through its appliance.                             *)
NewInstance == /\ ready /\ guest = "up" /\ address < MaxInstances /\ address' = address + 1
               /\ UNCHANGED <<diskVars, crashes, unlucky>> /\ Boots

ConversionNext == ScriptStep \/ Install \/ ServicesStart \/ GuestStep \/ Crash \/ NewInstance
ConversionSpec == ConversionInit /\ [][ConversionNext]_conversionVars

-----------------------------------------------------------------------------

(* Wherever the machine stops: unless what was not yet on disk came out     *)
(* torn, neither as the stage found it nor as it left it, the next boot     *)
(* finds a state that fits the system that came up, and commands that can   *)
(* be repeated.  The script only ever dies, waits for ever, has nothing to  *)
(* do or ends without the file of completion after such a stop, or when it  *)
(* touched that file in an appliance that was about to reboot.              *)
OnlyWindowsHurt ==
    script \in {"waits", "died"} \/ (script = "ended" /\ ~ready) => unlucky \/ hasty

(* An appliance that reports itself ready has come up with the network      *)
(* settings of this instance, not with those of the one the snapshot was    *)
(* taken from, but for the same two cases.                                  *)
ReadyIsCurrent == ready => applied = address \/ unlucky \/ hasty

=============================================================================

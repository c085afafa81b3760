--------------------------- MODULE Programs_proof ---------------------------
(***************************************************************************)
(* Proofs about the programs that run by themselves, for every value of    *)
(* their constants.  A section for each.                                   *)
(***************************************************************************)
EXTENDS SemiBusyWait, XenServerConversion, HaproxyStatsd, CheckAccess, ConfigChecks,
        Requirements, MassRename, GerritGroups, AclFile, SequenceFacts,
        FiniteSetTheorems, SequenceTheorems, TLAPS

-----------------------------------------------------------------------------
(* THE TIMED WAIT: every length of wait and every overrun.                  *)

(* Why one short sleep does no harm: until the second one, `seconds' is     *)
(* what is really left.                                                     *)
WaitInv == /\ TypeOK
           /\ pc = "sleeping" => /\ seconds > 0
                                 /\ seconds + elapsed <= requested
                                 /\ early = 0 => elapsed = 0
                                 /\ early <= 1 => seconds = requested - elapsed
           /\ FullWaitUnlessTwoEarly
           /\ NeverTooLong

(* The wait starts within the invariant. *)
LEMMA InitInv == Init => WaitInv
  BY WaitAssumption DEF Init, WaitInv, TypeOK, FullWaitUnlessTwoEarly, NeverTooLong

(* Every sleep and every look at the clock keeps it. *)
LEMMA StepInv == WaitInv /\ [Next]_vars => WaitInv'
<1> SUFFICES ASSUME WaitInv, [Next]_vars PROVE WaitInv'
  OBVIOUS
<1>1. CASE UNCHANGED vars
  BY <1>1 DEF vars, WaitInv, TypeOK, FullWaitUnlessTwoEarly, NeverTooLong
<1>2. CASE Next
  <2>1. PICK d \in 1..(seconds + Late) : Sleep(d)
    BY <1>2 DEF Next
  <2>2. /\ pc = "sleeping" /\ d \in Int /\ d >= 1 /\ d <= seconds + Late
        /\ requested' = requested
        /\ elapsed' = elapsed + d
        /\ seconds' = seconds - (elapsed + d)
        /\ early' = IF d < seconds THEN early + 1 ELSE early
        /\ pc' = IF seconds' <= 0 THEN "returned" ELSE "sleeping"
    BY <2>1, WaitAssumption DEF Sleep, Remaining, Elapsed, WaitInv, TypeOK
  <2>3. TypeOK'
    BY <2>2, WaitAssumption DEF WaitInv, TypeOK
  <2>4. NeverTooLong'
    BY <2>2, WaitAssumption DEF WaitInv, TypeOK, NeverTooLong
  <2>5. CASE early' <= 1
    <3>1. seconds = requested - elapsed /\ early <= 1
      BY <2>2, <2>5 DEF WaitInv, TypeOK
    <3>2. CASE d < seconds
      BY <2>2, <2>3, <2>4, <2>5, <3>1, <3>2
      DEF WaitInv, TypeOK, FullWaitUnlessTwoEarly
    <3>3. CASE ~(d < seconds)
      BY <2>2, <2>3, <2>4, <2>5, <3>1, <3>3
      DEF WaitInv, TypeOK, FullWaitUnlessTwoEarly
    <3>4. QED BY <3>2, <3>3
  <2>6. CASE ~(early' <= 1)
    BY <2>2, <2>3, <2>4, <2>6 DEF WaitInv, TypeOK, FullWaitUnlessTwoEarly
  <2>7. QED BY <2>5, <2>6
<1>3. QED BY <1>1, <1>2

(* The wait is as long as asked for unless two of its sleeps were cut short. *)
THEOREM FullWaitTheorem == Spec => []FullWaitUnlessTwoEarly
<1>1. WaitInv => FullWaitUnlessTwoEarly
  BY DEF WaitInv
<1>2. QED BY InitInv, StepInv, <1>1, PTL DEF Spec

(* The wait never exceeds what was asked for by more than one overrun. *)
THEOREM NeverTooLongTheorem == Spec => []NeverTooLong
<1>1. WaitInv => NeverTooLong
  BY DEF WaitInv
<1>2. QED BY InitInv, StepInv, <1>1, PTL DEF Spec

-----------------------------------------------------------------------------
(* THE CONVERSION OF A NODE: any number of stops and instances.  It is only *)
(* ever hurt by a stop that tears the disk, or by touching the file of      *)
(* completion too soon, and what reports itself ready otherwise has the     *)
(* settings of its own instance.                                            *)

OnXenServer == {"XENSERVER_FIRSTBOOT", "XENSERVER"}
Home(step) == IF step \in OnXenServer THEN "xenserver" ELSE "ubuntu"

(* The command that truncates the state file; one writes it, and the one    *)
(* behind that is the last, but for XenServer's sync before it.             *)
Sets(step) == IF step = "START" THEN 3 ELSE IF step = "SETUP_INSTALLER" THEN 4
              ELSE IF step = "UBUNTU" THEN 5 ELSE 6
LastOf(step) == IF step \in OnXenServer THEN 9 ELSE Sets(step) + 2

(* What has been written before command n of a stage.                       *)
Written(step, n) ==
    IF n <= Sets(step) THEN step ELSE IF n = Sets(step) + 1 THEN Empty ELSE NextState(step)
Default(step, n) == IF n >= Sets(step) THEN NextBoot(step) ELSE Home(step)
HasOne(a, step, n) ==
    /\ a \in {"none", "imported", "keyed"}
    /\ step \in {"START", "SETUP_INSTALLER"} => a = "none"
    /\ step = "UBUNTU" => a = "keyed"
    /\ step \in OnXenServer =>
          /\ n < 3 => a # "imported"
          /\ n = 3 => a = (IF importedNow THEN "imported" ELSE "keyed")
          /\ n > 3 => a = "keyed"

(* What is on disk for sure: what the stage has found, until the sync.      *)
OnDisk ==
    IF command = 9
    THEN /\ settled.stateFile = "UBUNTU" /\ settled.bootNext = "ubuntu"
         /\ settled.ramdisk /\ settled.appliance = "keyed"
    ELSE /\ settled.stateFile = stageRun /\ settled.bootNext = Home(stageRun)
         /\ (settled.ramdisk <=> stageRun # "START") /\ HasOne(settled.appliance, stageRun, 1)

(* Settings that are not the instance's own are there only until Ubuntu has *)
(* stored the new ones, and no stage that transfers them comes before.      *)
Transferred ==
    /\ stageRun \in OnXenServer => stored = address /\ "stored" \notin dirty
    /\ stageRun \notin OnXenServer => "appliance" \notin dirty
    /\ stageRun \in {"SETUP_INSTALLER", "UBUNTU"} /\ command >= Sets(stageRun) - 1 => stored = address
    /\ IF stageRun \in OnXenServer /\ command >= 5
       THEN guest \in {"up", "going"} /\ (guest = "up" => applied = stored)
       ELSE guest # "going"

InStage ==
    /\ script = "runs" /\ ~ready /\ stageRun \in Stages /\ system = Home(stageRun)
    /\ command \in 1..LastOf(stageRun)
    /\ stateFile = Written(stageRun, command) /\ bootNext = Default(stageRun, command)
    /\ (ramdisk <=> stageRun # "START" \/ command >= 3)
    /\ HasOne(appliance, stageRun, command)
    /\ OnDisk /\ Transferred

Installing ==
    /\ script = "runs" /\ ~ready /\ system = "installer" /\ stageRun = "XENSERVER_FIRSTBOOT" /\ command = 1
    /\ stateFile = "XENSERVER_FIRSTBOOT" /\ bootNext = "installer" /\ appliance = "none" /\ ramdisk
    /\ dirty = {} /\ stored = address /\ guest = "down"

Complete ==
    /\ script = "ended" /\ stageRun \in OnXenServer /\ command = 9 /\ system # "installer"
    /\ stateFile = "UBUNTU" /\ bootNext = "ubuntu" /\ appliance = "keyed" /\ ramdisk
    /\ OnDisk /\ stored = address
    /\ guest \in {"up", "going"} /\ (guest = "up" => applied = stored)
    /\ (ready \/ hasty) /\ (guest = "going" => hasty)

(* Unless it was unlucky, the script is in a stage that fits the system and *)
(* the disk, or the installer runs, or all is done.                         *)
ConversionInv == unlucky \/ (address \in Nat \ {0} /\ (InStage \/ Installing \/ Complete))

-----------------------------------------------------------------------------

(* Where in which stage a command is.                                       *)
LEMMA Placed ==
    ASSUME InStage, NEW c, Runs(c)
    PROVE  \/ /\ stageRun = "START"
              /\ \/ command = 1 /\ c = "dump_disk_config"
                 \/ command = 2 /\ c = "mkdir"
                 \/ command = 3 /\ c = "truncate"
                 \/ command = 4 /\ c = "write"
                 \/ command = 5 /\ c = "reboot"
           \/ /\ stageRun = "SETUP_INSTALLER"
              /\ \/ command = 1 /\ c = "dump_disk_config"
                 \/ command = 2 /\ c = "store"
                 \/ command = 3 /\ c = "nextboot"
                 \/ command = 4 /\ c = "truncate"
                 \/ command = 5 /\ c = "write"
                 \/ command = 6 /\ c = "reboot"
           \/ /\ stageRun = "UBUNTU"
              /\ \/ command = 1 /\ c = "mount_dom0_fs"
                 \/ command = 2 /\ c = "wait_for_networking"
                 \/ command = 3 /\ c = "store"
                 \/ command = 4 /\ c = "nextboot"
                 \/ command = 5 /\ c = "truncate"
                 \/ command = 6 /\ c = "write"
                 \/ command = 7 /\ c = "reboot"
           \/ /\ stageRun \in OnXenServer
              /\ \/ command = 1 /\ c = "wait_for_xapi"
                 \/ command = 2 /\ c = "vm-import"
                 \/ command = 3 /\ c = "dom0key"
                 \/ command = 4 /\ c = "configure"
                 \/ command = 5 /\ c = "nextboot"
                 \/ command = 6 /\ c = "truncate"
                 \/ command = 7 /\ c = "write"
                 \/ command = 8 /\ c = "sync"
                 \/ command = 9 /\ c = "done"
<1>1. stageRun \in Stages /\ command \in 1..LastOf(stageRun) /\ Commands(stageRun)[command] = c
  BY DEF InStage, Runs
<1>2. CASE stageRun = "START"
  <2>1. Commands(stageRun) = <<"dump_disk_config", "mkdir", "truncate", "write", "reboot">>
    BY <1>2 DEF Commands
  <2>2. command \in 1..5
    BY <1>1, <1>2 DEF LastOf, Sets, OnXenServer
  <2> QED BY <1>1, <1>2, <2>1, <2>2
<1>3. CASE stageRun = "SETUP_INSTALLER"
  <2>1. Commands(stageRun) = <<"dump_disk_config", "store", "nextboot", "truncate", "write", "reboot">>
    BY <1>3 DEF Commands
  <2>2. command \in 1..6
    BY <1>1, <1>3 DEF LastOf, Sets, OnXenServer
  <2> QED BY <1>1, <1>3, <2>1, <2>2
<1>4. CASE stageRun = "UBUNTU"
  <2>1. Commands(stageRun) = <<"mount_dom0_fs", "wait_for_networking", "store", "nextboot",
                               "truncate", "write", "reboot">>
    BY <1>4 DEF Commands
  <2>2. command \in 1..7
    BY <1>1, <1>4 DEF LastOf, Sets, OnXenServer
  <2> QED BY <1>1, <1>4, <2>1, <2>2
<1>5. CASE stageRun \in OnXenServer
  <2>1. Commands(stageRun) = <<"wait_for_xapi", "vm-import", "dom0key", "configure", "nextboot",
                               "truncate", "write", "sync", "done">>
    BY <1>5 DEF Commands, OnXenServer
  <2>2. command \in 1..9
    BY <1>1, <1>5 DEF LastOf
  <2> QED BY <1>1, <1>5, <2>1, <2>2
<1> QED BY <1>1, <1>2, <1>3, <1>4, <1>5 DEF Stages, OnXenServer

(* A node that has never been touched satisfies the invariant. *)
LEMMA ConversionStarts == ConversionInit => ConversionInv
<1> SUFFICES ASSUME ConversionInit PROVE InStage
  <2>1. ConversionInit => address \in Nat \ {0}
    BY DEF ConversionInit
  <2> QED BY <2>1 DEF ConversionInv
<1>1. /\ settled.stateFile = "START" /\ settled.bootNext = "ubuntu"
      /\ settled.ramdisk = FALSE /\ settled.appliance = "none"
  BY DEF ConversionInit, Disk
<1> QED
  BY <1>1 DEF ConversionInit, InStage, OnDisk, Transferred, Stages, Sets, LastOf, OnXenServer, Written, Default,
     HasOne, Home

(* A boot goes on where the disk says, if that fits.                        *)
LEMMA BootFits ==
    ASSUME Boots, stateFile' \in Stages,
           \/ bootNext' = Home(stateFile')
           \/ stateFile' = "XENSERVER_FIRSTBOOT" /\ bootNext' = "installer" /\ appliance' = "none",
           (ramdisk' <=> stateFile' # "START"), appliance' \in {"none", "keyed"},
           stateFile' \in {"START", "SETUP_INSTALLER"} => appliance' = "none",
           stateFile' = "UBUNTU" => appliance' = "keyed",
           stateFile' \in OnXenServer => stored' = address'
    PROVE  InStage' \/ Installing'
<1>1. /\ settled'.stateFile = stateFile' /\ settled'.bootNext = bootNext'
      /\ settled'.ramdisk = ramdisk' /\ settled'.appliance = appliance' /\ dirty' = {}
  BY DEF Boots, Settles, Disk
<1>2. /\ system' = bootNext' /\ stageRun' = stateFile' /\ command' = 1 /\ script' = "runs"
      /\ guest' = "down" /\ ready' = FALSE
  BY DEF Boots
<1>3. CASE bootNext' = "installer"
  BY <1>1, <1>2, <1>3 DEF Installing, Home, OnXenServer
<1>4. CASE bootNext' = Home(stateFile')
  <2>1. OnDisk'
    BY <1>1, <1>2, <1>4 DEF OnDisk, HasOne, Home, OnXenServer, Stages
  <2>2. Transferred'
    BY <1>1, <1>2 DEF Transferred, Sets, OnXenServer, Stages
  <2> QED
    BY <1>1, <1>2, <1>4, <2>1, <2>2 DEF InStage, Stages, Sets, LastOf, OnXenServer, Written, Default, HasOne, Home
<1> QED BY <1>3, <1>4

(* All that a stage has written is there, and the next one comes.           *)
LEMMA NextFits ==
    ASSUME InStage, Boots, stateFile = NextState(stageRun), stateFile' = stateFile,
           UNCHANGED <<bootNext, ramdisk, appliance, stored, address>>
    PROVE  InStage' \/ Installing'
<1>1. command > Sets(stageRun) + 1
  <2>1. stateFile = Written(stageRun, command) /\ stageRun \in Stages /\ command \in Nat
    BY DEF InStage, LastOf, Sets
  <2>2. NextState(stageRun) # stageRun /\ NextState(stageRun) # Empty /\ Sets(stageRun) \in Nat
    BY <2>1 DEF NextState, Stages, Empty, Sets
  <2> QED BY <2>1, <2>2 DEF Written
<1>2. /\ bootNext' = NextBoot(stageRun) /\ ramdisk' /\ HasOne(appliance', stageRun, command)
      /\ stageRun \in {"SETUP_INSTALLER", "UBUNTU"} => stored' = address'
  BY <1>1 DEF InStage, Transferred, Default, Sets, Stages, LastOf, OnXenServer
<1>3. stageRun \in OnXenServer => appliance' = "keyed"
  BY <1>1, <1>2 DEF HasOne, Sets, OnXenServer, InStage, LastOf
<1>4. stageRun \in Stages
  BY DEF InStage
<1> QED BY <1>1, <1>2, <1>3, <1>4, BootFits DEF Stages, OnXenServer, HasOne, Home, NextState, NextBoot

(* A stop that does not tear the disk.                                      *)
LEMMA CrashKeeps == ASSUME ConversionInv, Crash PROVE ConversionInv'
<1> SUFFICES ASSUME ~unlucky' PROVE InStage' \/ Installing'
  BY DEF ConversionInv, Crash
<1>1. ~unlucky /\ (Repeatable \/ Finished) /\ Boots /\ address' = address
  BY DEF Crash
<1>2. /\ "appliance" \notin dirty => appliance' = appliance
      /\ "stored" \notin dirty => stored' = stored
      /\ "bootNext" \notin dirty => bootNext' = bootNext
      /\ "ramdisk" \notin dirty => ramdisk' = ramdisk
      /\ "stateFile" \notin dirty => stateFile' = stateFile
      /\ stateFile' \in {settled.stateFile, stateFile, Empty}
      /\ bootNext' \in {settled.bootNext, bootNext} /\ ramdisk' \in {settled.ramdisk, ramdisk}
  BY DEF Crash, Survives
<1>3. CASE InStage /\ command # 9 /\ Repeatable
  <2>1. /\ stateFile' = stageRun /\ bootNext' = Home(stageRun) /\ (ramdisk' <=> stageRun # "START")
        /\ (appliance' = "keyed" \/ HasOne(appliance', stageRun, 1)) /\ stageRun \in Stages
    BY <1>3 DEF Repeatable, InStage, OnDisk
  <2>2. stageRun \notin OnXenServer => appliance' = appliance
    BY <1>2, <1>3 DEF InStage, Transferred
  <2>3. stageRun \in OnXenServer => stored' = address'
    BY <1>1, <1>2, <1>3 DEF InStage, Transferred
  <2> QED BY <1>1, <1>3, <2>1, <2>2, <2>3, BootFits DEF InStage, HasOne, OnXenServer, Stages
<1>4. CASE InStage /\ command # 9 /\ Finished
  <2>1. stateFile' = NextState(stageRun) /\ UNCHANGED <<bootNext, ramdisk, appliance, stored>>
    BY <1>4 DEF Finished
  <2>2. settled.stateFile # NextState(stageRun) /\ NextState(stageRun) # Empty
    BY <1>4 DEF InStage, OnDisk, NextState, Stages, Empty
  <2> QED BY <1>1, <1>2, <1>4, <2>1, <2>2, NextFits
<1>5. CASE (InStage /\ command = 9) \/ Complete
  <2>1. /\ stateFile = "UBUNTU" /\ bootNext = "ubuntu" /\ appliance = "keyed" /\ ramdisk
        /\ stageRun \in OnXenServer /\ settled.stateFile = "UBUNTU" /\ settled.bootNext = "ubuntu"
        /\ settled.ramdisk /\ settled.appliance = "keyed"
    BY <1>5 DEF InStage, Complete, OnDisk, Stages, Sets, LastOf, OnXenServer, Written, Default, HasOne,
       NextState, NextBoot
  <2>2. stateFile' = "UBUNTU" /\ bootNext' = "ubuntu" /\ ramdisk' /\ appliance' = "keyed"
    BY <1>1, <2>1 DEF Repeatable, Finished, NextState, OnXenServer
  <2> QED BY <1>1, <2>2, BootFits DEF Stages, Home, OnXenServer
<1>6. CASE Installing
  BY <1>1, <1>2, <1>6, BootFits DEF Installing, Stages, Home, OnXenServer
<1> QED BY <1>1, <1>3, <1>4, <1>5, <1>6 DEF ConversionInv

(* Every command, boot, failure and loss of power keeps it. *)
LEMMA ConversionKeeps ==
    ASSUME ConversionInv, [ConversionNext]_conversionVars
    PROVE  ConversionInv'
<1> USE DEF diskVars, safeVars, guestVars, scriptVars, historyVars
<1>1. ASSUME Crash PROVE ConversionInv'
  BY <1>1, CrashKeeps
<1>2. ASSUME NewInstance PROVE ConversionInv'
  <2> SUFFICES ASSUME ~unlucky PROVE InStage' \/ Installing'
    BY <1>2 DEF NewInstance, ConversionInv
  <2>1. Complete
    BY <1>2 DEF ConversionInv, NewInstance, InStage, Installing
  <2> QED BY <1>2, <2>1, BootFits DEF NewInstance, Complete, Stages, Home, OnXenServer
<1>3. ASSUME Install PROVE ConversionInv'
  <2> SUFFICES ASSUME ~unlucky PROVE InStage'
    BY <1>3 DEF Install, ConversionInv
  <2>1. Installing
    BY <1>3 DEF ConversionInv, Install, InStage, Complete, Home
  <2>2. /\ settled'.stateFile = stateFile' /\ settled'.bootNext = bootNext'
        /\ settled'.ramdisk = ramdisk' /\ settled'.appliance = appliance' /\ dirty' = {}
    BY <1>3 DEF Install, Settles, Disk
  <2> QED
    BY <1>3, <2>1, <2>2 DEF Install, Installing, InStage, OnDisk, Transferred, Stages, Sets, LastOf, OnXenServer,
       Written, Default, HasOne, Home
<1>4. ASSUME ServicesStart PROVE ConversionInv'
  BY <1>4 DEF ServicesStart, ConversionInv, InStage, Installing, Complete, OnDisk, Transferred, HasOne
<1>5. ASSUME GuestStep PROVE ConversionInv'
  <2> SUFFICES ASSUME ~unlucky PROVE InStage' \/ Complete'
    BY <1>5 DEF GuestStep, ConversionInv
  <2>1. CASE InStage
    BY <1>5, <2>1 DEF GuestStep, GuestBoots, GuestReboots, InStage, OnDisk, Transferred, HasOne
  <2>2. CASE Complete
    BY <1>5, <2>2 DEF GuestStep, GuestBoots, GuestReboots, Complete, OnDisk
  <2>3. CASE Installing
    BY <1>5, <2>3 DEF GuestStep, GuestBoots, GuestReboots, Installing
  <2> QED BY <2>1, <2>2, <2>3 DEF ConversionInv
<1>6. ASSUME ScriptStep PROVE ConversionInv'
  <2> SUFFICES ASSUME ~unlucky, InStage PROVE InStage' \/ Installing' \/ Complete'
    <3>1. script = "runs" /\ system # "installer" /\ address' = address /\ unlucky' = unlucky
      BY <1>6 DEF ScriptStep, OnUbuntu, WaitForNetworking, WaitForXapi, Mkdir, Store, VmImport, Dom0Key,
         Configure, SetNextBoot, Truncate, WriteState, Sync, Reboot, CreateDoneFile, Runs
    <3> QED BY <3>1 DEF ConversionInv, Installing, Complete
  <2>0. address' = address /\ address # 0
    BY <1>6 DEF ScriptStep, ConversionInv
  <2>1. ASSUME OnUbuntu PROVE InStage'
    <3>1. stageRun \in {"START", "SETUP_INSTALLER", "UBUNTU"} /\ command = 1
      BY <2>1, Placed DEF OnUbuntu, Sets, Stages, OnXenServer
    <3> QED
      BY <2>0, <2>1, <3>1 DEF OnUbuntu, Continues, Ends, Proceeds,
         InStage, OnDisk, Transferred, Stages, Sets, LastOf, OnXenServer, Written, Default, HasOne, Home,
         NextState, NextBoot
  <2>2. ASSUME WaitForNetworking PROVE InStage'
    <3>1. stageRun = "UBUNTU" /\ command = 2
      BY <2>2, Placed DEF WaitForNetworking, Sets, Stages, OnXenServer
    <3> QED
      BY <2>0, <2>2, <3>1 DEF WaitForNetworking, Continues, Proceeds,
         InStage, OnDisk, Transferred, Stages, Sets, LastOf, OnXenServer, Written, Default, HasOne, Home,
         NextState, NextBoot
  <2>3. ASSUME WaitForXapi PROVE InStage'
    <3>1. stageRun \in OnXenServer /\ command = 1
      BY <2>3, Placed DEF WaitForXapi, Sets, Stages, OnXenServer
    <3> QED
      BY <2>0, <2>3, <3>1 DEF WaitForXapi, Continues, Ends, Proceeds,
         InStage, OnDisk, Transferred, Stages, Sets, LastOf, OnXenServer, Written, Default, HasOne, Home,
         NextState, NextBoot
  <2>4. ASSUME Mkdir PROVE InStage'
    <3>1. stageRun = "START" /\ command = 2
      BY <2>4, Placed DEF Mkdir, Sets, Stages, OnXenServer
    <3> QED
      BY <2>0, <2>4, <3>1 DEF Mkdir, Writes, Ends, Proceeds,
         InStage, OnDisk, Transferred, Stages, Sets, LastOf, OnXenServer, Written, Default, HasOne, Home,
         NextState, NextBoot
  <2>5. ASSUME Store PROVE InStage'
    <3>1. \/ stageRun = "SETUP_INSTALLER" /\ command = 2
          \/ stageRun = "UBUNTU" /\ command = 3
      BY <2>5, Placed DEF Store, Sets, Stages, OnXenServer
    <3> QED
      BY <2>0, <2>5, <3>1 DEF Store, Stores, Writes, Ends, Proceeds,
         InStage, OnDisk, Transferred, Stages, Sets, LastOf, OnXenServer, Written, Default, HasOne, Home,
         NextState, NextBoot
  <2>6. ASSUME VmImport PROVE InStage'
    <3>1. stageRun \in OnXenServer /\ command = 2
      BY <2>6, Placed DEF VmImport, Sets, Stages, OnXenServer
    <3>2. /\ importedNow' <=> appliance = "none"
          /\ appliance' = (IF appliance = "none" THEN "imported" ELSE "keyed")
          /\ Proceeds /\ guest' = "booting" /\ "stored" \notin dirty' /\ settled' = settled
      <4>1. stored # 0 /\ "stored" \notin dirty
        BY <2>0, <3>1 DEF InStage, Transferred
      <4>2. appliance = "none" \/ appliance = "keyed"
        BY <3>1 DEF InStage, HasOne, OnXenServer
      <4>3. CASE appliance = "none"
        <5>1. /\ importedNow' = (appliance = "none") /\ guest' = "booting" /\ appliance' = "imported"
              /\ Proceeds /\ UNCHANGED settled /\ dirty' = dirty \cup {"appliance"}
          BY <2>6, <4>1, <4>3 DEF VmImport, Writes
        <5>2. importedNow' <=> appliance = "none"
          BY <5>1
        <5> QED BY <4>1, <4>3, <5>1, <5>2
      <4>4. CASE appliance = "keyed"
        <5>1. /\ importedNow' = (appliance = "none") /\ guest' = "booting"
              /\ Proceeds /\ UNCHANGED <<appliance, settled, dirty>>
          BY <2>6, <4>1, <4>4 DEF VmImport
        <5>2. importedNow' <=> appliance = "none"
          BY <5>1
        <5> QED BY <4>1, <4>4, <5>1, <5>2
      <4> QED BY <4>2, <4>3, <4>4
    <3>3. /\ command' = 3 /\ stageRun' \in OnXenServer
          /\ UNCHANGED <<system, script, stageRun, stateFile, bootNext, ramdisk, stored, ready, address>>
      BY <2>0, <2>6, <3>1, <3>2 DEF VmImport, Proceeds, Continues, Writes, Ends, InStage, Transferred
    <3>4. HasOne(appliance, stageRun, command)'
      BY <2>6, <3>1, <3>2, <3>3 DEF InStage, HasOne, OnXenServer
    <3>5. OnDisk'
      BY <3>1, <3>2, <3>3 DEF InStage, OnDisk, HasOne
    <3>6. Transferred'
      BY <2>0, <2>6, <3>1, <3>2, <3>3 DEF InStage, Transferred, Sets, OnXenServer, VmImport, Continues
    <3> QED
      BY <3>1, <3>3, <3>4, <3>5, <3>6 DEF InStage, LastOf, Sets, OnXenServer, Written, Default
  <2>7. ASSUME Dom0Key PROVE InStage'
    <3>1. stageRun \in OnXenServer /\ command = 3
      BY <2>7, Placed DEF Dom0Key, Sets, Stages, OnXenServer
    <3>2. appliance' = "keyed" /\ Proceeds /\ "stored" \notin dirty' /\ settled' = settled
      <4>1. "stored" \notin dirty
        BY <3>1 DEF InStage, Transferred
      <4>2. CASE importedNow
        BY <2>7, <4>1, <4>2 DEF Dom0Key, Writes
      <4>3. CASE ~importedNow
        <5>1. appliance = "keyed"
          BY <3>1, <4>3 DEF InStage, HasOne
        <5> QED BY <2>7, <4>1, <4>3, <5>1 DEF Dom0Key, Continues
      <4> QED BY <4>2, <4>3
    <3>3. /\ command' = 4 /\ stageRun' \in OnXenServer
          /\ UNCHANGED <<system, script, stageRun, stateFile, bootNext, ramdisk, stored, ready, address>>
      BY <2>0, <2>7, <3>1, <3>2 DEF Dom0Key, Proceeds, Continues, Writes, Ends
    <3>4. HasOne(appliance, stageRun, command)'
      BY <2>7, <3>1, <3>2, <3>3 DEF InStage, HasOne, OnXenServer
    <3>5. OnDisk'
      BY <3>1, <3>2, <3>3 DEF InStage, OnDisk, HasOne
    <3>6. Transferred'
      BY <2>0, <2>7, <3>1, <3>2, <3>3 DEF InStage, Transferred, Sets, OnXenServer, Dom0Key, Continues
    <3> QED
      BY <3>1, <3>3, <3>4, <3>5, <3>6 DEF InStage, LastOf, Sets, OnXenServer, Written, Default
  <2>8. ASSUME Configure PROVE InStage'
    <3>1. stageRun \in OnXenServer /\ command = 4
      BY <2>8, Placed DEF Configure, Sets, Stages, OnXenServer
    <3>2. appliance' = "keyed" /\ guest' = "going" /\ Writes("appliance") /\ UNCHANGED <<diskVars, ready>>
      BY <2>8, <3>1 DEF Configure, InStage, HasOne
    <3> QED
      BY <2>0, <2>8, <3>1, <3>2 DEF Configure, Writes, Ends, Proceeds,
         InStage, OnDisk, Transferred, Stages, Sets, LastOf, OnXenServer, Written, Default, HasOne, Home,
         NextState, NextBoot
  <2>9. ASSUME SetNextBoot PROVE InStage'
    <3>1. stageRun \in Stages \ {"START"} /\ command = Sets(stageRun) - 1
      BY <2>9, Placed DEF SetNextBoot, Sets, Stages, OnXenServer
    <3> QED
      BY <2>0, <2>9, <3>1 DEF SetNextBoot, Writes, Proceeds,
         InStage, OnDisk, Transferred, Stages, Sets, LastOf, OnXenServer, Written, Default, HasOne, Home,
         NextState, NextBoot
  <2>10. ASSUME Truncate PROVE InStage'
    <3>1. stageRun \in Stages /\ command = Sets(stageRun)
      BY <2>10, Placed DEF Truncate, Sets, Stages, OnXenServer
    <3> QED
      BY <2>0, <2>10, <3>1 DEF Truncate, Writes, Proceeds,
         InStage, OnDisk, Transferred, Stages, Sets, LastOf, OnXenServer, Written, Default, HasOne, Home,
         NextState, NextBoot
  <2>11. ASSUME WriteState PROVE InStage'
    <3>1. stageRun \in Stages /\ command = Sets(stageRun) + 1
      BY <2>11, Placed DEF WriteState, Sets, Stages, OnXenServer
    <3> QED
      BY <2>0, <2>11, <3>1 DEF WriteState, Writes, Proceeds,
         InStage, OnDisk, Transferred, Stages, Sets, LastOf, OnXenServer, Written, Default, HasOne, Home,
         NextState, NextBoot
  <2>12. ASSUME Sync PROVE InStage'
    <3>1. stageRun \in OnXenServer /\ command = 8
      BY <2>12, Placed DEF Sync
    <3>2. /\ settled'.stateFile = stateFile /\ settled'.bootNext = bootNext
          /\ settled'.ramdisk = ramdisk /\ settled'.appliance = appliance
      BY <2>12 DEF Sync, Disk
    <3> QED
      BY <2>0, <2>12, <3>1, <3>2 DEF Sync, Proceeds,
         InStage, OnDisk, Transferred, Stages, Sets, LastOf, OnXenServer, Written, Default, HasOne, Home,
         NextState, NextBoot
  <2>13. ASSUME Reboot PROVE InStage' \/ Installing'
    <3>1. stageRun \in Stages \ OnXenServer /\ command = Sets(stageRun) + 2
      BY <2>13, Placed DEF Reboot, Sets, Stages, OnXenServer
    <3>2. stateFile = NextState(stageRun)
      BY <3>1 DEF InStage, Written, Sets, Stages
    <3> QED BY <2>0, <2>13, <3>2, NextFits DEF Reboot
  <2>14. ASSUME CreateDoneFile PROVE Complete'
    <3>1. stageRun \in OnXenServer /\ command = 9
      BY <2>14, Placed DEF CreateDoneFile
    <3>2. ready' /\ (hasty' <=> guest = "going") /\ guest' = guest
      BY <2>14 DEF CreateDoneFile
    <3> QED
      BY <2>0, <2>14, <3>1, <3>2 DEF CreateDoneFile, Complete, InStage, OnDisk, Transferred, Sets, OnXenServer,
         Written, Default, HasOne, Home, NextState, NextBoot
  <2> QED
    BY <1>6, <2>1, <2>2, <2>3, <2>4, <2>5, <2>6, <2>7, <2>8, <2>9, <2>10, <2>11, <2>12, <2>13, <2>14
    DEF ScriptStep
<1>7. ASSUME UNCHANGED conversionVars PROVE ConversionInv'
  BY <1>7 DEF conversionVars, ConversionInv, InStage, Installing, Complete, OnDisk, Transferred, HasOne
<1> QED BY <1>1, <1>2, <1>3, <1>4, <1>5, <1>6, <1>7 DEF ConversionNext

(* So it holds in every state of a conversion. *)
LEMMA ConversionInvariant == ConversionSpec => []ConversionInv
<1>1. ConversionInv /\ [ConversionNext]_conversionVars => ConversionInv'
  BY ConversionKeeps
<1> QED BY ConversionStarts, <1>1, PTL DEF ConversionSpec

(* The script of an instance dies, waits for ever or finds nothing to do    *)
(* only after a stop that tore the disk, or when it touched the file of     *)
(* completion too soon: whatever else a stop leaves of what was written     *)
(* since the last sync, however often, the stage can be repeated.           *)
THEOREM ConversionHurtOnlyInWindows == ConversionSpec => []OnlyWindowsHurt
<1>1. ConversionInv => OnlyWindowsHurt
  BY DEF ConversionInv, InStage, Installing, Complete, OnlyWindowsHurt
<1> QED BY ConversionInvariant, <1>1, PTL

(* An appliance reports itself ready only when it has come up with the      *)
(* network settings of its own instance: no stage that transfers settings   *)
(* comes before the one that stores them.  The exceptions are those of the  *)
(* theorem above.                                                           *)
THEOREM ReadyApplianceIsCurrent == ConversionSpec => []ReadyIsCurrent
<1>1. ConversionInv => ReadyIsCurrent
  BY DEF ConversionInv, InStage, Installing, Complete, ReadyIsCurrent
<1> QED BY ConversionInvariant, <1>1, PTL

-----------------------------------------------------------------------------
(* THE STATISTICS OF HAPROXY: any table, any keys, any number of sessions.  *)

StatsTypeOK ==
    /\ sessions \in [Row -> Nat]
    /\ loop \in {"sleep", "read", "report"} /\ row \in Nat \ {0} /\ key \in Nat \ {0}
    /\ reply \in Seq([fields : Nat, value : Nat])
    /\ prevdata \in [Metric -> Nat \cup {NoValue}] /\ first \in [Metric -> Nat \cup {NoValue}]
    /\ sent \in [Metric -> Int]

StatsInv == StatsTypeOK /\ IncrementsAddUp

(* Before the first report nothing is remembered and nothing is counted. *)
LEMMA StatsStarts == StatsInit => StatsInv
<1> SUFFICES ASSUME StatsInit PROVE StatsInv
  OBVIOUS
<1>1. StatsTypeOK
  BY DEF StatsInit, StatsTypeOK, NoValue
<1>2. IncrementsAddUp
  BY DEF StatsInit, IncrementsAddUp
<1> QED BY <1>1, <1>2 DEF StatsInv

(* A value is seen: the increment makes up for what was seen before.        *)
LEMMA ValueAddsUp ==
    ASSUME StatsInv, NEW m \in Metric, NEW v \in Nat, Increment(m, v), Remember(m, v)
    PROVE  /\ IncrementsAddUp'
           /\ prevdata' \in [Metric -> Nat \cup {NoValue}] /\ first' \in [Metric -> Nat \cup {NoValue}]
           /\ sent' \in [Metric -> Int]
<1>t. /\ prevdata \in [Metric -> Nat \cup {NoValue}] /\ first \in [Metric -> Nat \cup {NoValue}]
      /\ sent \in [Metric -> Int] /\ NoValue \in Int /\ NoValue \notin Nat
  BY DEF StatsInv, StatsTypeOK, NoValue
<1>1. prevdata' = [prevdata EXCEPT ![m] = v]
  BY DEF Remember
<1>2. CASE prevdata[m] = NoValue
  <2>1. first' = [first EXCEPT ![m] = v] /\ sent' = sent /\ sent[m] = 0
    BY <1>2 DEF Increment, StatsInv, IncrementsAddUp
  <2> QED BY <1>t, <1>1, <2>1 DEF StatsInv, IncrementsAddUp
<1>3. CASE prevdata[m] # NoValue
  <2>1. first' = first /\ sent' = [sent EXCEPT ![m] = sent[m] + v - prevdata[m]]
    BY <1>3 DEF Increment
  <2>2. sent[m] = prevdata[m] - first[m] /\ prevdata[m] \in Int /\ first[m] \in Int /\ sent[m] \in Int
    BY <1>3, <1>t DEF StatsInv, IncrementsAddUp
  <2>3. sent'[m] = v - first[m] /\ sent'[m] \in Int
    BY <1>t, <2>1, <2>2
  <2> QED BY <1>t, <1>1, <2>1, <2>3 DEF StatsInv, IncrementsAddUp
<1> QED BY <1>2, <1>3

(* Reading, reporting, a restart of either program: all keep what the        *)
(* increments add up to.                                                     *)
LEMMA StatsKeeps == StatsInv /\ [StatsNext]_statsVars => StatsInv'
<1> SUFFICES ASSUME StatsInv, [StatsNext]_statsVars PROVE StatsInv'
  OBVIOUS
<1>t. StatsTypeOK
  BY DEF StatsInv
<1>u. UNCHANGED <<prevdata, sent, first>> => IncrementsAddUp'
  BY DEF StatsInv, IncrementsAddUp
<1>e. <<>> \in Seq([fields : Nat, value : Nat])
  OBVIOUS
<1> USE DEF GoesTo
<1>1. CASE Sleep10 \/ GetStatsFails \/ ReportFails \/ ReportDone
  <2>1. /\ UNCHANGED <<sessions, prevdata, sent, first>> /\ row' = 1 /\ key' = 1
        /\ loop' \in {"sleep", "read"} /\ (reply' = reply \/ reply' = <<>>)
    BY <1>1 DEF Sleep10, GetStatsFails, ReportFails, ReportDone
  <2>2. reply' \in Seq([fields : Nat, value : Nat])
    BY <1>t, <1>e, <2>1 DEF StatsTypeOK
  <2> QED BY <1>t, <1>u, <2>1, <2>2 DEF StatsTypeOK, StatsInv
<1>2. CASE GetStats
  <2>1. PICK len \in 0..Rows, n \in 0..Cols :
          reply' = [r \in 1..len |-> [fields |-> IF r < len THEN Cols ELSE n, value |-> sessions[r]]]
    BY <1>2 DEF GetStats
  <2>2. \A r \in 1..len : sessions[r] \in Nat
    BY <1>t, <2>1, StatsAssumption DEF StatsTypeOK, Row
  <2>3. reply' \in Seq([fields : Nat, value : Nat])
    BY <2>1, <2>2, StatsAssumption
  <2> QED BY <1>2, <1>t, <1>u, <2>3 DEF GetStats, StatsTypeOK, StatsInv
<1>3. CASE ReportKey
  <2>1. row' \in Nat \ {0} /\ key' \in Nat \ {0} /\ UNCHANGED <<sessions, loop, reply>>
    <3>1. row \in Nat \ {0} /\ key \in Nat \ {0}
      BY <1>t DEF StatsTypeOK
    <3> QED BY <1>3, <3>1 DEF ReportKey
  <2>2. CASE <<row, Column>> \in Metric
    <3>1. reply[row].value \in Nat
      <4> DEFINE S == [fields : Nat, value : Nat]
      <4>1. row \in 1..Len(reply) /\ reply \in Seq(S)
        BY <1>3, <1>t DEF ReportKey, Reporting, StatsTypeOK
      <4>2. \A x \in S : x.value \in Nat
        OBVIOUS
      <4> HIDE DEF S
      <4>3. reply[row] \in S
        BY <4>1
      <4> QED BY <4>2, <4>3
    <3>2. Increment(<<row, Column>>, reply[row].value) /\ Remember(<<row, Column>>, reply[row].value)
      BY <1>3, <2>2 DEF ReportKey
    <3> QED BY <1>t, <2>1, <2>2, <3>1, <3>2, ValueAddsUp DEF StatsTypeOK, StatsInv
  <2>3. CASE <<row, Column>> \notin Metric
    BY <1>3, <1>t, <1>u, <2>1, <2>3 DEF ReportKey, StatsTypeOK, StatsInv
  <2> QED BY <2>2, <2>3
<1>4. CASE Session \/ HaproxyRestarts
  <2>1. UNCHANGED <<loop, reply, row, key, prevdata, sent, first>>
    BY <1>4 DEF Session, HaproxyRestarts
  <2>2. CASE Session
    <3>1. PICK r \in Row : sessions' = [sessions EXCEPT ![r] = sessions[r] + 1]
      BY <2>2 DEF Session
    <3> QED BY <1>t, <1>u, <2>1, <3>1 DEF StatsTypeOK, StatsInv
  <2>3. CASE HaproxyRestarts
    <3>1. sessions' \in [Row -> Nat]
      BY <2>3 DEF HaproxyRestarts
    <3> QED BY <1>t, <1>u, <2>1, <3>1 DEF StatsTypeOK, StatsInv
  <2> QED BY <1>4, <2>2, <2>3
<1>5. CASE UNCHANGED statsVars
  BY <1>5, <1>t, <1>u DEF statsVars, StatsTypeOK, StatsInv
<1> QED BY <1>1, <1>2, <1>3, <1>4, <1>5 DEF StatsNext, StatsStep

(* What is sent of a counter adds up to what was seen of it, whatever       *)
(* replies are cut or lost and however often haproxy is restarted.          *)
THEOREM StatsAddUp == StatsSpec => []IncrementsAddUp
<1>1. StatsInv => IncrementsAddUp
  BY DEF StatsInv
<1> QED BY StatsStarts, StatsKeeps, <1>1, PTL DEF StatsSpec

-----------------------------------------------------------------------------
(* THE IRC ACCESS CHECKS: every list of channels, every access list and     *)
(* any number of notices nobody asked for.                                  *)

CheckTypes ==
    /\ prog \in {"old", "new"} /\ wanted \in Flags \cup {NoFlags}
    /\ access \in [Range(Channels) -> Flags \cup {NoFlags, Unregistered}]
    /\ channels \in Seq(Range(Channels)) /\ checked \subseteq Range(Channels)
    /\ current \in Range(Channels) \cup {NoChannel} /\ asked \in Range(Channels) \cup {NoChannel}
    /\ cap \in {"asked", "acked", "refused"} /\ strays \in Nat
    /\ outcome \in {"running", "quit", "pass", "fail", "crashed"}

Connected == outcome \in {"running", "quit"}

(* Nothing is asked before the capability is acknowledged, or after the end. *)
Quiet ==
    Connected =>
        /\ wanted \in Flags
        /\ cap # "acked" => /\ outcome = "running" /\ channels = Channels /\ checked = {}
                            /\ failed = IF prog = "old" THEN "True" ELSE "None"
                            /\ current = NoChannel /\ asked = NoChannel /\ due = <<>>
        /\ cap = "acked" => (current = NoChannel <=> outcome = "quit")
        /\ outcome = "quit" => channels = <<>> /\ asked = NoChannel /\ due = <<>>

(* What ChanServ has said of the current channel, and has yet to say.       *)
Dialog ==
    Connected /\ current # NoChannel =>
        \/ asked = current /\ due = <<>> /\ listed = {}
        \/ /\ asked = NoChannel
           /\ LET a == access[current] IN
              \/ a = Unregistered /\ due \in {<<Unregistered>>, <<>>} /\ listed = {}
              \/ a \in Flags /\ due = <<a, "other", "end">> /\ listed = {}
              \/ a \in Flags /\ due \in {<<"other", "end">>, <<"end">>} /\ listed = {a}
              \/ a = NoFlags /\ due \in {<<"other", "end">>, <<"end">>} /\ listed = {}

(* No channel is passed over, and the first one comes last.                 *)
Covered ==
    Connected =>
        /\ Range(Channels) \subseteq Range(channels) \cup checked \cup {current}
        /\ IF channels # <<>> THEN channels[1] = Channels[1]
           ELSE current # NoChannel => current = Channels[1]

FailedMeans ==
    Connected =>
        /\ failed = "True" => checked = {} \/ \E c \in checked : ~Granted(c)
        /\ prog = "new" => /\ failed \in {"None", "True", "False"}
                           /\ failed = "None" <=> checked = {}
                           /\ failed = "False" => \A c \in checked : Granted(c)
        /\ prog = "old" => /\ failed \in {"True", "False"}
                           /\ strays = 0 /\ outcome = "quit" /\ failed = "False" => Granted(Head(Channels))

CheckInv == CheckTypes /\ Quiet /\ Dialog /\ Covered /\ FailedMeans /\ ExitIsEarned

(* The strings of the dialogue are told apart. *)
LEMMA NoticesDiffer ==
    /\ \A f \in Flags : f \notin {NoFlags, Unregistered, "other", "end"}
    /\ Unregistered \notin {"other", "end", NoFlags} /\ NoFlags \notin {"other", "end"}
  BY CheckAssumption DEF NoFlags, Unregistered

(* Neither program has said or been told anything at the start. *)
LEMMA CheckStarts == CheckInit => CheckInv
<1> SUFFICES ASSUME CheckInit PROVE CheckInv
  OBVIOUS
<1>1. /\ prog \in {"old", "new"} /\ access \in [Range(Channels) -> Flags \cup {NoFlags, Unregistered}]
      /\ wanted \in Flags \cup {NoFlags} /\ channels = Channels /\ current = NoChannel /\ listed = {}
      /\ failed = (IF prog = "old" THEN "True" ELSE "None")
      /\ outcome = (IF wanted = NoFlags THEN "crashed" ELSE "running")
      /\ cap = "asked" /\ asked = NoChannel /\ due = <<>> /\ strays = 0 /\ checked = {}
  BY DEF CheckInit
<1>2. CheckTypes
  BY <1>1, CheckAssumption DEF CheckTypes
<1>3. Quiet /\ Dialog
  BY <1>1 DEF Quiet, Dialog, Connected
<1>4. Covered
  <2>1. Range(<<>>) = {}
    BY RangeOfEmpty
  <2> QED BY <1>1, <2>1 DEF Covered
<1>5. FailedMeans /\ ExitIsEarned
  BY <1>1 DEF FailedMeans, ExitIsEarned, PassIsEarned, FailIsEarned
<1> QED BY <1>2, <1>3, <1>4, <1>5 DEF CheckInv

(* The next channel is asked about, or there is none and the program quits. *)
LEMMA NextChannelAsked ==
    ASSUME CheckInv, Connected, NextChannel, cap' = "acked", UNCHANGED givenVars, due' = <<>>, asked = NoChannel,
           checked \subseteq checked', {current} \subseteq checked' \cup {NoChannel},
           checked' \subseteq checked \cup {current}, NoChannel \notin checked', strays' \in Nat
    PROVE  /\ CheckTypes' /\ Quiet' /\ Dialog' /\ Covered' /\ Connected'
           /\ outcome' = "quit" => channels = <<>>
<1>t. CheckTypes /\ Quiet /\ Covered
  BY DEF CheckInv
<1>g. UNCHANGED <<prog, access, wanted>>
  BY DEF givenVars
<1>c. /\ checked' \subseteq Range(Channels) /\ checked \subseteq checked'
      /\ checked \cup {current} \subseteq checked' \cup {NoChannel}
  BY <1>t DEF CheckTypes
<1>1. CASE channels = <<>>
  <2>1. outcome' = "quit" /\ current' = NoChannel /\ channels' = <<>> /\ asked' = NoChannel /\ listed' = listed
    BY <1>1 DEF NextChannel
  <2>2. CheckTypes' /\ Quiet' /\ Dialog' /\ Connected'
    BY <1>t, <1>g, <1>c, <1>1, <2>1 DEF CheckTypes, Quiet, Dialog, Connected
  <2>3. Covered'
    BY <1>t, <1>c, <1>1, <2>1, RangeOfEmpty DEF Covered
  <2> QED BY <1>1, <2>2, <2>3
<1>2. CASE channels # <<>>
  <2>0. outcome # "quit" /\ outcome = "running"
    BY <1>t, <1>2 DEF Quiet, Connected
  <2>1. /\ current' = Last(channels) /\ asked' = Last(channels) /\ channels' = Front(channels)
        /\ listed' = {} /\ outcome' = outcome
    BY <1>2 DEF NextChannel
  <2>2. /\ channels' \in Seq(Range(Channels)) /\ current' \in Range(Channels) /\ current' = channels[Len(channels)]
        /\ Len(channels') = Len(channels) - 1 /\ (\A i \in 1..(Len(channels) - 1) : channels'[i] = channels[i])
        /\ Range(channels) = Range(channels') \cup {current'}
    BY <1>t, <1>2, <2>1, FrontAndLast DEF CheckTypes
  <2>3. current' # NoChannel
    BY <2>2, CheckAssumption
  <2>4. CheckTypes' /\ Quiet' /\ Dialog' /\ Connected'
    BY <1>t, <1>g, <1>c, <2>0, <2>1, <2>2, <2>3 DEF CheckTypes, Quiet, Dialog, Connected
  <2>5. Range(Channels) \subseteq Range(channels') \cup checked' \cup {current'}
    BY <1>t, <1>c, <2>2, CheckAssumption DEF Covered
  <2>6. Len(channels) \in Nat /\ Len(channels) > 0 /\ channels[1] = Channels[1]
    BY <1>t, <1>2 DEF CheckTypes, Covered
  <2>7. CASE channels' # <<>>
    <3>1. Len(channels') > 0
      BY <2>2, <2>7
    <3>2. 1 \in 1..(Len(channels) - 1)
      BY <2>2, <2>6, <3>1
    <3> QED BY <2>2, <2>4, <2>5, <2>6, <2>0, <2>1, <2>7, <3>2 DEF Covered
  <2>8. CASE channels' = <<>>
    <3>1. Len(channels') = 0
      BY <2>8
    <3>2. Len(channels) = 1
      BY <2>2, <2>6, <3>1
    <3> QED BY <2>2, <2>4, <2>5, <2>6, <2>0, <2>1, <2>8, <3>2 DEF Covered
  <2> QED BY <2>4, <2>7, <2>8, <2>0, <2>1
<1> QED BY <1>1, <1>2

(* The end of a list, or the answer that there is none, is the last of what *)
(* ChanServ has to say, and by then the list is known.                      *)
LEMMA AnswerEnds ==
    ASSUME CheckInv, Connected, cap = "acked", due # <<>>
    PROVE  /\ current \in Range(Channels) /\ current # NoChannel /\ asked = NoChannel
           /\ Head(due) = "end" => Tail(due) = <<>> /\ (NotFound <=> ~Granted(current))
           /\ Head(due) = Unregistered => Tail(due) = <<>> /\ ~Granted(current)
<1>t. CheckTypes /\ Quiet /\ Dialog /\ wanted \in Flags
  BY DEF CheckInv, Quiet
<1>1. current \in Range(Channels) /\ current # NoChannel
  BY <1>t DEF Quiet, CheckTypes, Connected
<1> DEFINE a == access[current]
<1>2. asked = NoChannel /\ \/ a = Unregistered /\ due \in {<<Unregistered>>, <<>>} /\ listed = {}
                           \/ a \in Flags /\ due = <<a, "other", "end">> /\ listed = {}
                           \/ a \in Flags /\ due \in {<<"other", "end">>, <<"end">>} /\ listed = {a}
                           \/ a = NoFlags /\ due \in {<<"other", "end">>, <<"end">>} /\ listed = {}
  BY <1>t, <1>1 DEF Dialog
<1>3. Granted(current) <=> a = wanted
  BY DEF Granted
<1>4. NotFound <=> wanted \notin listed
  BY DEF NotFound
<1> HIDE DEF a
<1>5. CASE a = Unregistered /\ due = <<Unregistered>> /\ listed = {}
  <2>1. Head(due) = Unregistered /\ Tail(due) = <<>>
    BY <1>5
  <2> QED BY <1>t, <1>1, <1>2, <1>3, <1>5, <2>1, NoticesDiffer
<1>6. CASE a \in Flags /\ due = <<a, "other", "end">> /\ listed = {}
  <2>1. Head(due) = a
    BY <1>6
  <2> QED BY <1>1, <1>2, <1>6, <2>1, NoticesDiffer
<1>7. CASE due = <<"other", "end">>
  <2>1. Head(due) = "other"
    BY <1>7
  <2> QED BY <1>1, <1>2, <2>1, NoticesDiffer
<1>8. CASE a \in Flags /\ due = <<"end">> /\ listed = {a}
  <2>1. Head(due) = "end" /\ Tail(due) = <<>>
    BY <1>8
  <2> QED BY <1>1, <1>2, <1>3, <1>4, <1>8, <2>1, NoticesDiffer
<1>9. CASE a = NoFlags /\ due = <<"end">> /\ listed = {}
  <2>1. Head(due) = "end" /\ Tail(due) = <<>>
    BY <1>9
  <2> QED BY <1>t, <1>1, <1>2, <1>3, <1>4, <1>9, <2>1, NoticesDiffer
<1> QED BY <1>2, <1>5, <1>6, <1>7, <1>8, <1>9

(* Any other notice adds what it says of the nick.                          *)
LEMMA ListGrows ==
    ASSUME CheckInv, Connected, cap = "acked", due # <<>>, due' = Tail(due), Head(due) # "end",
           Lists(Head(due)), UNCHANGED givenVars
    PROVE  Dialog'
<1>t. CheckTypes /\ Quiet /\ Dialog
  BY DEF CheckInv
<1>u. /\ UNCHANGED <<access, current, asked, outcome>>
      /\ listed' = listed \cup ({Head(due)} \cap Flags)
  BY DEF Lists, givenVars
<1>1. current # NoChannel
  BY <1>t DEF Quiet, Connected
<1> DEFINE a == access[current]
<1>2. asked = NoChannel /\ \/ a = Unregistered /\ due \in {<<Unregistered>>, <<>>} /\ listed = {}
                           \/ a \in Flags /\ due = <<a, "other", "end">> /\ listed = {}
                           \/ a \in Flags /\ due \in {<<"other", "end">>, <<"end">>} /\ listed = {a}
                           \/ a = NoFlags /\ due \in {<<"other", "end">>, <<"end">>} /\ listed = {}
  BY <1>t, <1>1 DEF Dialog
<1>3. asked' = NoChannel /\ a' = a
  BY <1>u, <1>2
<1>w. ASSUME \/ a = Unregistered /\ due' \in {<<Unregistered>>, <<>>} /\ listed' = {}
             \/ a \in Flags /\ due' \in {<<"other", "end">>, <<"end">>} /\ listed' = {a}
             \/ a = NoFlags /\ due' \in {<<"other", "end">>, <<"end">>} /\ listed' = {}
      PROVE  Dialog'
  BY <1>w, <1>3 DEF Dialog
<1> HIDE DEF a
<1>5. CASE a = Unregistered /\ due = <<Unregistered>> /\ listed = {}
  <2>1. Head(due) = Unregistered /\ due' = <<>>
    BY <1>5
  <2>2. listed' = {}
    BY <1>u, <1>5, <2>1, NoticesDiffer
  <2> QED BY <1>w, <1>5, <2>1, <2>2
<1>6. CASE a \in Flags /\ due = <<a, "other", "end">> /\ listed = {}
  <2>1. Head(due) = a /\ due' = <<"other", "end">>
    BY <1>6
  <2>2. listed' = {a}
    BY <1>u, <1>6, <2>1
  <2> QED BY <1>w, <1>6, <2>1, <2>2
<1>7. CASE due = <<"other", "end">>
  <2>1. Head(due) = "other" /\ due' = <<"end">>
    BY <1>7
  <2>2. listed' = listed
    BY <1>u, <2>1, NoticesDiffer
  <2>4. \/ a \in Flags /\ listed = {a}
        \/ a = NoFlags /\ listed = {}
    <3>1. due # <<Unregistered>>
      <4>1. Head(<<Unregistered>>) = Unregistered
        OBVIOUS
      <4> QED BY <2>1, <4>1, NoticesDiffer
    <3>2. due # <<a, "other", "end">> \/ a \notin Flags
      <4>1. CASE a \in Flags
        <5>1. Head(<<a, "other", "end">>) = a
          OBVIOUS
        <5> QED BY <2>1, <4>1, <5>1, NoticesDiffer
      <4> QED BY <4>1
    <3> QED BY <1>2, <3>1, <3>2
  <2> QED BY <1>w, <2>1, <2>2, <2>4
<1>8. due # <<"end">>
  <2>1. Head(<<"end">>) = "end"
    OBVIOUS
  <2> QED BY <2>1
<1> QED BY <1>2, <1>5, <1>6, <1>7, <1>8

(* The program stays connected and no channel comes to a verdict.           *)
LEMMA CollectingKeeps ==
    ASSUME CheckInv, Connected, cap = "acked", Dialog', UNCHANGED givenVars, UNCHANGED cap,
           UNCHANGED <<channels, current, asked, outcome, checked>>, current # NoChannel,
           strays' \in Nat, \/ prog = "old" /\ failed' = "False"
                            \/ prog = "new" /\ failed' = failed
    PROVE  CheckInv'
<1>t. CheckTypes /\ Quiet /\ Covered /\ FailedMeans
  BY DEF CheckInv
<1>u. UNCHANGED <<prog, access, wanted, cap, channels, current, asked, outcome, checked>> /\ outcome = "running"
  BY <1>t DEF givenVars, Quiet, Connected
<1>1. CheckTypes' /\ Quiet' /\ Covered'
  BY <1>t, <1>u DEF CheckTypes, Quiet, Covered, Connected
<1>2. FailedMeans'
  <2>1. \A c : Granted(c)' <=> Granted(c)
    BY <1>u DEF Granted
  <2> QED BY <1>t, <1>u, <2>1 DEF FailedMeans, Connected
<1>3. ExitIsEarned'
  BY <1>u DEF ExitIsEarned, PassIsEarned, FailIsEarned
<1> QED BY <1>1, <1>2, <1>3 DEF CheckInv

(* A channel comes to a verdict. *)
LEMMA VerdictKeeps ==
    ASSUME CheckInv, Connected, cap = "acked", due # <<>>, due' = Tail(due), Tail(due) = <<>>,
           UNCHANGED <<givenVars, cap, strays>>, Judged,
           IF prog = "old" THEN failed' = IF Granted(current) THEN "False" ELSE "True"
           ELSE failed' = IF ~Granted(current) THEN "True" ELSE IF failed = "None" THEN "False" ELSE failed
    PROVE  CheckInv'
<1>t. CheckTypes /\ Quiet /\ Covered /\ FailedMeans
  BY DEF CheckInv
<1>u. UNCHANGED <<prog, access, wanted, cap, strays>> /\ \A c : Granted(c)' <=> Granted(c)
  BY DEF givenVars, Granted
<1>1. current \in Range(Channels) /\ current # NoChannel /\ asked = NoChannel
  BY AnswerEnds
<1>2. NextChannel /\ checked' = checked \cup {current}
  BY DEF Judged
<1>3. /\ CheckTypes' /\ Quiet' /\ Dialog' /\ Covered' /\ Connected'
      /\ outcome' = "quit" => channels = <<>>
  <2>1. cap' = "acked" /\ UNCHANGED givenVars /\ due' = <<>> /\ strays' \in Nat
    BY <1>t, <1>u DEF CheckTypes
  <2>2. /\ checked \subseteq checked' /\ {current} \subseteq checked' \cup {NoChannel}
        /\ checked' \subseteq checked \cup {current} /\ NoChannel \notin checked'
    BY <1>t, <1>1, <1>2, CheckAssumption DEF CheckTypes
  <2> QED BY <1>1, <1>2, <2>1, <2>2, NextChannelAsked
<1>4. FailedMeans'
  <2>1. checked' # {} /\ current \in checked'
    BY <1>2
  <2>2. CASE prog = "old"
    <3>1. outcome' = "quit" => current = Channels[1]
      BY <1>t, <1>1, <1>3 DEF Covered
    <3>2. Head(Channels) = Channels[1]
      <4>1. Channels # <<>>
        BY <1>1, RangeOfEmpty
      <4> QED BY <4>1, CheckAssumption
    <3> QED BY <1>u, <2>1, <2>2, <3>1, <3>2 DEF FailedMeans
  <2>3. CASE prog = "new"
    <3>1. /\ failed' = IF ~Granted(current) THEN "True" ELSE IF failed = "None" THEN "False" ELSE failed
          /\ prog # "old"
      BY <2>3
    <3>2. CASE ~Granted(current)
      BY <1>u, <2>1, <3>1, <3>2 DEF FailedMeans
    <3>3. CASE Granted(current) /\ failed = "None"
      BY <1>t, <1>u, <1>2, <2>1, <2>3, <3>1, <3>3 DEF FailedMeans
    <3>4. CASE Granted(current) /\ failed # "None"
      BY <1>t, <1>u, <1>2, <2>1, <2>3, <3>1, <3>4 DEF FailedMeans
    <3> QED BY <3>2, <3>3, <3>4
  <2> QED BY <1>t, <2>2, <2>3 DEF CheckTypes
<1>5. ExitIsEarned'
  BY <1>3 DEF ExitIsEarned, PassIsEarned, FailIsEarned, Connected
<1> QED BY <1>3, <1>4, <1>5 DEF CheckInv

(* The answer to the capability request keeps the invariant. *)
LEMMA OnCapKeeps ==
    ASSUME CheckInv, OnCap
    PROVE  CheckInv'
<1>t. CheckTypes /\ Quiet /\ Dialog /\ Covered /\ FailedMeans
  BY DEF CheckInv
<1>u. /\ UNCHANGED <<prog, access, wanted, failed, due, strays>> /\ UNCHANGED givenVars /\ \A c : Granted(c)' <=> Granted(c)
      /\ outcome = "running" /\ cap = "asked" /\ Connected
  BY DEF OnCap, givenVars, Granted, Connected
<1>q. /\ channels = Channels /\ checked = {} /\ current = NoChannel /\ asked = NoChannel /\ due = <<>>
      /\ failed = IF prog = "old" THEN "True" ELSE "None"
  BY <1>t, <1>u DEF Quiet
<1>1. CASE cap' = "acked" /\ NextChannel /\ UNCHANGED checked
  <2>1. CheckTypes' /\ Quiet' /\ Dialog' /\ Covered' /\ Connected'
    BY <1>t, <1>u, <1>q, <1>1, NextChannelAsked DEF CheckTypes
  <2>2. FailedMeans'
    BY <1>t, <1>u, <1>q, <1>1 DEF FailedMeans
  <2>3. ExitIsEarned'
    BY <2>1 DEF ExitIsEarned, PassIsEarned, FailIsEarned, Connected
  <2> QED BY <2>1, <2>2, <2>3 DEF CheckInv
<1>2. CASE cap' = "refused" /\ UNCHANGED dialogVars
  <2>1. UNCHANGED <<channels, current, listed, asked, outcome, checked>>
    BY <1>2 DEF dialogVars
  <2>2. CheckTypes' /\ Quiet' /\ Dialog' /\ Covered'
    BY <1>t, <1>u, <1>q, <1>2, <2>1 DEF CheckTypes, Quiet, Dialog, Covered, Connected
  <2>3. FailedMeans'
    BY <1>t, <1>u, <2>1 DEF FailedMeans, Connected
  <2>4. ExitIsEarned'
    BY <1>u, <2>1 DEF ExitIsEarned, PassIsEarned, FailIsEarned
  <2> QED BY <2>2, <2>3, <2>4 DEF CheckInv
<1> QED BY <1>1, <1>2 DEF OnCap

(* A notice of ChanServ keeps it: a channel is entered on a list only by     *)
(* what its own notices said.                                                *)
LEMMA OnPrivnoticeKeeps ==
    ASSUME CheckInv, OnPrivnotice
    PROVE  CheckInv'
<1>t. CheckTypes
  BY DEF CheckInv
<1>u. /\ Connected /\ cap = "acked" /\ due # <<>> /\ due' = Tail(due) /\ Advance(Head(due))
      /\ UNCHANGED givenVars /\ UNCHANGED <<cap, strays>> /\ strays' \in Nat
  BY <1>t DEF OnPrivnotice, Listens, Connected, CheckTypes
<1>e. /\ current \in Range(Channels) /\ current # NoChannel /\ asked = NoChannel
      /\ Head(due) = "end" => Tail(due) = <<>> /\ (NotFound <=> ~Granted(current))
      /\ Head(due) = Unregistered => Tail(due) = <<>> /\ ~Granted(current)
  BY <1>u, AnswerEnds
<1>1. CASE Lists(Head(due)) /\ Head(due) # "end" 
          /\ (prog = "old" => failed' = "False") /\ (prog = "new" => failed' = failed)
  <2>1. Dialog'
    BY <1>u, <1>1, ListGrows
  <2>2. UNCHANGED <<channels, current, asked, outcome, checked>>
    BY <1>1 DEF Lists
  <2> QED BY <1>t, <1>u, <1>e, <1>1, <2>1, <2>2, CollectingKeeps DEF CheckTypes
<1>2. CASE prog = "old"
  <2>1. OldAdvance(Head(due))
    BY <1>u, <1>2 DEF Advance
  <2>2. CASE Head(due) = "end"
    <3>1. Judged /\ failed' = IF Granted(current) THEN "False" ELSE "True"
      BY <1>e, <2>1, <2>2 DEF OldAdvance
    <3> QED BY <1>u, <1>e, <1>2, <2>2, <3>1, VerdictKeeps
  <2>3. CASE Head(due) # "end"
    BY <1>1, <1>e, <1>2, <2>1, <2>3 DEF OldAdvance
  <2> QED BY <2>2, <2>3
<1>3. CASE prog = "new"
  <2>1. NewAdvance(Head(due)) /\ prog # "old"
    BY <1>u, <1>3 DEF Advance
  <2>2. CASE Head(due) = Unregistered
    <3>1. Judged /\ failed' = "True"
      BY <1>e, <2>1, <2>2 DEF NewAdvance, Refuses
    <3> QED BY <1>u, <1>e, <2>1, <2>2, <3>1, VerdictKeeps
  <2>3. CASE Head(due) # Unregistered /\ Head(due) = "end"
    <3>1. Judged /\ failed' = IF ~Granted(current) THEN "True" ELSE IF failed = "None" THEN "False" ELSE failed
      BY <1>e, <2>1, <2>3 DEF NewAdvance, Refuses, FailedAfter
    <3> QED BY <1>u, <1>e, <2>1, <2>3, <3>1, VerdictKeeps
  <2>4. CASE Head(due) # Unregistered /\ Head(due) # "end"
    BY <1>1, <1>e, <1>3, <2>1, <2>4 DEF NewAdvance, Refuses
  <2> QED BY <2>2, <2>3, <2>4
<1> QED BY <1>t, <1>2, <1>3 DEF CheckTypes

(* A notice that answers nothing, or a short one, keeps it. *)
LEMMA OnStrayKeeps ==
    ASSUME CheckInv, OnStray
    PROVE  CheckInv'
<1>t. CheckTypes /\ Quiet /\ Dialog /\ Covered /\ FailedMeans
  BY DEF CheckInv
<1>u. /\ Connected /\ cap = "acked" /\ strays' \in Nat /\ strays' # 0
      /\ UNCHANGED givenVars /\ UNCHANGED <<prog, access, wanted, cap, due>> /\ \A c : Granted(c)' <=> Granted(c)
  BY <1>t DEF OnStray, Listens, Connected, CheckTypes, givenVars, Granted
<1>1. CASE Advance("other") /\ current = NoChannel
  <2>1. NextChannel /\ checked' = checked /\ (prog = "old" => failed' = "False") /\ (prog = "new" => failed' = failed)
    BY <1>1 DEF Advance, OldAdvance, NewAdvance
  <2>2. due' = <<>> /\ asked = NoChannel
    BY <1>t, <1>u, <1>1 DEF Quiet
  <2>3. CheckTypes' /\ Quiet' /\ Dialog' /\ Covered' /\ Connected'
    <3>1. NoChannel \notin checked'
      BY <1>t, <2>1, CheckAssumption DEF CheckTypes
    <3>2. checked \subseteq checked' /\ {current} \subseteq checked' \cup {NoChannel} /\ checked' \subseteq checked \cup {current}
      BY <1>1, <2>1
    <3> QED BY <1>u, <1>1, <2>1, <2>2, <3>1, <3>2, NextChannelAsked
  <2>4. FailedMeans'
    BY <1>t, <1>u, <2>1 DEF FailedMeans, CheckTypes
  <2>5. ExitIsEarned'
    BY <2>3 DEF ExitIsEarned, PassIsEarned, FailIsEarned, Connected
  <2> QED BY <2>3, <2>4, <2>5 DEF CheckInv
<1>2. CASE Advance("other") /\ current # NoChannel
  <2>1. Lists("other") /\ (prog = "old" => failed' = "False") /\ (prog = "new" => failed' = failed)
    BY <1>2, NoticesDiffer DEF Advance, OldAdvance, NewAdvance, Refuses
  <2>2. UNCHANGED <<channels, current, asked, outcome, checked>> /\ listed' = listed
    BY <2>1, NoticesDiffer DEF Lists
  <2>3. Dialog'
    BY <1>t, <1>u, <2>2 DEF Dialog, Connected
  <2> QED BY <1>t, <1>u, <1>2, <2>1, <2>2, <2>3, CollectingKeeps DEF CheckTypes
<1>3. CASE outcome' = "crashed" /\ UNCHANGED <<channels, current, listed, asked, checked>>
  <2>1. CheckTypes'
    BY <1>t, <1>u, <1>3 DEF CheckTypes
  <2>2. ~Connected'
    BY <1>3 DEF Connected
  <2> QED BY <1>3, <2>1, <2>2 DEF CheckInv, Quiet, Dialog, Covered, FailedMeans, ExitIsEarned, PassIsEarned, FailIsEarned
<1> QED BY <1>1, <1>2, <1>3 DEF OnStray

(* The loss of the connection keeps it: the program ends, and with which     *)
(* code.                                                                     *)
LEMMA OnDisconnectKeeps ==
    ASSUME CheckInv, OnDisconnect
    PROVE  CheckInv'
<1>t. CheckTypes /\ Quiet /\ Covered /\ FailedMeans
  BY DEF CheckInv
<1>u. /\ Connected /\ cut' = (outcome = "running") /\ outcome' = (IF failed = "False" THEN "pass" ELSE "fail")
      /\ UNCHANGED <<prog, access, wanted, channels, current, listed, asked, checked, cap, failed, due, strays>>
      /\ \A c : Granted(c)' <=> Granted(c)
  BY DEF OnDisconnect, Connected, givenVars, Granted
<1>1. CheckTypes' /\ ~Connected'
  BY <1>t, <1>u DEF CheckTypes, Connected
<1>q. outcome = "quit" => Range(channels) = {} /\ current = NoChannel /\ cap = "acked"
  BY <1>t, <1>u, RangeOfEmpty DEF Quiet, CheckTypes
<1>2. PassIsEarned'
  <2> SUFFICES ASSUME failed = "False"
               PROVE  IF prog = "new"
                      THEN /\ checked # {} /\ \A c \in checked : Granted(c)
                           /\ cut' \/ checked = Range(Channels)
                      ELSE cut' \/ strays > 0 \/ Granted(Head(Channels))
    BY <1>u DEF PassIsEarned
  <2>1. CASE prog = "new"
    <3>1. checked # {} /\ \A c \in checked : Granted(c)
      BY <1>t, <1>u, <2>1 DEF FailedMeans
    <3>2. outcome = "quit" => checked = Range(Channels)
      BY <1>t, <1>u, <1>q, CheckAssumption DEF Covered, CheckTypes
    <3> QED BY <1>u, <2>1, <3>1, <3>2 DEF Connected
  <2>2. CASE prog = "old"
    <3>1. outcome = "quit" /\ strays = 0 => Granted(Head(Channels))
      BY <1>t, <1>u, <2>2 DEF FailedMeans
    <3>2. strays = 0 \/ strays > 0
      BY <1>t DEF CheckTypes
    <3> QED BY <1>u, <2>2, <3>1, <3>2 DEF Connected
  <2> QED BY <1>t, <2>1, <2>2 DEF CheckTypes
<1>3. FailIsEarned'
  <2> SUFFICES ASSUME failed # "False" PROVE checked = {} \/ \E c \in checked : ~Granted(c)
    BY <1>u DEF FailIsEarned
  <2> QED BY <1>t, <1>u DEF FailedMeans, CheckTypes
<1> QED BY <1>1, <1>2, <1>3 DEF CheckInv, Quiet, Dialog, Covered, FailedMeans, ExitIsEarned

(* An answer of ChanServ keeps it: what is on its way tells the access of    *)
(* the channel asked for.                                                    *)
LEMMA ChanServKeeps ==
    ASSUME CheckInv, ChanServ
    PROVE  CheckInv'
<1>t. CheckTypes /\ Quiet /\ Dialog /\ Covered /\ FailedMeans
  BY DEF CheckInv
<1>u. /\ Connected /\ asked # NoChannel /\ due = <<>> /\ due' = Answer(asked) /\ asked' = NoChannel
      /\ UNCHANGED <<prog, access, wanted, channels, current, listed, outcome, checked, cap, failed, strays>>
      /\ \A c : Granted(c)' <=> Granted(c)
  BY DEF ChanServ, Connected, givenVars, Granted
<1>1. current # NoChannel /\ cap = "acked" /\ asked = current /\ listed = {} /\ outcome = "running"
  <2>1. cap = "acked" /\ outcome # "quit"
    BY <1>t, <1>u DEF Quiet
  <2>2. current # NoChannel /\ outcome = "running"
    BY <1>t, <1>u, <2>1 DEF Quiet, Connected
  <2> QED BY <1>t, <1>u, <2>1, <2>2 DEF Dialog
<1>2. CheckTypes' /\ Quiet' /\ Covered' /\ FailedMeans'
  BY <1>t, <1>u, <1>1 DEF CheckTypes, Quiet, Covered, FailedMeans, Connected
<1>3. Dialog'
  <2> DEFINE a == access[current]
  <2>1. a \in Flags \cup {NoFlags, Unregistered}
    BY <1>t, <1>1 DEF CheckTypes
  <2>2. a' = a
    BY <1>u
  <2>3. due' = IF a = Unregistered THEN <<Unregistered>> ELSE (IF a \in Flags THEN <<a>> ELSE <<>>) \o <<"other", "end">>
    BY <1>u, <1>1 DEF Answer, Entry
  <2> HIDE DEF a
  <2>4. <<a>> \o <<"other", "end">> = <<a, "other", "end">>
    <3> DEFINE S == {a, "other", "end"}
               r == <<"other", "end">>
               q == <<a>>
               s == q \o r
               t == <<a, "other", "end">>
    <3>1. r \in Seq(S) /\ q \in Seq(S) /\ t \in Seq(S)
      OBVIOUS
    <3>2. Len(q) = 1 /\ Len(r) = 2 /\ q[1] = a /\ r[1] = "other" /\ r[2] = "end"
      OBVIOUS
    <3>3. Len(t) = 3 /\ t[1] = a /\ t[2] = "other" /\ t[3] = "end"
      OBVIOUS
    <3> HIDE DEF q, r, t, S
    <3>4. s \in Seq(S) /\ Len(s) = 3
      <4>1. q \o r \in Seq(S) /\ Len(q \o r) = Len(q) + Len(r)
        BY <3>1, ConcatProperties
      <4> QED BY <3>2, <4>1 DEF s
    <3>5. s[1] = a
      BY <3>1, <3>2, ConcatProperties DEF s
    <3>6. s[2] = "other" /\ s[3] = "end"
      BY <3>1, <3>2, ConcatProperties DEF s
    <3> HIDE DEF s
    <3>7. \A i \in 1..3 : s[i] = t[i]
      BY <3>3, <3>5, <3>6
    <3>8. s = t
      BY <3>1, <3>3, <3>4, <3>7, SeqEqual
    <3> QED BY <3>8 DEF q, r, s, t
  <2>6. <<>> \o <<"other", "end">> = <<"other", "end">>
    OBVIOUS
  <2>5. \/ a = Unregistered /\ due' = <<Unregistered>>
        \/ a \in Flags /\ due' = <<a, "other", "end">>
        \/ a = NoFlags /\ due' = <<"other", "end">>
    BY <2>1, <2>3, <2>4, <2>6, NoticesDiffer
  <2> QED BY <1>u, <1>1, <2>2, <2>5 DEF Dialog, a
<1>4. ExitIsEarned'
  BY <1>u, <1>1 DEF ExitIsEarned, PassIsEarned, FailIsEarned
<1> QED BY <1>2, <1>3, <1>4 DEF CheckInv

(* So every step of the dialogue keeps it. *)
LEMMA CheckKept == CheckInv /\ [CheckNext]_checkVars => CheckInv'
<1> SUFFICES ASSUME CheckInv, [CheckNext]_checkVars PROVE CheckInv'
  OBVIOUS
<1>1. CASE UNCHANGED checkVars
  <2>1. /\ UNCHANGED <<prog, access, wanted, channels, current, listed, asked, outcome, checked, cap, failed, due>>
        /\ UNCHANGED <<strays, cut>>
    BY <1>1 DEF checkVars, givenVars, dialogVars
  <2> QED BY <2>1 DEF CheckInv, CheckTypes, Quiet, Dialog, Covered, FailedMeans, ExitIsEarned, PassIsEarned,
                      FailIsEarned, Connected, Granted
<1>2. CASE CheckNext
  BY <1>2, OnCapKeeps, OnPrivnoticeKeeps, OnStrayKeeps, OnDisconnectKeeps, ChanServKeeps DEF CheckNext
<1> QED BY <1>1, <1>2

(* The exit code of neither version says more than it knows, in the sense   *)
(* of ExitIsEarned.                                                         *)
THEOREM ExitCodesAreEarned == CheckSpec => []ExitIsEarned
<1>1. CheckInit => CheckInv
  BY CheckStarts
<1>2. CheckInv /\ [CheckNext]_checkVars => CheckInv'
  BY CheckKept
<1>3. CheckInv => ExitIsEarned
  BY DEF CheckInv
<1> QED BY <1>1, <1>2, <1>3, PTL DEF CheckSpec

-----------------------------------------------------------------------------
(* THE CHECKS OF THE CONFIGURATION: files of any length.                    *)

(* What the passes look for is all there is to find, and only the first of  *)
(* the job checks looks at schemas.                                         *)
LEMMA PassFacts ==
    ASSUME NEW c \in Checks
    PROVE  /\ Len(Passes(c)) \in Nat /\ Len(Passes(c)) >= 1
           /\ \A q \in 1..Len(Passes(c)) : Passes(c)[q] = "schema" => q = 1
           /\ \A f \in FaultsOf(c) : \E q \in 1..Len(Passes(c)) : f \in Faults(Passes(c)[q])
<1>1. /\ Len(Passes(c)) \in Nat /\ Len(Passes(c)) >= 1
      /\ \A q \in 1..Len(Passes(c)) : Passes(c)[q] = "schema" => q = 1
      /\ DOMAIN Passes(c) = 1..Len(Passes(c))
  <2>1. CASE c = "projects"
    BY <2>1 DEF Passes
  <2>2. CASE c = "jobs"
    BY <2>2 DEF Passes
  <2>3. CASE c = "irc"
    BY <2>3 DEF Passes
  <2>4. CASE c = "layout"
    BY <2>4 DEF Passes
  <2> QED BY <2>1, <2>2, <2>3, <2>4 DEF Checks
<1>2. Range(Passes(c)) = {Passes(c)[q] : q \in 1..Len(Passes(c))}
  BY <1>1 DEF Range
<1> QED BY <1>1, <1>2 DEF FaultsOf

(* The faults of two passes that overlook some. *)
LEMMA FaultFacts == Faults("schema") = {"unknown", "invalid"} /\ Faults("job") = {"no match"}
  BY DEF Faults

(* No entry is unknown and invalid at once. *)
LEMMA EntryFacts ==
    ASSUME NEW c, NEW e \in Entries(c)
    PROVE  e \subseteq FaultsOf(c) /\ ~({"unknown", "invalid"} \subseteq e)
<1>1. e # {"unknown", "invalid"} /\ (e = {} \/ \E f, g \in FaultsOf(c) : e = {f, g})
  BY DEF Entries
<1>2. CASE e = {}
  BY <1>2
<1>3. CASE \E f, g \in FaultsOf(c) : e = {f, g}
  <2>1. PICK f \in FaultsOf(c), g \in FaultsOf(c) : e = {f, g}
    BY <1>3
  <2> QED BY <1>1, <2>1
<1> QED BY <1>1, <1>2, <1>3

ChecksTypes ==
    /\ check \in Checks /\ entries \in Seq(Entries(check)) /\ jobList \in BOOLEAN
    /\ found \in BOOLEAN /\ errors \in BOOLEAN
    /\ pass \in Nat /\ pass >= 1 /\ next \in Nat /\ next >= 1
    /\ verdict \in {"none", "pass", "fail", "exception"}
Within == verdict = "none" => pass <= Len(Passes(check)) /\ next <= Len(entries) + 1

(* Whatever of entry i pass q looks for is overlooked. *)
Pure(i, q) == \A f \in entries[i] \cap Faults(Passes(check)[q]) : Overlooked(i, f)

LookedAt ==
    /\ verdict = "none" /\ ~found => \A i \in 1..(next - 1) : Pure(i, pass)
    /\ verdict \in {"none", "pass"} /\ ~errors =>
          \A q \in 1..(pass - 1) : \A i \in 1..Len(entries) : Pure(i, q)
    /\ verdict = "pass" => ~errors /\ pass = Len(Passes(check)) + 1
    /\ found \/ errors \/ verdict \in {"fail", "exception"} => \E i \in 1..Len(entries) : entries[i] # {}

(* What was validated last was a valid entry. *)
LastValid ==
    check = "jobs" /\ pass = 1 /\ validated = "valid" =>
        \E j \in 1..(next - 1) : {"invalid", "unknown"} \cap entries[j] = {}

ChecksInv == ChecksTypes /\ Within /\ LookedAt /\ LastValid

(* Nothing has been looked at when a check starts. *)
LEMMA ChecksStart == ChecksInit => ChecksInv
<1> SUFFICES ASSUME ChecksInit PROVE ChecksInv
  OBVIOUS
<1>1. PICK n \in 0..MaxEntries : entries \in [1..n -> Entries(check)]
  BY DEF ChecksInit
<1>2. entries \in Seq(Entries(check)) /\ Len(entries) \in Nat
  <2>1. n \in Nat
    BY <1>1, EntriesAssumption
  <2> QED BY <1>1, <2>1
<1>3. /\ check \in Checks /\ jobList \in BOOLEAN /\ pass = 1 /\ next = 1 /\ found = FALSE /\ errors = FALSE
      /\ validated = "unbound" /\ verdict = "none"
  BY DEF ChecksInit
<1>4. ChecksTypes
  <2>1. found \in BOOLEAN /\ errors \in BOOLEAN
    BY <1>3
  <2>2. pass \in Nat /\ pass >= 1 /\ next \in Nat /\ next >= 1
    BY <1>3
  <2> QED BY <1>2, <1>3, <2>1, <2>2 DEF ChecksTypes
<1>5. Within
  BY <1>2, <1>3, PassFacts DEF Within
<1>6. LookedAt
  <2>1. \A i \in 1..(1 - 1) : FALSE
    OBVIOUS
  <2> QED BY <1>3, <2>1 DEF LookedAt
<1>7. LastValid
  BY <1>3 DEF LastValid
<1> QED BY <1>4, <1>5, <1>6, <1>7 DEF ChecksInv

(* An entry has been looked at. *)
LEMMA FindingKeeps ==
    ASSUME ChecksInv, Looks, NEW error \in BOOLEAN, Finding(error),
           error => Seen # {}, ~error => Pure(next, pass),
           check = "jobs" /\ pass = 1 /\ validated' = "valid" =>
               validated = "valid" \/ {"invalid", "unknown"} \cap entries[next] = {}
    PROVE  ChecksInv'
<1>t. ChecksTypes /\ Within /\ LookedAt /\ LastValid
  BY DEF ChecksInv
<1>u. /\ UNCHANGED <<check, entries, jobList, pass, errors, verdict>>
      /\ found' = (found \/ error) /\ next' = next + 1
  BY DEF Finding
<1>l. verdict = "none" /\ pass <= Len(Passes(check)) /\ next <= Len(entries) /\ next \in 1..Len(entries)
  BY <1>t DEF Looks, ChecksTypes
<1>1. ChecksTypes' /\ Within'
  BY <1>t, <1>u, <1>l DEF ChecksTypes, Within
<1>2. \A i, q : Pure(i, q) => Pure(i, q)'
  BY <1>u DEF Pure, Overlooked
<1>3. LookedAt'
  <2>1. ~found' => \A i \in 1..next : Pure(i, pass)'
    <3> SUFFICES ASSUME ~found', NEW i \in 1..next PROVE Pure(i, pass)
      BY <1>2, <1>u
    <3>1. CASE i = next
      BY <1>u, <3>1
    <3>2. CASE i # next
      <4>1. i \in 1..(next - 1)
        BY <1>t, <3>2 DEF ChecksTypes
      <4> QED BY <1>t, <1>u, <1>l, <4>1 DEF LookedAt
    <3> QED BY <3>1, <3>2
  <2>2. found' => \E i \in 1..Len(entries) : entries[i] # {}
    <3>1. error => entries[next] # {}
      BY DEF Seen
    <3> QED BY <1>t, <1>u, <1>l, <3>1 DEF LookedAt
  <2>3. next' - 1 = next
    BY <1>t, <1>u DEF ChecksTypes
  <2> QED BY <1>t, <1>u, <1>l, <1>2, <2>1, <2>2, <2>3 DEF LookedAt
<1>4. LastValid'
  <2> SUFFICES ASSUME check = "jobs", pass = 1, validated' = "valid"
               PROVE  \E j \in 1..next : {"invalid", "unknown"} \cap entries[j] = {}
    <3>1. next' - 1 = next
      BY <1>t, <1>u DEF ChecksTypes
    <3> QED BY <1>u, <3>1 DEF LastValid
  <2>1. CASE validated = "valid"
    <3>1. PICK j \in 1..(next - 1) : {"invalid", "unknown"} \cap entries[j] = {}
      BY <1>t, <2>1 DEF LastValid
    <3>2. j \in 1..next
      BY <1>t DEF ChecksTypes
    <3> QED BY <3>1, <3>2
  <2>2. CASE {"invalid", "unknown"} \cap entries[next] = {}
    <3>1. next \in 1..next
      BY <1>t DEF ChecksTypes
    <3> QED BY <2>2, <3>1
  <2> QED BY <2>1, <2>2
<1> QED BY <1>1, <1>3, <1>4 DEF ChecksInv

(* In most passes whatever is seen is an error. *)
LEMMA SeenIsError ==
    ASSUME ChecksInv, Looks, Finding(Seen # {}), UNCHANGED validated
    PROVE  ChecksInv'
<1>1. Seen = {} => Pure(next, pass)
  BY DEF Seen, Pure, Pass
<1> DEFINE error == Seen # {}
<1>2. error \in BOOLEAN /\ Finding(error) /\ (error => Seen # {}) /\ (~error => Pure(next, pass))
  BY <1>1
<1> HIDE DEF error
<1> QED BY <1>2, FindingKeeps

(* An exception on an entry keeps the invariant: the check ends refusing,    *)
(* and the entry has a fault.                                                *)
LEMMA ExceptionKeeps ==
    ASSUME ChecksInv, Looks, Seen # {}, Raises
    PROVE  ChecksInv'
<1>t. ChecksTypes /\ Within /\ LookedAt /\ LastValid
  BY DEF ChecksInv
<1>u. UNCHANGED <<check, entries, jobList, pass, next, found, errors, validated>> /\ verdict' = "exception"
  BY DEF Raises
<1>l. next \in 1..Len(entries) /\ entries[next] # {}
  BY <1>t DEF Looks, ChecksTypes, Seen
<1> QED BY <1>t, <1>u, <1>l DEF ChecksInv, ChecksTypes, Within, LookedAt, LastValid

(* So does a job that is compared with the list of jobs. *)
LEMMA ValidateJobKeeps ==
    ASSUME ChecksInv, ValidateJob
    PROVE  ChecksInv'
<1>t. ChecksTypes /\ Within /\ LookedAt /\ LastValid
  BY DEF ChecksInv
<1>l. /\ Looks /\ Pass = "schema" /\ next \in 1..Len(entries)
      /\ Seen = entries[next] \cap {"unknown", "invalid"}
  <2>1. Looks /\ Pass = "schema"
    BY DEF ValidateJob
  <2>2. next \in 1..Len(entries)
    BY <1>t, <2>1 DEF Looks, ChecksTypes
  <2>3. Faults(Pass) = Faults("schema")
    BY <2>1
  <2> QED BY <2>1, <2>2, <2>3, FaultFacts DEF Seen
<1>1. CASE Seen = {} /\ Finding(FALSE)
  <2>1. Pure(next, pass)
    BY <1>1 DEF Seen, Pure, Pass
  <2>2. {"invalid", "unknown"} \cap entries[next] = {}
    BY <1>l, <1>1
  <2> QED BY <1>l, <1>1, <2>1, <2>2, FindingKeeps
<1>2. CASE /\ Seen # {} /\ validated' = (IF "unknown" \in Seen THEN validated ELSE "invalid")
           /\ Finding(validated' # "valid")
  <2> DEFINE error == validated' # "valid"
  <2>1. ASSUME ~error PROVE Pure(next, pass)
    <3>1. "unknown" \in Seen /\ validated = "valid"
      BY <1>2, <2>1
    <3>2. pass = 1
      BY <1>t, <1>l, PassFacts DEF Pass, Looks, ChecksTypes
    <3>3. check = "jobs"
      BY <1>t, <1>l, <3>2 DEF Pass, Passes, Checks, ChecksTypes
    <3>4. \E j \in 1..(next - 1) : {"invalid", "unknown"} \cap entries[j] = {}
      BY <1>t, <3>1, <3>2, <3>3 DEF LastValid
    <3>5. "invalid" \notin entries[next]
      <4>1. entries[next] \in Entries(check)
        BY <1>t, <1>l DEF ChecksTypes
      <4> QED BY <1>l, <3>1, <4>1, EntryFacts
    <3>6. \A f \in Seen : f = "unknown"
      BY <1>l, <3>5
    <3> QED BY <3>4, <3>6 DEF Pure, Overlooked, Seen, Pass
  <2>2. error \in BOOLEAN /\ Finding(error) /\ (error => Seen # {}) /\ (validated' = "valid" => validated = "valid")
    BY <1>2
  <2> HIDE DEF error
  <2> QED BY <1>l, <2>1, <2>2, FindingKeeps
<1> QED BY <1>1, <1>2 DEF ValidateJob

(* So does the end of a pass: all its entries have been looked at. *)
LEMMA EndPassKeeps ==
    ASSUME ChecksInv, EndPass
    PROVE  ChecksInv'
<1>t. ChecksTypes /\ Within /\ LookedAt /\ LastValid
  BY DEF ChecksInv
<1>u. /\ verdict = "none" /\ next > Len(entries) /\ UNCHANGED <<check, entries, jobList, validated>>
      /\ errors' = (found \/ errors) /\ found' = FALSE /\ next' = 1 /\ pass' = pass + 1
      /\ verdict' = (IF pass < Len(Passes(check)) THEN "none" ELSE IF errors' THEN "fail" ELSE "pass")
  BY DEF EndPass
<1>p. /\ Len(Passes(check)) \in Nat /\ Len(entries) \in Nat /\ pass \in Nat /\ pass >= 1
      /\ next = Len(entries) + 1 /\ pass <= Len(Passes(check))
  BY <1>t, <1>u, PassFacts DEF ChecksTypes, Within
<1>1. ChecksTypes' /\ Within'
  <2>1. errors' \in BOOLEAN /\ verdict' \in {"none", "pass", "fail"}
    BY <1>t, <1>u DEF ChecksTypes
  <2>2. pass' \in Nat /\ pass' >= 1 /\ next' \in Nat /\ next' >= 1
    BY <1>u, <1>p
  <2>3. ChecksTypes'
    BY <1>t, <1>u, <2>1, <2>2 DEF ChecksTypes
  <2>4. verdict' = "none" => pass < Len(Passes(check))
    BY <1>u
  <2> QED BY <1>u, <1>p, <2>3, <2>4 DEF Within
<1>2. \A i, q : Pure(i, q) => Pure(i, q)'
  BY <1>u DEF Pure, Overlooked
<1>3. ASSUME ~errors', NEW q \in 1..pass, NEW i \in 1..Len(entries) PROVE Pure(i, q)
  <2>1. CASE q = pass
    <3>1. i \in 1..(next - 1)
      BY <1>p
    <3> QED BY <1>t, <1>u, <1>3, <2>1, <3>1 DEF LookedAt
  <2>2. CASE q # pass
    <3>1. q \in 1..(pass - 1)
      BY <1>p, <2>2
    <3> QED BY <1>t, <1>u, <1>3, <3>1 DEF LookedAt
  <2> QED BY <2>1, <2>2
<1>4. LookedAt'
  <2>1. pass' - 1 = pass /\ next' - 1 = 0
    BY <1>p, <1>u
  <2>2. \A i \in 1..(next' - 1) : FALSE
    BY <2>1
  <2>3. verdict' = "pass" => pass' = Len(Passes(check)) + 1 /\ ~errors'
    BY <1>u, <1>p
  <2>4. errors' \/ verdict' = "fail" => \E i \in 1..Len(entries) : entries[i] # {}
    BY <1>t, <1>u DEF LookedAt
  <2>5. ~errors' => \A q \in 1..(pass' - 1) : \A i \in 1..Len(entries) : Pure(i, q)'
    BY <1>2, <1>3, <2>1
  <2> QED BY <1>u, <2>2, <2>3, <2>4, <2>5 DEF LookedAt
<1>5. LastValid'
  BY <1>u, <1>p DEF LastValid
<1> QED BY <1>1, <1>4, <1>5 DEF ChecksInv

(* So every step of a check keeps it. *)
LEMMA ChecksKept == ChecksInv /\ [ChecksNext]_checksVars => ChecksInv'
<1> SUFFICES ASSUME ChecksInv, [ChecksNext]_checksVars PROVE ChecksInv'
  OBVIOUS
<1>1. CASE UNCHANGED checksVars
  BY <1>1 DEF checksVars, ChecksInv, ChecksTypes, Within, LookedAt, LastValid, Pure, Overlooked
<1>2. CASE CheckProject
  <2>1. Looks /\ ((Seen # {} /\ Raises) \/ (Finding(Seen # {}) /\ UNCHANGED validated))
    BY <1>2 DEF CheckProject
  <2> QED BY <2>1, ExceptionKeeps, SeenIsError
<1>3. CASE CheckChannel
  <2>1. Looks /\ ((Seen # {} /\ Raises) \/ (Finding(Seen # {}) /\ UNCHANGED validated))
    BY <1>3 DEF CheckChannel
  <2> QED BY <2>1, ExceptionKeeps, SeenIsError
<1>4. CASE CheckAlphabetical \/ CheckAccessbot \/ CheckLayout
  BY <1>4, SeenIsError DEF CheckAlphabetical, CheckAccessbot, CheckLayout
<1>5. CASE CheckJob
  <2> DEFINE error == jobList /\ Seen # {}
  <2>1. Looks /\ Finding(error) /\ UNCHANGED validated /\ (error => Seen # {}) /\ error \in BOOLEAN
    BY <1>5 DEF CheckJob, ChecksInv, ChecksTypes
  <2>2. ASSUME ~error PROVE Pure(next, pass)
    <3>1. CASE Seen = {}
      BY <3>1 DEF Pure, Seen, Pass
    <3>2. CASE ~jobList
      BY <1>5, <3>2, FaultFacts DEF CheckJob, Pure, Pass, Overlooked
    <3> QED BY <2>2, <3>1, <3>2
  <2> HIDE DEF error
  <2> QED BY <2>1, <2>2, FindingKeeps
<1>6. CASE ValidateJob
  BY <1>6, ValidateJobKeeps
<1>7. CASE EndPass
  BY <1>7, EndPassKeeps
<1> QED BY <1>1, <1>2, <1>3, <1>4, <1>5, <1>6, <1>7 DEF ChecksNext

(* What the invariant says at the end is that the verdict is right. *)
LEMMA ChecksAreRight == ChecksInv => VerdictIsRight
<1> SUFFICES ASSUME ChecksInv PROVE VerdictIsRight
  OBVIOUS
<1>t. ChecksTypes /\ LookedAt /\ DOMAIN entries = 1..Len(entries)
  BY DEF ChecksInv, ChecksTypes
<1>1. ASSUME verdict = "pass", NEW i \in 1..Len(entries), NEW f \in entries[i] PROVE Overlooked(i, f)
  <2>1. f \in FaultsOf(check)
    <3>1. entries[i] \in Entries(check)
      BY <1>t DEF ChecksTypes
    <3> QED BY <3>1, EntryFacts
  <2>2. PICK q \in 1..Len(Passes(check)) : f \in Faults(Passes(check)[q])
    BY <1>t, <2>1, PassFacts DEF ChecksTypes
  <2>3. q \in 1..(pass - 1) /\ ~errors
    BY <1>t, <1>1, PassFacts DEF LookedAt, ChecksTypes
  <2>4. Pure(i, q)
    BY <1>t, <1>1, <2>3 DEF LookedAt
  <2> QED BY <2>2, <2>4 DEF Pure
<1> QED BY <1>t, <1>1 DEF VerdictIsRight, LookedAt

(* A change that passes has no fault in any entry, of any pass, but for     *)
(* those the passes overlook, and one that is refused has some.             *)
THEOREM VerdictsAreRight == ChecksSpec => []VerdictIsRight
<1>1. ChecksInit => ChecksInv
  BY ChecksStart
<1>2. ChecksInv /\ [ChecksNext]_checksVars => ChecksInv'
  BY ChecksKept
<1>3. ChecksInv => VerdictIsRight
  BY ChecksAreRight
<1> QED BY <1>1, <1>2, <1>3, PTL DEF ChecksSpec

-----------------------------------------------------------------------------
(* THE REQUIREMENTS CHECK: any packages, files and lines.                   *)

(* The types of the variables that change. *)
ReqsTypes ==
    /\ head \in Listings(HeadLines) /\ branch \in Listings(BranchLines)
    /\ global \in [Packages -> GlobalReqs] /\ local \in BOOLEAN
    /\ files \in SetToSeqs(Files) /\ toValidate \subseteq Files \X Packages
    /\ stage \in {"start", "head", "branch", "validate", "exit 0", "exit 1", "raised"}
    /\ mainFailed \in BOOLEAN /\ headFailed \in BOOLEAN /\ branchFailed \in BOOLEAN

Harmless == head = branch /\ ~local /\ SaysTheSame(head) /\ ~Process(head)

(* Nothing fails for a change that says what its branch says; and what is   *)
(* not to be validated any more has been accepted, or has failed.           *)
ReqsInv ==
    /\ ReqsTypes
    /\ Harmless => ~mainFailed /\ ~headFailed /\ ~branchFailed
    /\ \A fp \in toValidate : head[fp] # <<>>
    /\ stage \in {"branch", "validate", "exit 0"} /\ ~mainFailed =>
          \A f \in Files, p \in Packages :
              <<f, p>> \in toValidate \/ head[<<f, p>>] = <<>> \/ Accepts(f, p)
    /\ stage = "exit 0" => toValidate = {} /\ ~mainFailed
    /\ stage = "exit 1" => mainFailed \/ headFailed \/ branchFailed

(* Every file is somewhere in the order in which they are merged. *)
LEMMA EveryFileMerged ==
    ASSUME ReqsTypes
    PROVE  /\ Cardinality(Files) \in Nat /\ files \in [1..Cardinality(Files) -> Files]
           /\ \A f \in Files : \E i \in 1..Cardinality(Files) : files[i] = f
<1> DEFINE n == Cardinality(Files)
           D == 1..n
<1>1. n \in Nat /\ IsFiniteSet(Files)
  BY ReqsAssumption, FS_CardinalityType
<1>2. files \in [D -> Files] /\ \A i, j \in D : i # j => files[i] # files[j]
  BY DEF ReqsTypes, SetToSeqs
<1>3. IsFiniteSet(D) /\ Cardinality(D) = n
  BY <1>1, FS_Interval, 1 \in Int, n \in Int
<1>4. files \in Injection(D, Files)
  BY <1>2 DEF Injection, IsInjective
<1>5. files \in Surjection(D, Files)
  <2> HIDE DEF D
  <2> QED  BY <1>1, <1>3, <1>4, FS_Injection
<1> QED  BY <1>1, <1>2, <1>5 DEF Surjection

(* When the files agree, what they are merged to is what any of them says. *)
LEMMA MergedIsSaid ==
    ASSUME ReqsTypes, SaysTheSame(head), NEW f \in Files, NEW p \in Packages,
           head[<<f, p>>] # <<>>
    PROVE  Merged(head, p) = Reqs(head, f, p)
<1> DEFINE n == Cardinality(Files)
           places == Listed(head, p)
<1>1. n \in Nat /\ files \in [1..n -> Files]
  BY EveryFileMerged
<1>2. places \subseteq 1..n /\ places # {}
  <2>1. places \subseteq 1..n
    BY <1>1 DEF Listed
  <2>2. PICK i \in 1..n : files[i] = f
    BY EveryFileMerged
  <2> QED  BY <2>1, <2>2, <1>1 DEF Listed
<1>3. PICK i \in places : \A j \in places : j <= i
  <2> HIDE DEF places
  <2> QED  BY <1>1, <1>2, LastPosition
<1>4. i \in LastListed(head, p)
  BY <1>3 DEF LastListed
<1>5. ASSUME NEW k \in LastListed(head, p)
      PROVE  Reqs(head, files[k], p) = Reqs(head, f, p)
  <2>1. k \in 1..n /\ head[<<files[k], p>>] # <<>>
    BY <1>2 DEF LastListed, Listed
  <2>2. files[k] \in Files
    BY <2>1, <1>1
  <2> QED  BY <2>1, <2>2 DEF SaysTheSame
<1> QED  BY <1>4, <1>5 DEF Merged

(* What the branch's lists are merged to is nothing, or what one of them says. *)
LEMMA MergedFromOne ==
    ASSUME ReqsTypes, NEW p \in Packages
    PROVE  \/ Merged(Branch, p) = {}
           \/ ~local /\ \E g \in Files : Merged(Branch, p) = Reqs(branch, g, p)
<1> DEFINE n == Cardinality(Files)
<1>1. n \in Nat /\ files \in [1..n -> Files]
  BY EveryFileMerged
<1>2. CASE local
  <2>1. \A i \in 1..n : Branch[<<files[i], p>>] = <<>>
    BY <1>1, <1>2 DEF Branch, NoTree
  <2>2. Listed(Branch, p) = {}
    BY <2>1, <1>1 DEF Listed
  <2>3. LastListed(Branch, p) = {}
    BY <2>2 DEF LastListed
  <2> QED  BY <2>3 DEF Merged
<1>3. CASE ~local /\ LastListed(branch, p) = {}
  BY <1>3 DEF Merged, Branch
<1>4. CASE ~local /\ LastListed(branch, p) # {}
  <2>1. PICK i \in LastListed(branch, p) : TRUE
    BY <1>4
  <2>2. \A k \in LastListed(branch, p) : k \in 1..n /\ k <= i /\ i <= k
    BY <2>1, <1>1 DEF LastListed, Listed
  <2>3. LastListed(branch, p) = {i}
    BY <2>1, <2>2, <1>1
  <2>4. Merged(branch, p) = Reqs(branch, files[i], p)
    BY <2>3 DEF Merged
  <2> QED  BY <2>2, <2>1, <2>4, <1>1, <1>4 DEF Branch
<1> QED  BY <1>2, <1>3, <1>4

(* A change that says what its branch says is accepted. *)
LEMMA HarmlessAccepted ==
    ASSUME ReqsTypes, Harmless, NEW f \in Files, NEW p \in Packages, head[<<f, p>>] # <<>>
    PROVE  Accepts(f, p)
<1>1. Branch = head
  BY DEF Harmless, Branch
<1>2. Merged(head, p) = Reqs(head, f, p)
  BY MergedIsSaid DEF Harmless
<1> QED  BY <1>1, <1>2 DEF Accepts

(* Nothing has been read, and nothing has failed, when the check starts. *)
LEMMA ReqsStart == ReqsInit => ReqsInv
<1> SUFFICES ASSUME ReqsInit PROVE ReqsInv
  OBVIOUS
<1>1. ReqsTypes
  BY DEF ReqsInit, ReqsTypes
<1> QED  BY <1>1 DEF ReqsInit, ReqsInv

(* Reading either side and judging one line after the other keep the         *)
(* invariant.                                                                *)
LEMMA ReqsKept == ReqsInv /\ [ReqsNext]_reqsVars => ReqsInv'
<1> SUFFICES ASSUME ReqsInv, [ReqsNext]_reqsVars PROVE ReqsInv'
  OBVIOUS
<1> DEFINE ListsJudged == \A f \in Files, p \in Packages :
              <<f, p>> \in toValidate \/ head[<<f, p>>] = <<>> \/ Accepts(f, p)
<1>0. UNCHANGED givenReqs
  BY DEF reqsVars, ReqsNext, Prepare, ProcessHead, ProcessBranch, Validate, Report
<1> USE DEF givenReqs, failVars
<1>a. Harmless' = Harmless
  BY <1>0 DEF Harmless, SaysTheSame, Process, Reqs
<1>b. \A f \in Files, p \in Packages : Accepts(f, p)' = Accepts(f, p)
  BY <1>0 DEF Accepts, Merged, LastListed, Listed, Branch, Reqs, Matches, InGlobal, CountFor
<1>1. CASE Prepare
  <2>1. ReqsTypes' /\ (\A fp \in toValidate : head[fp] # <<>>)'
    BY <1>1 DEF Prepare, CommandFails, ReqsInv, ReqsTypes
  <2>2. stage' \in {"raised", "head"} /\ UNCHANGED failVars
    BY <1>1 DEF Prepare, CommandFails
  <2> QED  BY <1>a, <2>1, <2>2 DEF ReqsInv
<1>2. CASE ProcessHead
  <2>1. ReqsTypes' /\ (\A fp \in toValidate : head[fp] # <<>>)'
    BY <1>2 DEF ProcessHead, CommandFails, ReqsInv, ReqsTypes, Process
  <2>2. Harmless => ~headFailed' /\ ~mainFailed' /\ ~branchFailed'
    BY <1>2 DEF ProcessHead, CommandFails, ReqsInv, Harmless
  <2>3. stage' \in {"raised", "branch"}
    BY <1>2 DEF ProcessHead, CommandFails
  <2>4. stage' = "branch" => ListsJudged'
    BY <1>0, <1>2 DEF ProcessHead, CommandFails
  <2> QED  BY <1>a, <2>1, <2>2, <2>3, <2>4 DEF ReqsInv
<1>3. CASE ProcessBranch
  <2>1. ReqsTypes' /\ (\A fp \in toValidate : head[fp] # <<>>)'
    BY <1>3 DEF ProcessBranch, CommandFails, ReqsInv, ReqsTypes, Process
  <2>2. Harmless => ~headFailed' /\ ~mainFailed' /\ ~branchFailed'
    BY <1>3 DEF ProcessBranch, CommandFails, ReqsInv, Harmless, Branch
  <2>3. stage' \in {"raised", "validate"}
    BY <1>3 DEF ProcessBranch, CommandFails
  <2>4. ~mainFailed' /\ stage' = "validate" => ListsJudged'
    <3>1. stage' = "validate" => UNCHANGED <<toValidate, mainFailed>>
      BY <1>3 DEF ProcessBranch, CommandFails
    <3>2. ~mainFailed => ListsJudged
      BY <1>3 DEF ProcessBranch, ReqsInv
    <3>3. UNCHANGED toValidate /\ ListsJudged => ListsJudged'
      BY <1>0, <1>b
    <3> HIDE DEF ListsJudged
    <3> QED  BY <3>1, <3>2, <3>3
  <2> QED  BY <1>a, <2>1, <2>2, <2>3, <2>4 DEF ReqsInv
<1>4. CASE Validate
  <2>1. PICK f \in Files, p \in Packages :
            /\ <<f, p>> \in toValidate /\ toValidate' = toValidate \ {<<f, p>>}
            /\ mainFailed' = (mainFailed \/ ~Accepts(f, p))
    BY <1>4 DEF Validate
  <2>2. ReqsTypes' /\ (\A fp \in toValidate : head[fp] # <<>>)'
    BY <1>4, <2>1 DEF Validate, ReqsInv, ReqsTypes
  <2>3. Harmless => ~headFailed' /\ ~mainFailed' /\ ~branchFailed'
    BY <1>4, <2>1, HarmlessAccepted DEF Validate, ReqsInv
  <2>4. ASSUME ~mainFailed', NEW g \in Files, NEW q \in Packages
        PROVE  (<<g, q>> \in toValidate \/ head[<<g, q>>] = <<>> \/ Accepts(g, q))'
    <3>1. ~mainFailed /\ Accepts(f, p)
      BY <2>1, <2>4 DEF ReqsInv, ReqsTypes
    <3>2. <<g, q>> \in toValidate \/ head[<<g, q>>] = <<>> \/ Accepts(g, q)
      BY <1>4, <3>1 DEF ReqsInv, Validate
    <3> QED  BY <3>1, <3>2, <2>1, <1>0, <1>b
  <2>5. stage' = "validate"
    BY <1>4 DEF Validate
  <2> QED  BY <1>a, <2>2, <2>3, <2>4, <2>5 DEF ReqsInv
<1>5. CASE Report
  <2>1. ReqsTypes' /\ (\A fp \in toValidate : head[fp] # <<>>)' /\ UNCHANGED <<failVars, toValidate>>
    BY <1>5 DEF Report, ReqsInv, ReqsTypes
  <2>2. ~mainFailed => ListsJudged
    BY <1>5 DEF Report, ReqsInv
  <2>3. ListsJudged => ListsJudged'
    BY <1>0, <1>b, <2>1
  <2>4. /\ stage' \in {"exit 0", "exit 1"} /\ toValidate = {}
        /\ stage' = "exit 1" <=> mainFailed \/ headFailed \/ branchFailed
    BY <1>5 DEF Report
  <2> QED  BY <1>a, <2>1, <2>2, <2>3, <2>4 DEF ReqsInv
<1>6. CASE UNCHANGED reqsVars
  BY <1>6, <1>a, <1>b DEF reqsVars, ReqsInv, ReqsTypes
<1> QED  BY <1>1, <1>2, <1>3, <1>4, <1>5, <1>6 DEF ReqsNext

(* The heart of it: the number of lines for an extra tells whether all of   *)
(* the global list is there, as long as extras do not overlap in part.      *)
LEMMA CountsTell ==
    ASSUME NEW reqs \in SUBSET Requirement, NEW p \in Packages, global[p] \in GlobalReqs,
           \A r \in reqs : InGlobal(r, p), Apart(reqs), NEW r \in reqs,
           \A e \in ExtrasOf(r) : CountFor(reqs, e) = Cardinality(global[p])
    PROVE  Versions({s \in reqs : s.extras = r.extras}) = Versions(global[p])
<1> DEFINE S == {s \in reqs : s.extras = r.extras}
           G == global[p]
           h == [s \in S |-> CHOOSE g \in G : g.version = s.version /\ g.comment = s.comment]
<1>1. \A s \in S : h[s] \in G /\ h[s].version = s.version /\ h[s].comment = s.comment
  BY DEF InGlobal
<1>2. ASSUME NEW s \in S, NEW t \in S, h[s] = h[t]
      PROVE  s = t
  <2>1. s.version = t.version /\ s.comment = t.comment /\ s.extras = t.extras
    BY <1>1, <1>2
  <2>2. s \in Requirement /\ t \in Requirement
    OBVIOUS
  <2> QED  BY <2>1, <2>2 DEF Requirement
<1>3. h \in Injection(S, G)
  BY <1>1, <1>2 DEF Injection, IsInjective
<1>4. \E e \in ExtrasOf(r) : {s \in reqs : e \in ExtrasOf(s)} = S
  <2>0. \A s \in reqs : s.extras \subseteq ExtraNames /\ "no extra" \notin s.extras
    BY ReqsAssumption DEF Requirement
  <2>1. CASE r.extras = {}
    BY <2>0, <2>1 DEF ExtrasOf
  <2>2. CASE r.extras # {}
    <3>1. PICK e \in r.extras : TRUE
      BY <2>2
    <3>2. \A s \in reqs : e \in ExtrasOf(s) <=> e \in s.extras
      BY <2>0, <3>1 DEF ExtrasOf
    <3>3. \A s \in reqs : e \in s.extras <=> s.extras = r.extras
      BY <3>1 DEF Apart
    <3>4. e \in ExtrasOf(r)
      BY <3>1 DEF ExtrasOf
    <3> QED  BY <3>2, <3>3, <3>4
  <2> QED  BY <2>1, <2>2
<1>5. Cardinality(S) = Cardinality(G)
  BY <1>4 DEF CountFor
<1>6. IsFiniteSet(G)
  BY ReqsAssumption
<1>7. h \in Surjection(S, G)
  <2> HIDE DEF S, G, h
  <2> QED  BY <1>3, <1>5, <1>6, FS_Injection
<1>8. \A g \in G : \E s \in S : h[s] = g
  BY <1>7 DEF Surjection
<1>9. Versions(S) = Versions(G)
  <2> HIDE DEF S, G, h
  <2>1. \A s \in S : \E g \in G : <<s.version, s.comment>> = <<g.version, g.comment>>
    BY <1>1
  <2>2. \A g \in G : \E s \in S : <<s.version, s.comment>> = <<g.version, g.comment>>
    BY <1>1, <1>8
  <2> QED  BY <2>1, <2>2 DEF Versions
<1> QED  BY <1>9

(* What validate_format and the comparison with global-requirements let      *)
(* through is one of the four cases in which a line may pass.                *)
LEMMA AcceptedIsJustified ==
    ASSUME ReqsTypes, NEW f \in Files, NEW p \in Packages, Accepts(f, p)
    PROVE  LET reqs == Reqs(head, f, p) IN
           \/ reqs = {}
           \/ ~local /\ \E g \in Files : reqs = Reqs(branch, g, p)
           \/ reqs = global[p]
           \/ /\ Versions(reqs) \subseteq Versions(global[p])
              /\ Apart(reqs) => \A r \in reqs :
                    Versions({s \in reqs : s.extras = r.extras}) = Versions(global[p])
<1> DEFINE reqs == Reqs(head, f, p)
<1>1. reqs \in SUBSET Requirement
  <2>1. head[<<f, p>>] \in Seq(Requirement)
    BY ReqsAssumption DEF ReqsTypes, Listings
  <2> QED  BY <2>1 DEF Reqs, Range
<1>2. CASE reqs = Merged(Branch, p)
  BY <1>2, MergedFromOne
<1>3. CASE Matches(reqs, p) /\ reqs # global[p]
  <2>1. \A r \in reqs : InGlobal(r, p) /\ \A e \in ExtrasOf(r) : CountFor(reqs, e) = Cardinality(global[p])
    BY <1>3 DEF Matches
  <2>2. Versions(reqs) \subseteq Versions(global[p])
    BY <2>1 DEF Versions, InGlobal
  <2>3. global[p] \in GlobalReqs
    BY DEF ReqsTypes
  <2>4. ASSUME Apart(reqs), NEW r \in reqs
        PROVE  Versions({s \in reqs : s.extras = r.extras}) = Versions(global[p])
    <3> HIDE DEF reqs
    <3> QED  BY <1>1, <2>1, <2>3, <2>4, CountsTell
  <2> QED  BY <2>2, <2>4
<1> QED  BY <1>2, <1>3 DEF Accepts

(* So the exit code at the end is justified. *)
LEMMA ReqsInvJustifies == ReqsInv => VerdictIsJustified
<1> SUFFICES ASSUME ReqsInv PROVE VerdictIsJustified
  OBVIOUS
<1>1. NoFalseAlarm
  BY DEF ReqsInv, NoFalseAlarm, Harmless
<1>2. ASSUME stage = "exit 0", NEW f \in Files, NEW p \in Packages
      PROVE  Reqs(head, f, p) = {} \/ Accepts(f, p)
  <2>1. head[<<f, p>>] = <<>> \/ Accepts(f, p)
    BY <1>2 DEF ReqsInv
  <2> QED  BY <2>1 DEF Reqs, Range
<1>3. PassIsJustified
  BY <1>2, AcceptedIsJustified DEF PassIsJustified, ReqsInv
<1> QED  BY <1>1, <1>3 DEF VerdictIsJustified

(* The requirements check is right in both directions: a change that leaves *)
(* its requirements as they are is not refused, and what passes is in the   *)
(* branch or is what the global list has, for any packages, files, lines    *)
(* and global lists.                                                        *)
THEOREM RequirementsVerdict == ReqsSpec => []VerdictIsJustified
<1>1. ReqsSpec => []ReqsInv
  BY ReqsStart, ReqsKept, PTL DEF ReqsSpec
<1> QED  BY <1>1, ReqsInvJustifies, PTL

-----------------------------------------------------------------------------
(* THE PROJECT RENAMES: any projects, ACL files and lists of names.         *)

RenameTypes ==
    /\ projects \in [ProjectNames -> {"stackforge", "openstack"}]
    /\ aclConfig \in [ProjectNames -> Repositories \cup {NoAcl}]
    /\ jobs \in Seq(Seq(Mention)) /\ toWrite \subseteq Yaml
    /\ doing \in {"load", "yaml", "jobs", "moves", "done", "died"}

(* The names of a file are the new ones once the file has been written. *)
ProjectsClean == \A n \in ProjectNames : Project(n) \notin StackList
LineClean(words) ==
    \A i \in DOMAIN words : words[i].repo \in StackList =>
        \/ words[i].follows = "other"
        \/ \E j \in DOMAIN words : j < i /\ words[j].repo = Moved(words[i].repo)
NamesWritten(f) == doing \in {"jobs", "moves", "done"} \/ (doing = "yaml" /\ f \notin toWrite)

NamesInv ==
    /\ NamesWritten("projects") => ProjectsClean
    /\ NamesWritten("channels") => StackList \cap ircChannels = {}
    /\ NamesWritten("layout") => StackList \cap layout = {}
    /\ doing \in {"moves", "done"} => \A l \in DOMAIN jobs : LineClean(jobs[l])

(* Where the ACL of a project is to be found in the end. *)
EndAcl(n) == IF n \in given.renamed THEN Moved(given.acl[n]) ELSE given.acl[n]
Sources == {given.acl[n] : n \in given.renamed}
GivenAcls == DOMAIN given.acls

GivenTypes ==
    /\ \A n \in ProjectNames : given.acl[n] \in Repositories
    /\ GivenAcls \subseteq Repositories /\ given.renamed \subseteq ProjectNames

(* Each file is where it was, or where it is to be; one that is still to be *)
(* moved, and can be, is on the list.                                       *)
AtHome(f) == f \in GivenAcls /\ acls[f] = f
Settled(f) == \E s \in Sources \cap GivenAcls :
    s[1] = "stackforge" /\ f = Moved(s) /\ s \notin DOMAIN acls /\ f \notin GivenAcls /\ acls[f] = s
AclsPlaced ==
    /\ \A f \in DOMAIN acls : AtHome(f) \/ Settled(f)
    /\ \A f \in GivenAcls \ DOMAIN acls : f[1] = "stackforge" /\ Moved(f) \in DOMAIN acls \ GivenAcls
    /\ \A m \in gitmoves : \E s \in Sources : m = <<s, Moved(s)>>

AclInv ==
    /\ GivenTypes /\ AclsPlaced
    /\ doing = "load" \/ (doing = "yaml" /\ "projects" \in toWrite) =>
          (\A n \in ProjectNames : Acl(n) = given.acl[n]) /\ Renamed = given.renamed
    /\ NamesWritten("projects") => \A n \in ProjectNames : Acl(n) = EndAcl(n)
    /\ doing = "load" => acls = given.acls
    /\ doing \in {"yaml", "jobs", "moves", "done"} =>
          \A g \in Sources \cap DOMAIN acls :
              g \in GivenAcls /\ Moved(g) \notin GivenAcls => <<g, Moved(g)>> \in gitmoves
    /\ doing = "done" => gitmoves = {}

RenameInv == RenameTypes /\ NamesInv /\ (~stopped => AclInv)

(* A renamed repository, of either kind, is a repository outside             *)
(* stackforge.                                                               *)
LEMMA Clean ==
    ASSUME NEW r \in Repositories
    PROVE  /\ Moved(r) \in Repositories /\ Moved(r) \notin StackList
           /\ New(r) \in Repositories /\ New(r) \notin StackList /\ New(r)[2] = r[2]
  BY DEF Repositories, Moved, New, StackList, Repo

(* The invariant holds of the files as they are given. *)
LEMMA RenameStart == RenameInit => RenameInv
<1> SUFFICES ASSUME RenameInit PROVE RenameInv
  OBVIOUS
<1>1. RenameTypes
  BY RenameAssumption DEF RenameInit, RenameTypes
<1>2. NamesInv
  BY DEF RenameInit, NamesInv, NamesWritten
<1>3. PICK repos \in SUBSET Repositories : acls = [f \in repos |-> f]
  BY DEF RenameInit
<1>4. given.acls = acls /\ given.acl = [n \in ProjectNames |-> Acl(n)] /\ given.renamed = Renamed
  BY DEF RenameInit
<1>5. GivenTypes
  <2>1. \A n \in ProjectNames : Acl(n) \in Repositories
    BY <1>1 DEF RenameTypes, Acl, Project, Repo, Repositories
  <2> QED  BY <1>3, <1>4, <2>1 DEF GivenTypes, GivenAcls, Renamed
<1>6. AclsPlaced
  BY <1>3, <1>4 DEF AclsPlaced, GivenAcls, AtHome, RenameInit
<1>7. AclInv
  BY <1>4, <1>5, <1>6 DEF AclInv, RenameInit, NamesWritten
<1> QED  BY <1>1, <1>2, <1>7 DEF RenameInv

(* The names after a step. *)
LEMMA LoadNames == RenameTypes /\ NamesInv /\ (Load \/ Stop) => RenameTypes' /\ NamesInv'
<1> SUFFICES ASSUME RenameTypes, NamesInv, Load \/ Stop PROVE RenameTypes' /\ NamesInv'
  OBVIOUS
<1>1. CASE Load
  BY <1>1 DEF Load, configVars, yamlVars, RenameTypes, NamesInv, NamesWritten, Yaml
<1>2. CASE Stop
  BY <1>2 DEF Stop, RenameTypes, NamesInv, NamesWritten
<1> QED  BY <1>1, <1>2

(* Writing the three yaml files leaves no name of stackforge in those        *)
(* written.                                                                  *)
LEMMA YamlNames == RenameTypes /\ NamesInv /\ WriteYaml => RenameTypes' /\ NamesInv'
<1> SUFFICES ASSUME RenameTypes, NamesInv, WriteYaml PROVE RenameTypes' /\ NamesInv'
  OBVIOUS
<1>1. CASE ~\E f \in toWrite \ truncated : RenameInYaml(f) /\ toWrite' = toWrite \ {f} /\ UNCHANGED doing
  <2>1. /\ UNCHANGED <<projects, aclConfig, ircChannels, layout, toWrite, renamelist, jobs>>
        /\ doing = "yaml" /\ (doing' = "died" \/ (doing' = "jobs" /\ toWrite = {}))
    BY <1>1 DEF WriteYaml
  <2>2. RenameTypes' /\ (ProjectsClean' = ProjectsClean) /\ (StackList' = StackList)
    BY <2>1 DEF RenameTypes, ProjectsClean, StackList, Project
  <2> QED  BY <2>1, <2>2 DEF NamesInv, NamesWritten
<1>2. CASE \E f \in toWrite \ truncated : RenameInYaml(f) /\ toWrite' = toWrite \ {f} /\ UNCHANGED doing
  <2>1. PICK f \in toWrite \ truncated : RenameInYaml(f) /\ toWrite' = toWrite \ {f} /\ UNCHANGED doing
    BY <1>2
  <2>2. UNCHANGED <<renamelist, jobs, doing>> /\ doing = "yaml" /\ StackList' = StackList
    BY <2>1 DEF WriteYaml, StackList
  <2>3. CASE f = "projects"
    <3>1. RenameInProjects /\ UNCHANGED <<ircChannels, layout>>
      BY <2>1, <2>3 DEF RenameInYaml
    <3>2. \A n \in ProjectNames : Project(n) \in Repositories /\ Project(n)[2] = n
      BY DEF RenameTypes, Project, Repo, Repositories
    <3>3. \A n \in ProjectNames : projects'[n] = New(Project(n))[1]
      BY <3>1 DEF RenameInProjects
    <3>4. \A n \in ProjectNames : Project(n)' = New(Project(n))
      BY <3>2, <3>3, Clean DEF Project, Repo, Repositories
    <3>5. ProjectsClean'
      BY <2>2, <3>2, <3>4, Clean DEF ProjectsClean
    <3>6. projects' \in [ProjectNames -> {"stackforge", "openstack"}]
      BY <3>1, <3>2, Clean DEF RenameInProjects, Repositories
    <3>7. aclConfig' \in [ProjectNames -> Repositories \cup {NoAcl}]
      BY <3>1, Clean DEF RenameInProjects, RenameTypes
    <3>8. RenameTypes'
      BY <2>1, <2>2, <3>6, <3>7 DEF RenameTypes
    <3> QED  BY <2>1, <2>2, <2>3, <3>1, <3>5, <3>8 DEF NamesInv, NamesWritten
  <2>4. CASE f = "channels"
    <3>1. ircChannels' = Rename(ircChannels) /\ UNCHANGED <<projects, aclConfig, layout>>
      BY <2>1, <2>4 DEF RenameInYaml
    <3>2. StackList \cap Rename(ircChannels) = {}
      BY DEF Rename, New, StackList, Moved, Repo
    <3>3. RenameTypes' /\ ProjectsClean' = ProjectsClean
      BY <2>1, <2>2, <3>1 DEF RenameTypes, ProjectsClean, Project
    <3> QED  BY <2>1, <2>2, <2>4, <3>1, <3>2, <3>3 DEF NamesInv, NamesWritten
  <2>5. CASE f = "layout"
    <3>1. layout' = Rename(layout) /\ UNCHANGED <<projects, aclConfig, ircChannels>>
      BY <2>1, <2>5 DEF RenameInYaml
    <3>2. StackList \cap Rename(layout) = {}
      BY DEF Rename, New, StackList, Moved, Repo
    <3>3. RenameTypes' /\ ProjectsClean' = ProjectsClean
      BY <2>1, <2>2, <3>1 DEF RenameTypes, ProjectsClean, Project
    <3> QED  BY <2>1, <2>2, <2>5, <3>1, <3>2, <3>3 DEF NamesInv, NamesWritten
  <2> QED  BY <2>1, <2>3, <2>4, <2>5 DEF RenameTypes, Yaml
<1> QED  BY <1>1, <1>2

(* What sed leaves of a line. *)
LEMMA LineSubstituted ==
    ASSUME NEW words \in Seq(Mention)
    PROVE  Substituted(words) \in Seq(Mention) /\ LineClean(Substituted(words))
<1> DEFINE new == Substituted(words)
           Qualifies(r) == {i \in 1..Len(words) : words[i].repo = r /\ words[i].follows = "sep"}
<1>1. Len(words) \in Nat /\ DOMAIN words = 1..Len(words) /\ \A i \in 1..Len(words) : words[i] \in Mention
  OBVIOUS
<1>2. \A i \in 1..Len(words) : words[i].repo \in Repositories /\ [words[i] EXCEPT !.repo = Moved(@)] \in Mention
  BY <1>1, Clean DEF Mention
<1>3. /\ DOMAIN new = 1..Len(words)
      /\ \A i \in 1..Len(words) :
            new[i] = IF words[i].repo \in StackList
                        /\ (words[i].follows = "end" \/ (words[i].follows = "sep" /\ i = First(words, words[i].repo)))
                     THEN [words[i] EXCEPT !.repo = Moved(@)] ELSE words[i]
  BY <1>1 DEF Substituted
<1>4. new \in Seq(Mention)
  <2>1. \A i \in 1..Len(words) : new[i] \in Mention
    BY <1>1, <1>2, <1>3
  <2>2. new \in [1..Len(words) -> Mention]
    BY <1>1, <1>2 DEF Substituted
  <2> QED  BY <1>1, <2>2
<1>5. ASSUME NEW r, Qualifies(r) # {}
      PROVE  First(words, r) \in Qualifies(r) /\ \A j \in Qualifies(r) : First(words, r) <= j
  <2> DEFINE S == Qualifies(r)
  <2>1. PICK i \in S : \A j \in S : i <= j
    <3>1. S \subseteq 1..Len(words) /\ S # {}
      BY <1>5
    <3> HIDE DEF S
    <3> QED  BY <1>1, <3>1, FirstPosition
  <2>2. /\ i \in DOMAIN words /\ words[i].repo = r /\ words[i].follows = "sep"
        /\ \A j \in 1..(i - 1) : ~(words[j].repo = r /\ words[j].follows = "sep")
    BY <1>1, <2>1
  <2>3. /\ First(words, r) \in DOMAIN words /\ words[First(words, r)].repo = r /\ words[First(words, r)].follows = "sep"
        /\ \A j \in 1..(First(words, r) - 1) : ~(words[j].repo = r /\ words[j].follows = "sep")
    BY <2>2 DEF First
  <2> QED  BY <1>1, <2>3
<1>6. ASSUME NEW i \in 1..Len(words), new[i].repo \in StackList, new[i].follows # "other"
      PROVE  \E j \in 1..Len(words) : j < i /\ new[j].repo = Moved(new[i].repo)
  <2>1. new[i] = words[i]
    BY <1>1, <1>2, <1>3, <1>6, Clean DEF Mention
  <2>2. words[i].follows = "sep" /\ i # First(words, words[i].repo)
    BY <1>1, <1>3, <1>6, <2>1, Clean DEF Mention
  <2> DEFINE j == First(words, words[i].repo)
  <2>3. j \in Qualifies(words[i].repo) /\ j <= i
    BY <1>5, <2>2
  <2>4. j \in 1..Len(words) /\ words[j].repo = words[i].repo /\ words[j].follows = "sep" /\ j < i
    BY <1>1, <2>2, <2>3
  <2>5. new[j] = [words[j] EXCEPT !.repo = Moved(@)]
    BY <1>3, <1>6, <2>1, <2>4
  <2>6. new[j].repo = Moved(words[j].repo)
    BY <1>1, <2>4, <2>5 DEF Mention
  <2> QED  BY <2>1, <2>4, <2>6
<1>7. LineClean(new)
  <2> HIDE DEF new
  <2> QED  BY <1>3, <1>6 DEF LineClean
<1> QED  BY <1>4, <1>7

(* The pages of names and the ACL files are apart: while nothing is moved,  *)
(* or no name is changed, the other half of the invariant stays.            *)
LEMMA SedNames == RenameTypes /\ NamesInv /\ RenameWithSed => RenameTypes' /\ NamesInv'
<1> SUFFICES ASSUME RenameTypes, NamesInv, RenameWithSed PROVE RenameTypes' /\ NamesInv'
  OBVIOUS
<1>1. /\ UNCHANGED <<projects, aclConfig, ircChannels, layout, toWrite, renamelist>>
      /\ doing = "jobs" /\ doing' = "moves" /\ jobs' = [l \in DOMAIN jobs |-> Substituted(jobs[l])]
  BY DEF RenameWithSed, yamlVars
<1>2. Len(jobs) \in Nat /\ DOMAIN jobs = 1..Len(jobs) /\ \A l \in 1..Len(jobs) : jobs[l] \in Seq(Mention)
  BY DEF RenameTypes
<1>3. \A l \in 1..Len(jobs) : Substituted(jobs[l]) \in Seq(Mention) /\ LineClean(Substituted(jobs[l]))
  BY <1>2, LineSubstituted
<1>4. DOMAIN jobs' = 1..Len(jobs) /\ \A l \in 1..Len(jobs) : jobs'[l] = Substituted(jobs[l])
  BY <1>1, <1>2
<1>5. jobs' \in Seq(Seq(Mention))
  BY <1>1, <1>2, <1>3
<1>6. \A l \in DOMAIN jobs' : LineClean(jobs'[l])
  BY <1>3, <1>4
<1>7. (\A l \in DOMAIN jobs : LineClean(jobs[l]))'
  BY <1>6, <1>1 DEF LineClean, StackList
<1>8. RenameTypes' /\ ProjectsClean' = ProjectsClean /\ StackList' = StackList
  BY <1>1, <1>5 DEF RenameTypes, ProjectsClean, StackList, Project
<1> QED  BY <1>1, <1>7, <1>8 DEF NamesInv, NamesWritten

(* Moving an ACL file changes no name. *)
LEMMA MoveNames == RenameTypes /\ NamesInv /\ GitMv => RenameTypes' /\ NamesInv'
<1> SUFFICES ASSUME RenameTypes, NamesInv, GitMv PROVE RenameTypes' /\ NamesInv'
  OBVIOUS
<1>1. /\ UNCHANGED <<projects, aclConfig, ircChannels, layout, toWrite, renamelist, jobs>>
      /\ doing = "moves" /\ doing' \in {"moves", "done"}
  BY DEF GitMv, yamlVars
<1>2. RenameTypes' /\ ProjectsClean' = ProjectsClean /\ StackList' = StackList
  BY <1>1 DEF RenameTypes, ProjectsClean, StackList, Project
<1>3. (\A l \in DOMAIN jobs : LineClean(jobs[l])) => (\A l \in DOMAIN jobs : LineClean(jobs[l]))'
  BY <1>1 DEF LineClean, StackList
<1> QED  BY <1>1, <1>2, <1>3 DEF NamesInv, NamesWritten

(* The ACL files after a step of a run that was not stopped before. *)
LEMMA NothingMoves ==
    ASSUME AclInv, UNCHANGED <<acls, gitmoves, given>>
    PROVE  GivenTypes' /\ AclsPlaced'
  BY DEF AclInv, GivenTypes, GivenAcls, AclsPlaced, AtHome, Settled, Sources

(* While projects are renamed in memory nothing has been moved. *)
LEMMA LoadAcls == RenameTypes /\ AclInv /\ Load => AclInv'
<1> SUFFICES ASSUME RenameTypes, AclInv, Load PROVE AclInv'
  OBVIOUS
<1>1. /\ UNCHANGED <<projects, aclConfig, renamelist, acls, given>> /\ doing = "load"
      /\ \/ doing' = "died" /\ UNCHANGED <<gitmoves, toWrite>>
         \/ doing' = "yaml" /\ gitmoves' = GitMoves /\ toWrite' = Yaml
  BY DEF Load, configVars, yamlVars
<1>2. (\A n \in ProjectNames : Acl(n) = given.acl[n]) /\ Renamed = given.renamed /\ acls = given.acls
  BY <1>1 DEF AclInv
<1>3. Renamed' = Renamed /\ (\A n \in ProjectNames : Acl(n)' = Acl(n)) /\ GivenTypes' /\ GivenTypes
  BY <1>1 DEF Renamed, Project, StackList, Acl, AclInv, GivenTypes, GivenAcls
<1>4. CASE doing' = "died"
  <2>1. AclsPlaced'
    BY <1>1, <1>4, NothingMoves
  <2> QED  BY <1>1, <1>2, <1>3, <1>4, <2>1 DEF AclInv, NamesWritten
<1>5. CASE doing' = "yaml"
  <2>0. gitmoves' = GitMoves /\ toWrite' = Yaml
    BY <1>1, <1>5
  <2>1. \A m \in GitMoves : \E s \in Sources : m = <<s, Moved(s)>>
    BY <1>2, <1>3 DEF GitMoves, WithAcl, Sources, GivenTypes
  <2>2. \A g \in Sources \cap DOMAIN acls : <<g, Moved(g)>> \in GitMoves
    BY <1>2, <1>3 DEF GitMoves, WithAcl, Sources, GivenTypes
  <2>3. UNCHANGED <<Sources, GivenAcls>>
    BY <1>1 DEF Sources, GivenAcls
  <2>4. AclsPlaced'
    <3>1. (\A f \in DOMAIN acls : AtHome(f) \/ Settled(f))'
      BY <1>1 DEF AclInv, AclsPlaced, AtHome, Settled, Sources, GivenAcls
    <3>2. (\A f \in GivenAcls \ DOMAIN acls : f[1] = "stackforge" /\ Moved(f) \in DOMAIN acls \ GivenAcls)'
      BY <1>1, <2>3 DEF AclInv, AclsPlaced
    <3> QED  BY <2>0, <2>1, <2>3, <3>1, <3>2 DEF AclsPlaced
  <2> QED  BY <1>1, <1>2, <1>3, <1>5, <2>0, <2>2, <2>3, <2>4 DEF AclInv, NamesWritten, Yaml
<1> QED  BY <1>1, <1>4, <1>5

(* When the projects are written, every renamed one has its new ACL path,    *)
(* and the moves to make are known.                                          *)
LEMMA YamlAcls == RenameTypes /\ AclInv /\ WriteYaml => AclInv'
<1> SUFFICES ASSUME RenameTypes, AclInv, WriteYaml PROVE AclInv'
  OBVIOUS
<1>1. UNCHANGED <<acls, gitmoves, given, renamelist>> /\ doing = "yaml"
  BY DEF WriteYaml
<1>2. /\ GivenTypes /\ GivenTypes' /\ AclsPlaced' /\ UNCHANGED <<Sources, GivenAcls, StackList>>
      /\ \A n \in ProjectNames : EndAcl(n)' = EndAcl(n)
  BY <1>1, NothingMoves DEF AclInv, Sources, GivenAcls, StackList, EndAcl
<1>3. doing' \in {"yaml", "jobs", "died"}
  BY <1>1 DEF WriteYaml
<1>4. CASE /\ UNCHANGED <<projects, aclConfig>> /\ (NamesWritten("projects")' = NamesWritten("projects"))
           /\ doing' \in {"yaml", "jobs"} /\ (doing' = "yaml" /\ "projects" \in toWrite' => "projects" \in toWrite)
  <2>1. Renamed' = Renamed /\ \A n \in ProjectNames : Acl(n)' = Acl(n)
    BY <1>2, <1>4 DEF Renamed, Project, Acl
  <2> QED  BY <1>1, <1>2, <1>3, <1>4, <2>1 DEF AclInv
<1>5. CASE RenameInProjects /\ "projects" \in toWrite /\ toWrite' = toWrite \ {"projects"} /\ UNCHANGED doing
  <2>1. (\A n \in ProjectNames : Acl(n) = given.acl[n]) /\ Renamed = given.renamed
    BY <1>1, <1>5 DEF AclInv, NamesWritten
  <2>2. \A n \in ProjectNames : Project(n) \in Repositories /\ Project(n)[2] = n
    BY DEF RenameTypes, Project, Repo, Repositories
  <2>3. \A n \in ProjectNames : Project(n)' = IF n \in Renamed THEN Moved(Project(n)) ELSE Project(n)
    BY <1>5, <2>2, Clean DEF RenameInProjects, Renamed, New, Project, Repo, Repositories, Moved
  <2>4. ASSUME NEW n \in ProjectNames PROVE Acl(n)' = EndAcl(n)
    <3>1. aclConfig'[n] = IF n \in Renamed /\ aclConfig[n] # NoAcl THEN Moved(aclConfig[n]) ELSE aclConfig[n]
      BY <1>5 DEF RenameInProjects
    <3>2. aclConfig[n] # NoAcl => Moved(aclConfig[n]) # NoAcl
      BY RenameAssumption, Clean DEF RenameTypes
    <3> QED  BY <2>1, <2>3, <3>1, <3>2 DEF Acl, EndAcl
  <2>5. NamesWritten("projects")'
    BY <1>1, <1>5 DEF NamesWritten
  <2> QED  BY <1>1, <1>2, <1>5, <2>4, <2>5 DEF AclInv, NamesWritten
<1>6. CASE doing' = "died" /\ UNCHANGED toWrite
  BY <1>2, <1>6 DEF AclInv, NamesWritten
<1>7. CASE \E f \in toWrite : RenameInYaml(f) /\ toWrite' = toWrite \ {f} /\ UNCHANGED doing
  <2>1. PICK f \in toWrite : RenameInYaml(f) /\ toWrite' = toWrite \ {f} /\ UNCHANGED doing
    BY <1>7
  <2>2. CASE f = "projects"
    BY <1>5, <2>1, <2>2 DEF RenameInYaml
  <2>3. CASE f \in {"channels", "layout"}
    BY <1>1, <1>4, <2>1, <2>3 DEF RenameInYaml, NamesWritten
  <2> QED  BY <2>1, <2>2, <2>3 DEF RenameTypes, Yaml
<1>8. CASE toWrite = {} /\ doing' = "jobs" /\ UNCHANGED <<projects, aclConfig, toWrite>>
  BY <1>1, <1>4, <1>8 DEF NamesWritten
<1> QED  BY <1>6, <1>7, <1>8 DEF WriteYaml

(* The jobs file has nothing to do with the ACLs. *)
LEMMA SedAcls == RenameTypes /\ AclInv /\ RenameWithSed => AclInv'
<1> SUFFICES ASSUME RenameTypes, AclInv, RenameWithSed PROVE AclInv'
  OBVIOUS
<1>1. /\ UNCHANGED <<acls, gitmoves, given, renamelist, projects, aclConfig>>
      /\ doing = "jobs" /\ doing' = "moves"
  BY DEF RenameWithSed, yamlVars
<1>2. /\ GivenTypes' /\ AclsPlaced' /\ UNCHANGED <<Sources, GivenAcls>>
      /\ \A n \in ProjectNames : EndAcl(n)' = EndAcl(n) /\ Acl(n)' = Acl(n)
  BY <1>1, NothingMoves DEF AclInv, Sources, GivenAcls, EndAcl, Acl, Project
<1> QED  BY <1>1, <1>2 DEF AclInv, NamesWritten

(* Two files are never moved to the same place. *)
LEMMA MovedApart ==
    ASSUME NEW r \in Repositories, NEW s \in Repositories, r[1] = "stackforge", s[1] = "stackforge",
           Moved(r) = Moved(s)
    PROVE  r = s
  BY DEF Moved, Repositories

(* A move puts one file where its projects expect it, and no other is lost. *)
LEMMA MoveAcls == RenameTypes /\ AclInv /\ GitMv => AclInv'
<1> SUFFICES ASSUME RenameTypes, AclInv, GitMv PROVE AclInv'
  OBVIOUS
<1>1. /\ UNCHANGED <<given, renamelist, projects, aclConfig>>
      /\ doing = "moves" /\ doing' \in {"moves", "done"}
  BY DEF GitMv, yamlVars
<1>2. /\ GivenTypes /\ GivenTypes' /\ UNCHANGED <<Sources, GivenAcls>>
      /\ \A n \in ProjectNames : EndAcl(n)' = EndAcl(n) /\ Acl(n)' = Acl(n)
  BY <1>1 DEF AclInv, Sources, GivenTypes, GivenAcls, EndAcl, Acl, Project
<1>3. Sources \subseteq Repositories /\ GivenAcls \subseteq Repositories
  BY <1>2 DEF GivenTypes, Sources
<1>4. CASE gitmoves = {} /\ doing' = "done" /\ UNCHANGED <<acls, gitmoves>>
  <2>1. AclsPlaced'
    BY <1>1, <1>4, NothingMoves
  <2> QED  BY <1>1, <1>2, <1>4, <2>1 DEF AclInv, NamesWritten
<1>5. ASSUME NEW m \in gitmoves, gitmoves' = gitmoves \ {m}, doing' = doing, ~Moves(m[1], m[2]), acls' = acls
      PROVE  AclInv'
  <2>1. PICK s \in Sources : m = <<s, Moved(s)>>
    BY <1>5 DEF AclInv, AclsPlaced
  <2>2. AclsPlaced'
    BY <1>1, <1>2, <1>5 DEF AclInv, AclsPlaced, AtHome, Settled, Sources, GivenAcls
  <2>3. ASSUME NEW g \in Sources \cap DOMAIN acls, g \in GivenAcls, Moved(g) \notin GivenAcls
        PROVE  <<g, Moved(g)>> \in gitmoves'
    <3>1. <<g, Moved(g)>> \in gitmoves
      BY <1>1, <2>3 DEF AclInv
    <3>2. SUFFICES ASSUME m = <<g, Moved(g)>> PROVE FALSE
      BY <1>5, <3>1
    <3>3. Moved(g) \in DOMAIN acls
      BY <1>5, <2>3, <3>2 DEF Moves
    <3>4. Settled(Moved(g))
      BY <2>3, <3>3 DEF AclInv, AclsPlaced, AtHome
    <3>5. PICK s2 \in Sources \cap GivenAcls : s2[1] = "stackforge" /\ Moved(g) = Moved(s2) /\ s2 \notin DOMAIN acls
      BY <3>4 DEF Settled
    <3>6. g[1] = "stackforge"
      BY <1>3, <2>3 DEF Moved, Repositories
    <3> QED  BY <1>3, <2>3, <3>5, <3>6, MovedApart
  <2> QED  BY <1>1, <1>2, <1>5, <2>2, <2>3 DEF AclInv, NamesWritten
<1>6. ASSUME NEW m \in gitmoves, gitmoves' = gitmoves \ {m}, doing' = doing, Moves(m[1], m[2]),
             acls' = [f \in (DOMAIN acls \ {m[1]}) \cup {m[2]} |-> acls[IF f = m[2] THEN m[1] ELSE f]]
      PROVE  AclInv'
  <2>1. PICK s \in Sources : m = <<s, Moved(s)>>
    BY <1>6 DEF AclInv, AclsPlaced
  <2>2. /\ s \in Repositories /\ Moved(s) \in Repositories /\ s \in DOMAIN acls /\ Moved(s) \notin DOMAIN acls
        /\ s # Moved(s) /\ s[1] = "stackforge" /\ Moved(s)[1] = "openstack"
    BY <1>3, <1>6, <2>1, Clean DEF Moves, Moved, Repositories
  <2>3. /\ DOMAIN acls' = (DOMAIN acls \ {s}) \cup {Moved(s)} /\ acls'[Moved(s)] = acls[s]
        /\ \A f \in DOMAIN acls \ {s} : acls'[f] = acls[f]
    BY <1>6, <2>1, <2>2
  <2>4. AtHome(s)
    BY <2>2, <1>3 DEF AclInv, AclsPlaced, Settled, Moved
  <2>5. Moved(s) \notin GivenAcls
    BY <2>2 DEF AclInv, AclsPlaced
  <2>6. ASSUME NEW f \in DOMAIN acls' PROVE AtHome(f)' \/ Settled(f)'
    <3>1. CASE f = Moved(s)
      BY <1>2, <2>2, <2>3, <2>4, <2>5, <3>1 DEF AtHome, Settled
    <3>2. CASE f # Moved(s) /\ AtHome(f)
      BY <1>1, <1>2, <2>3, <3>2 DEF AtHome, GivenAcls
    <3>3. CASE f # Moved(s) /\ Settled(f)
      <4>1. PICK t \in Sources \cap GivenAcls : /\ t[1] = "stackforge" /\ f = Moved(t) /\ t \notin DOMAIN acls
                                                /\ f \notin GivenAcls /\ acls[f] = t
        BY <3>3 DEF Settled
      <4>2. t # Moved(s)
        BY <4>1, <2>2
      <4> QED  BY <1>2, <2>3, <3>3, <4>1, <4>2 DEF Settled
    <3> QED  BY <2>3, <3>1, <3>2, <3>3 DEF AclInv, AclsPlaced
  <2>7. ASSUME NEW f \in GivenAcls \ DOMAIN acls'
        PROVE  f[1] = "stackforge" /\ Moved(f) \in DOMAIN acls' \ GivenAcls
    <3>1. CASE f = s
      BY <2>2, <2>3, <2>5, <3>1
    <3>2. CASE f # s
      <4>1. f[1] = "stackforge" /\ Moved(f) \in DOMAIN acls \ GivenAcls
        BY <2>3, <2>7, <3>2 DEF AclInv, AclsPlaced
      <4> QED  BY <2>3, <2>4, <4>1 DEF AtHome
    <3> QED  BY <3>1, <3>2
  <2>8. AclsPlaced'
    <3>1. (\A f \in GivenAcls \ DOMAIN acls : f[1] = "stackforge" /\ Moved(f) \in DOMAIN acls \ GivenAcls)'
      BY <1>2, <2>7
    <3>2. (\A n \in gitmoves : \E t \in Sources : n = <<t, Moved(t)>>)'
      BY <1>2, <1>6 DEF AclInv, AclsPlaced
    <3> QED  BY <2>6, <3>1, <3>2 DEF AclsPlaced
  <2>9. ASSUME NEW g \in Sources \cap DOMAIN acls', g \in GivenAcls, Moved(g) \notin GivenAcls
        PROVE  <<g, Moved(g)>> \in gitmoves'
    <3>1. g # Moved(s) /\ g # s
      BY <2>2, <2>3, <2>5, <2>9
    <3>2. g \in DOMAIN acls
      BY <2>3, <3>1
    <3>3. <<g, Moved(g)>> \in gitmoves
      BY <1>1, <2>9, <3>2 DEF AclInv
    <3> QED  BY <1>6, <2>1, <3>1, <3>3
  <2> QED  BY <1>1, <1>2, <1>6, <2>8, <2>9 DEF AclInv, NamesWritten
<1> QED  BY <1>4, <1>5, <1>6 DEF GitMv

(* So every step of the renames keeps the invariant. *)
LEMMA RenameKeeps == RenameInv /\ [RenameNext]_renameVars => RenameInv'
<1> SUFFICES ASSUME RenameInv, [RenameNext]_renameVars PROVE RenameInv'
  OBVIOUS
<1> USE DEF RenameInv
<1>1. CASE Load
  BY <1>1, LoadNames, LoadAcls DEF Load
<1>2. CASE WriteYaml
  BY <1>2, YamlNames, YamlAcls DEF WriteYaml
<1>3. CASE RenameWithSed
  BY <1>3, SedNames, SedAcls DEF RenameWithSed
<1>4. CASE GitMv
  BY <1>4, MoveNames, MoveAcls DEF GitMv
<1>5. CASE Stop
  BY <1>5, LoadNames DEF Stop
<1>6. CASE UNCHANGED renameVars
  <2> USE <1>6 DEF renameVars, configVars, yamlVars
  <2>1. RenameTypes'
    BY DEF RenameTypes
  <2>2. NamesInv'
    BY DEF NamesInv, NamesWritten, ProjectsClean, Project, StackList, LineClean
  <2>3. AclInv => AclInv'
    <3>1. AclInv => GivenTypes' /\ AclsPlaced'
      BY NothingMoves
    <3> QED  BY <3>1 DEF AclInv, NamesWritten, Renamed, Project, StackList, Acl, EndAcl, Sources, GivenAcls
  <2> QED  BY <2>1, <2>2, <2>3
<1> QED  BY <1>1, <1>2, <1>3, <1>4, <1>5, <1>6 DEF RenameNext

(* And at the end it says that the renames are whole. *)
LEMMA RenameEndsWell == RenameInv => RenameIsWhole
<1> SUFFICES ASSUME RenameInv PROVE RenameIsWhole
  OBVIOUS
<1>1. NamesAgree
  BY DEF RenameInv, NamesInv, NamesAgree, NamesWritten, ProjectsClean, LineClean
<1>2. ASSUME doing = "done", ~stopped, NEW n \in ProjectNames, given.acl[n] \in DOMAIN given.acls,
             ~MovedAway(n), ~InTheWay(n)
      PROVE  Acl(n) \in DOMAIN acls /\ acls[Acl(n)] = given.acl[n]
  <2> DEFINE g == given.acl[n]
  <2>1. AclInv /\ GivenTypes /\ AclsPlaced /\ Acl(n) = EndAcl(n) /\ g \in Repositories /\ g \in GivenAcls
    BY <1>2 DEF RenameInv, AclInv, NamesWritten, GivenTypes, GivenAcls
  <2>2. \A s \in Sources \cap DOMAIN acls : s \in GivenAcls => Moved(s) \in GivenAcls
    BY <1>2, <2>1 DEF AclInv
  <2>3. CASE n \notin given.renamed
    <3>1. g \notin Sources
      BY <1>2, <2>3, <2>1 DEF MovedAway, Sources, GivenTypes
    <3>2. g \in DOMAIN acls
      <4>1. SUFFICES ASSUME g \notin DOMAIN acls PROVE FALSE
        OBVIOUS
      <4>2. g[1] = "stackforge" /\ Moved(g) \in DOMAIN acls \ GivenAcls
        BY <2>1, <4>1 DEF AclsPlaced
      <4>3. Settled(Moved(g))
        BY <2>1, <4>2 DEF AclsPlaced, AtHome
      <4>4. PICK t \in Sources \cap GivenAcls : t[1] = "stackforge" /\ Moved(g) = Moved(t)
        BY <4>3 DEF Settled
      <4> QED  BY <2>1, <3>1, <4>2, <4>4, MovedApart DEF GivenTypes
    <3>3. AtHome(g)
      BY <2>1, <3>2 DEF AclsPlaced, Settled
    <3> QED  BY <2>1, <2>3, <3>2, <3>3 DEF EndAcl, AtHome
  <2>4. CASE n \in given.renamed
    <3>1. g \in Sources /\ Acl(n) = Moved(g)
      BY <2>1, <2>4 DEF Sources, EndAcl
    <3>2. CASE Moved(g) = g
      <4>1. g[1] # "stackforge"
        BY <2>1, <3>2 DEF Moved, Repositories
      <4>2. g \in DOMAIN acls
        BY <2>1, <4>1 DEF AclsPlaced
      <4>3. AtHome(g)
        BY <2>1, <4>2 DEF AclsPlaced, Settled
      <4> QED  BY <3>1, <3>2, <4>2, <4>3 DEF AtHome
    <3>3. CASE Moved(g) # g
      <4>1. Moved(g) \notin GivenAcls
        BY <1>2, <2>4, <3>3 DEF InTheWay, GivenAcls
      <4>2. g \notin DOMAIN acls
        BY <2>1, <2>2, <3>1, <4>1
      <4>3. g[1] = "stackforge" /\ Moved(g) \in DOMAIN acls
        BY <2>1, <4>2 DEF AclsPlaced
      <4>4. Settled(Moved(g))
        BY <2>1, <4>1, <4>3 DEF AclsPlaced, AtHome
      <4>5. PICK t \in Sources \cap GivenAcls : t[1] = "stackforge" /\ Moved(g) = Moved(t) /\ acls[Moved(g)] = t
        BY <4>4 DEF Settled
      <4>6. t = g
        BY <2>1, <4>3, <4>5, MovedApart DEF GivenTypes
      <4> QED  BY <3>1, <4>3, <4>5, <4>6
    <3> QED  BY <3>2, <3>3
  <2> QED  BY <2>3, <2>4
<1>3. AclKept
  BY <1>2 DEF AclKept
<1> QED  BY <1>1, <1>3 DEF RenameIsWhole

(* At the end of a run of mass_rename_projects no file but those of jobs    *)
(* has an old name, and no project has lost its ACL but in the cases that   *)
(* AclKept lists: for any projects, ACL files, lines of jobs and names, in  *)
(* whatever order the files are written and moved, and stopped anywhere.    *)
THEOREM RenamesAreWhole == RenameSpec => []RenameIsWhole
<1>1. RenameSpec => []RenameInv
  BY RenameStart, RenameKeeps, PTL DEF RenameSpec
<1> QED  BY <1>1, RenameEndsWell, PTL

-----------------------------------------------------------------------------
(* THE GERRIT GROUPS: any repositories, groups and arguments.               *)

Included == (UNION {Plan[n].includes : n \in DOMAIN Plan}) \cup (UNION {o.includes : o \in UpdateOptions})
Places == {"read", "create", "reread", "include", "owner", "visible", "done", "died"}

GroupsTypes ==
    /\ groups \subseteq Groups /\ details \in [Groups -> Detail] /\ options \in UpdateOptions
    /\ at \in [Programs -> Places] /\ task \in [Programs -> Nat] /\ group \in [Programs -> Detail]
    /\ toInclude \in [Programs -> SUBSET Included]
    /\ task["maintain"] \in DOMAIN Plan /\ task["update"] = 1
    /\ again \in BOOLEAN /\ wrote \in BOOLEAN /\ seen \subseteq groups

HasGroup(t) == HasAll(t) \/ t.group \in excused

(* The groups behind maintain-infra-groups are as planned.                  *)
Behind ==
    at["maintain"] # "died" => \A n \in DOMAIN Plan :
        n < task["maintain"] \/ at["maintain"] = "done" => HasGroup(Plan[n]) /\ Plan[n].group \in seen

(* What it has read of its group still holds, and what it is past is done.  *)
Holds(t, read, left, where) ==
    LET d == details[t.group] IN
    /\ read.includes \subseteq d.includes /\ t.includes \ left \subseteq d.includes
    /\ read.owner = InfraPTL => d.owner = InfraPTL
    /\ read.visible => d.visible
    /\ where = "visible" => d.owner = InfraPTL
    /\ where \in {"owner", "visible"} => left = {}
Current ==
    LET t == Plan[task["maintain"]] IN
    at["maintain"] \in {"include", "owner", "visible"} =>
        /\ t.group \in seen
        /\ \/ t.group \in excused
           \/ Holds(t, group["maintain"], toInclude["maintain"], at["maintain"])

(* In a second run that nothing disturbs there is nothing to change.        *)
Unprovoked == again /\ excused = {} /\ at["update"] = "read"
Second ==
    LET t == Plan[task["maintain"]]
        read == group["maintain"] IN
    Unprovoked =>
        /\ ~wrote /\ \A n \in DOMAIN Plan : HasAll(Plan[n])
        /\ at["maintain"] \in {"include", "owner", "visible"} =>
              toInclude["maintain"] \subseteq read.includes /\ read.owner = InfraPTL /\ read.visible

GroupsInv == GroupsTypes /\ Behind /\ Current /\ Second

(* The plan is a sequence of tasks on groups the model knows of. *)
LEMMA PlanFacts ==
    /\ Len(Plan) \in Nat /\ Len(Plan) >= 1 /\ DOMAIN Plan = 1..Len(Plan)
    /\ \A n \in DOMAIN Plan : Plan[n].group \in Groups /\ Plan[n].includes \subseteq Included
<1> DEFINE L == Len(Repos)
<1>1. L \in Nat /\ DOMAIN Repos = 1..L
  BY GroupsAssumption
<1>2. DOMAIN Plan = 1..(2 * L + 1)
  BY DEF Plan
<1>3. Len(Plan) = 2 * L + 1
  BY <1>1, <1>2 DEF Plan
<1>4. ASSUME NEW n \in DOMAIN Plan PROVE Plan[n].group \in Groups
  <2>1. CASE n > 2 * L
    <3>1. Plan[n].group = Council
      BY <1>2, <2>1 DEF Plan
    <3> QED  BY <3>1 DEF Groups, Planned
  <2>2. CASE ~(n > 2 * L)
    <3>1. (n + 1) \div 2 \in 1..L
      BY <1>1, <1>2, <2>2
    <3> DEFINE r == Repos[(n + 1) \div 2]
               role == IF n % 2 = 1 THEN "core" ELSE "release"
    <3>2. Plan[n].group = <<r, role>>
      BY <1>2, <2>2 DEF Plan
    <3>3. r \in {Repos[i] : i \in DOMAIN Repos} /\ role \in Roles
      BY <1>1, <3>1 DEF Roles
    <3> QED  BY <3>2, <3>3 DEF Groups, Planned
  <2> QED  BY <2>1, <2>2
<1> QED  BY <1>1, <1>2, <1>3, <1>4 DEF Included

(* What a program has to do with a group is within the types. *)
LEMMA TaskFacts ==
    ASSUME GroupsTypes, NEW p \in Programs
    PROVE  /\ Task(p).group \in Groups /\ Task(p).includes \subseteq Included
           /\ Task("maintain") = Plan[task["maintain"]]
           /\ Owner(p) \subseteq {InfraPTL, Other} /\ Visible(p) \in BOOLEAN
           /\ Owner("maintain") = {InfraPTL} /\ Visible("maintain") = TRUE
           /\ Len(Tasks("update")) = 1
<1>1. Task("maintain") = Plan[task["maintain"]] /\ Task("update") = options
  BY DEF GroupsTypes, Task, Tasks
<1>2. options \in UpdateOptions /\ task["maintain"] \in DOMAIN Plan
  BY DEF GroupsTypes
<1>3. Task(p).group \in Groups
  BY <1>1, <1>2, PlanFacts, GroupsAssumption DEF Programs
<1>4. Task(p).includes \subseteq Included
  <2>1. CASE p = "maintain"
    BY <1>1, <1>2, <2>1 DEF Included
  <2>2. CASE p = "update"
    <3>1. \A o \in UpdateOptions : o.includes \subseteq Included
      BY DEF Included
    <3> QED  BY <1>1, <1>2, <2>2, <3>1
  <2> QED  BY <2>1, <2>2 DEF Programs
<1>5. /\ Owner(p) \subseteq {InfraPTL, Other} /\ Visible(p) \in BOOLEAN
      /\ Owner("maintain") = {InfraPTL} /\ Visible("maintain") = TRUE
  BY <1>2, GroupsAssumption DEF Owner, Visible, Programs
<1>6. Len(Tasks("update")) = 1
  BY DEF Tasks
<1> QED  BY <1>1, <1>3, <1>4, <1>5, <1>6

(* Nothing has been read, written or excused at the start. *)
LEMMA GroupsStart == GroupsInit => GroupsInv
<1> SUFFICES ASSUME GroupsInit PROVE GroupsInv
  OBVIOUS
<1> USE DEF GroupsInit
<1>1. Unread \in Detail
  BY DEF Unread, Detail
<1>2. 1 \in DOMAIN Plan
  BY PlanFacts
<1>3. GroupsTypes
  BY <1>1, <1>2 DEF GroupsTypes, Places, Groups, Programs
<1>4. Behind /\ Current /\ Second
  BY PlanFacts DEF Behind, Current, Second, Unprovoked, Programs
<1> QED  BY <1>3, <1>4 DEF GroupsInv

(* What a put may do to the groups: nothing that maintain-infra-groups has  *)
(* seen gets worse, unless it is excused.                                   *)
Grows(x) == /\ details[x].includes \subseteq details'[x].includes
            /\ details[x].owner = InfraPTL => details'[x].owner = InfraPTL
            /\ details[x].visible => details'[x].visible
Safely == /\ groups' \subseteq Groups /\ details' \in [Groups -> Detail]
          /\ groups \subseteq groups' /\ excused \subseteq excused'
          /\ \A x \in seen : x \in excused' \/ Grows(x)

(* A step that puts nothing is harmless. *)
LEMMA NothingPut ==
    ASSUME GroupsTypes, UNCHANGED gerritVars, excused \subseteq excused'
    PROVE  Safely
  BY DEF GroupsTypes, gerritVars, Safely, Grows

(* A put is harmless when the group it puts adds to what is there, or when   *)
(* nobody has read that group; one that overwrites excuses the group.        *)
LEMMA PutSafely ==
    ASSUME GroupsTypes, NEW p \in Programs, NEW d, NEW possible \in BOOLEAN, NEW where, Put(p, d, possible, where),
           possible => /\ d \in Detail
                       /\ \/ Task(p).group \notin seen \/ Overwrites(p)
                          \/ LET old == details[Task(p).group] IN
                             /\ old.includes \subseteq d.includes
                             /\ old.owner = InfraPTL => d.owner = InfraPTL
                             /\ old.visible => d.visible
    PROVE  Safely
<1> DEFINE g == Task(p).group
<1>1. g \in Groups
  BY TaskFacts
<1>2. CASE UNCHANGED gerritVars /\ excused \subseteq excused'
  BY <1>2, NothingPut
<1>3. CASE /\ possible /\ groups' = groups \cup {g} /\ details' = [details EXCEPT ![g] = d]
           /\ excused' = IF Overwrites(p) THEN excused \cup {g} ELSE excused
  <2>1. d \in Detail /\ details' \in [Groups -> Detail] /\ groups' \subseteq Groups
    BY <1>1, <1>3 DEF GroupsTypes
  <2>2. ASSUME NEW x \in seen PROVE x \in excused' \/ Grows(x)
    <3>1. CASE x # g
      <4>1. details'[x] = details[x]
        BY <1>3, <2>2, <3>1 DEF GroupsTypes
      <4> QED  BY <4>1 DEF Grows
    <3>2. CASE x = g
      <4>1. details'[x] = d
        BY <1>1, <1>3, <3>2 DEF GroupsTypes
      <4> QED  BY <1>3, <2>2, <3>2, <4>1 DEF Grows
    <3> QED  BY <3>1, <3>2
  <2> QED  BY <1>3, <2>1, <2>2 DEF Safely
<1> QED  BY <1>2, <1>3 DEF Put

(* A harmless step leaves a group as planned, or excuses it. *)
LEMMA HasKept ==
    ASSUME GroupsTypes, Safely, NEW n \in DOMAIN Plan, Plan[n].group \in seen, HasGroup(Plan[n])
    PROVE  HasGroup(Plan[n])'
<1> DEFINE g == Plan[n].group
<1>1. g \in groups /\ g \in groups'
  BY DEF GroupsTypes, Safely
<1>2. g \in excused => g \in excused'
  BY DEF Safely
<1>3. g \in excused' \/ Grows(g)
  BY DEF Safely
<1> QED  BY <1>1, <1>2, <1>3 DEF HasGroup, HasAll, Grows

(* While maintain-infra-groups stands where it is. *)
Stands == /\ UNCHANGED <<again, wrote, seen, options>> /\ at'["maintain"] = at["maintain"]
          /\ task'["maintain"] = task["maintain"] /\ group'["maintain"] = group["maintain"]
          /\ toInclude'["maintain"] = toInclude["maintain"] /\ at'["update"] # "read"

(* A harmless step by which the first program does not move keeps the        *)
(* invariant.                                                                *)
LEMMA StandsKeeps == GroupsInv /\ Safely /\ Stands => Behind' /\ Current' /\ Second'
<1> SUFFICES ASSUME GroupsInv, Safely, Stands PROVE Behind' /\ Current' /\ Second'
  OBVIOUS
<1>0. GroupsTypes /\ UNCHANGED <<again, wrote, seen>> /\ at'["maintain"] = at["maintain"] /\ task'["maintain"] = task["maintain"]
  BY DEF GroupsInv, Stands
<1>1. Behind'
  BY <1>0, HasKept DEF GroupsInv, Behind
<1>2. Current'
  <2> DEFINE t == Plan[task["maintain"]]
  <2>0. t' = t
    BY <1>0
  <2>1. ASSUME at["maintain"] \in {"include", "owner", "visible"}, t.group \notin excused'
        PROVE  t.group \in seen /\ Holds(t, group["maintain"], toInclude["maintain"], at["maintain"])'
    <3>1. t.group \in seen /\ t.group \notin excused /\ Grows(t.group)
      BY <2>1 DEF Safely, GroupsInv, Current
    <3>2. Holds(t, group["maintain"], toInclude["maintain"], at["maintain"])
      BY <2>1, <3>1 DEF GroupsInv, Current
    <3> QED  BY <1>0, <3>1, <3>2 DEF Holds, Grows, Stands
  <2>2. at["maintain"] \in {"include", "owner", "visible"} => t.group \in seen
    BY DEF GroupsInv, Current
  <2>3. Current' = (at'["maintain"] \in {"include", "owner", "visible"} =>
                        /\ t'.group \in seen'
                        /\ \/ t'.group \in excused'
                           \/ Holds(t, group["maintain"], toInclude["maintain"], at["maintain"])')
    BY DEF Current
  <2> HIDE DEF t
  <2> QED  BY <1>0, <2>0, <2>1, <2>2, <2>3
<1>3. Second'
  BY DEF Stands, Second, Unprovoked
<1> QED  BY <1>1, <1>2, <1>3

(* What a put changes of the state of the programs. *)
LEMMA PutProgs ==
    ASSUME GroupsTypes, NEW p \in Programs, NEW d, NEW possible, NEW where, Put(p, d, possible, where)
    PROVE  /\ at' = [at EXCEPT ![p] = where] \/ at' = [at EXCEPT ![p] = "died"]
           /\ UNCHANGED <<options, again, seen>> /\ wrote' \in BOOLEAN
           /\ p = "update" => UNCHANGED wrote
  BY DEF Put, Goes, GroupsTypes

(* Every detail that may be put has the type of one. *)
LEMMA NewDetails ==
    ASSUME GroupsTypes, NEW p \in Programs
    PROVE  LET d == details[Task(p).group] IN
           /\ d \in Detail
           /\ [includes |-> {}, owner |-> IF Owner(p) = {} THEN Creator ELSE CHOOSE o \in Owner(p) : TRUE,
               visible |-> Visible(p)] \in Detail
           /\ \A i \in groups : [d EXCEPT !.includes = @ \cup {i}] \in Detail
           /\ Owner(p) # {} => [d EXCEPT !.owner = CHOOSE o \in Owner(p) : TRUE] \in Detail
           /\ [d EXCEPT !.visible = Visible(p)] \in Detail
<1> DEFINE d == details[Task(p).group]
<1>1. d \in Detail /\ groups \subseteq Groups
  BY TaskFacts DEF GroupsTypes
<1>2. Owner(p) # {} => (CHOOSE o \in Owner(p) : TRUE) \in {InfraPTL, Other}
  BY TaskFacts
<1>3. Visible(p) \in BOOLEAN
  BY TaskFacts
<1> QED  BY <1>1, <1>2, <1>3 DEF Detail

(* Every step of update-gerrit-group keeps the invariant. *)
LEMMA UpdateKeeps == GroupsInv /\ GroupsStep("update") => GroupsInv'
<1> SUFFICES ASSUME GroupsInv, GroupsStep("update") PROVE GroupsInv'
  OBVIOUS
<1> DEFINE p == "update"
           g == Task(p).group
<1>0. GroupsTypes /\ p \in Programs /\ "maintain" \in Programs /\ p # "maintain" /\ Len(Tasks(p)) = 1 /\ task[p] = 1
  BY TaskFacts DEF GroupsInv, GroupsTypes, Programs
<1>a. ASSUME Safely, UNCHANGED <<options, again, seen, wrote, task>>,
             NEW w \in Places \ {"read"}, at' = [at EXCEPT ![p] = w],
             NEW r \in Detail, group' = [group EXCEPT ![p] = r],
             NEW s \in SUBSET Included, toInclude' = [toInclude EXCEPT ![p] = s]
      PROVE  GroupsInv'
  <2>1. GroupsTypes'
    BY <1>0, <1>a DEF GroupsTypes, Safely
  <2>2. Stands
    BY <1>0, <1>a DEF Stands, GroupsTypes
  <2> QED  BY <1>a, <2>1, <2>2, StandsKeeps DEF GroupsInv
<1>b. group = [group EXCEPT ![p] = group[p]] /\ toInclude = [toInclude EXCEPT ![p] = toInclude[p]] /\ task = [task EXCEPT ![p] = task[p]]
      /\ group[p] \in Detail /\ toInclude[p] \in SUBSET Included
  BY <1>0 DEF GroupsTypes
<1>1. CASE Get(p)
  <2>1. Safely /\ UNCHANGED <<options, again, seen, wrote, task>>
    BY <1>0, <1>1, NothingPut DEF Get
  <2>2. PICK w \in Places \ {"read"} : at' = [at EXCEPT ![p] = w]
    BY <1>1 DEF Get, Goes, Places
  <2>3. \/ UNCHANGED <<group, toInclude>>
        \/ group' = [group EXCEPT ![p] = details[g]] /\ toInclude' = [toInclude EXCEPT ![p] = Task(p).includes]
    BY <1>1 DEF Get
  <2>4. details[g] \in Detail /\ Task(p).includes \subseteq Included
    BY <1>0, NewDetails, TaskFacts
  <2> QED  BY <1>a, <1>b, <2>1, <2>2, <2>3, <2>4
<1>2. CASE Create(p)
  <2> DEFINE d == [includes |-> {}, owner |-> IF Owner(p) = {} THEN Creator ELSE CHOOSE o \in Owner(p) : TRUE,
                   visible |-> Visible(p)]
  <2>1. Put(p, d, g \notin groups, "reread") /\ UNCHANGED <<task, group, toInclude>>
    BY <1>2 DEF Create
  <2>2. d \in Detail /\ (g \notin groups => g \notin seen) /\ (g \notin groups) \in BOOLEAN
    BY <1>0, NewDetails DEF GroupsTypes
  <2> HIDE DEF d
  <2>3. Safely
    BY <1>0, <2>1, <2>2, PutSafely
  <2>4. UNCHANGED <<options, again, seen, wrote>> /\ \E w \in Places \ {"read"} : at' = [at EXCEPT ![p] = w]
    BY <1>0, <2>1, PutProgs DEF Places
  <2> QED  BY <1>a, <1>b, <2>1, <2>3, <2>4
<1>3. CASE IncludeNext(p)
  <2>1. CASE Skips(p, "owner") /\ UNCHANGED <<task, group, toInclude>>
    <3>1. Safely /\ UNCHANGED <<options, again, seen, wrote>> /\ at' = [at EXCEPT ![p] = "owner"]
      BY <1>0, <2>1, NothingPut DEF Skips, noteVars, Goes
    <3> QED  BY <1>a, <1>b, <2>1, <3>1 DEF Places
  <2>2. ASSUME NEW i \in toInclude[p], toInclude' = [toInclude EXCEPT ![p] = @ \ {i}], UNCHANGED <<task, group>>,
               \/ Skips(p, "include")
               \/ Put(p, [details[g] EXCEPT !.includes = @ \cup {i}], i \in groups, "include")
        PROVE  GroupsInv'
    <3>1. toInclude' = [toInclude EXCEPT ![p] = toInclude[p] \ {i}] /\ toInclude[p] \ {i} \in SUBSET Included
      BY <1>b, <2>2
    <3>2. CASE Skips(p, "include")
      <4>1. Safely /\ UNCHANGED <<options, again, seen, wrote>> /\ at' = [at EXCEPT ![p] = "include"]
        BY <1>0, <3>2, NothingPut DEF Skips, noteVars, Goes
      <4> QED  BY <1>a, <1>b, <2>2, <3>1, <4>1 DEF Places
    <3>3. CASE Put(p, [details[g] EXCEPT !.includes = @ \cup {i}], i \in groups, "include")
      <4> DEFINE d == [details[g] EXCEPT !.includes = @ \cup {i}]
      <4>1. i \in groups => /\ d \in Detail /\ details[g].includes \subseteq d.includes
                            /\ d.owner = details[g].owner /\ d.visible = details[g].visible
        <5>1. details[g] \in Detail /\ (i \in groups => d \in Detail)
          BY <1>0, NewDetails
        <5> QED  BY <5>1 DEF Detail
      <4>2. (i \in groups) \in BOOLEAN
        OBVIOUS
      <4>3. Put(p, d, i \in groups, "include")
        BY <3>3
      <4> HIDE DEF d
      <4>4. Safely
        BY <1>0, <4>1, <4>2, <4>3, PutSafely
      <4>5. UNCHANGED <<options, again, seen, wrote>> /\ \E w \in Places \ {"read"} : at' = [at EXCEPT ![p] = w]
        BY <1>0, <4>3, PutProgs DEF Places
      <4> QED  BY <1>a, <1>b, <2>2, <3>1, <4>4, <4>5
    <3> QED  BY <2>2, <3>2, <3>3
  <2> QED  BY <1>3, <2>1, <2>2 DEF IncludeNext
<1>4. CASE SetOwner(p)
  <2>1. CASE Skips(p, "visible") /\ UNCHANGED <<task, group, toInclude>>
    <3>1. Safely /\ UNCHANGED <<options, again, seen, wrote>> /\ at' = [at EXCEPT ![p] = "visible"]
      BY <1>0, <2>1, NothingPut DEF Skips, noteVars, Goes
    <3> QED  BY <1>a, <1>b, <2>1, <3>1 DEF Places
  <2>2. CASE /\ PutsOwner(p) /\ at[p] = "owner" /\ UNCHANGED <<task, group, toInclude>>
             /\ Put(p, [details[g] EXCEPT !.owner = CHOOSE o \in Owner(p) : TRUE], TRUE, "visible")
    <3> DEFINE d == [details[g] EXCEPT !.owner = CHOOSE o \in Owner(p) : TRUE]
    <3>1. d \in Detail /\ (g \notin seen \/ Overwrites(p)) /\ TRUE \in BOOLEAN
      BY <1>0, <2>2, NewDetails DEF PutsOwner, Overwrites
    <3>2. Put(p, d, TRUE, "visible")
      BY <2>2
    <3> HIDE DEF d
    <3>3. Safely
      BY <1>0, <3>1, <3>2, PutSafely
    <3>4. UNCHANGED <<options, again, seen, wrote>> /\ \E w \in Places \ {"read"} : at' = [at EXCEPT ![p] = w]
      BY <1>0, <3>2, PutProgs DEF Places
    <3> QED  BY <1>a, <1>b, <2>2, <3>3, <3>4
  <2> QED  BY <1>4, <2>1, <2>2 DEF SetOwner
<1>5. CASE SetVisible(p)
  <2>1. /\ at[p] = "visible" /\ UNCHANGED toInclude /\ group' = [group EXCEPT ![p] = Unread] /\ UNCHANGED task
        /\ \/ Skips(p, "done") \/ Put(p, [details[g] EXCEPT !.visible = Visible(p)], TRUE, "done")
    <3>1. task[p] = Len(Tasks(p))
      BY <1>0
    <3>2. task' = [task EXCEPT ![p] = task[p]]
      BY <1>5, <3>1 DEF SetVisible
    <3> QED  BY <1>5, <1>b, <3>1, <3>2 DEF SetVisible
  <2>2. Unread \in Detail
    BY DEF Unread, Detail
  <2>3. CASE Skips(p, "done")
    <3>1. Safely /\ UNCHANGED <<options, again, seen, wrote>> /\ at' = [at EXCEPT ![p] = "done"]
      BY <1>0, <2>3, NothingPut DEF Skips, noteVars, Goes
    <3> QED  BY <1>a, <1>b, <2>1, <2>2, <3>1 DEF Places
  <2>4. CASE Put(p, [details[g] EXCEPT !.visible = Visible(p)], TRUE, "done")
    <3> DEFINE d == [details[g] EXCEPT !.visible = Visible(p)]
    <3>1. d \in Detail /\ (g \notin seen \/ Overwrites(p)) /\ TRUE \in BOOLEAN
      BY <1>0, <2>1, NewDetails DEF Overwrites
    <3>2. Put(p, d, TRUE, "done")
      BY <2>4
    <3> HIDE DEF d
    <3>3. Safely
      BY <1>0, <3>1, <3>2, PutSafely
    <3>4. UNCHANGED <<options, again, seen, wrote>> /\ \E w \in Places \ {"read"} : at' = [at EXCEPT ![p] = w]
      BY <1>0, <3>2, PutProgs DEF Places
    <3> QED  BY <1>a, <1>b, <2>1, <2>2, <3>3, <3>4
  <2> QED  BY <2>1, <2>3, <2>4
<1> QED  BY <1>1, <1>2, <1>3, <1>4, <1>5 DEF GroupsStep

(* What maintain-infra-groups does: it takes its group as far as planned,   *)
(* or is excused, or ends.                                                  *)
LEMMA BehindKept ==
    ASSUME GroupsInv, Safely, seen \subseteq seen', NEW k \in DOMAIN Plan, k = task["maintain"],
           \/ at'["maintain"] = "died"
           \/ at'["maintain"] # "done" /\ task'["maintain"] = k /\ at["maintain"] \notin {"done", "died"}
           \/ /\ HasGroup(Plan[k])' /\ Plan[k].group \in seen' /\ at["maintain"] \notin {"done", "died"}
              /\ (task'["maintain"] = k /\ k = Len(Plan)) \/ (at'["maintain"] = "read" /\ task'["maintain"] = k + 1)
    PROVE  Behind'
<1>1. GroupsTypes /\ k \in Nat
  BY PlanFacts DEF GroupsInv
<1>2. ASSUME at["maintain"] \notin {"done", "died"}, NEW n \in DOMAIN Plan, n < k
      PROVE  HasGroup(Plan[n])' /\ Plan[n].group \in seen'
  BY <1>1, <1>2, HasKept DEF GroupsInv, Behind
<1>3. CASE at'["maintain"] = "died"
  BY <1>3 DEF Behind
<1>4. CASE at'["maintain"] # "done" /\ task'["maintain"] = k /\ at["maintain"] \notin {"done", "died"}
  BY <1>2, <1>4 DEF Behind
<1>5. CASE /\ HasGroup(Plan[k])' /\ Plan[k].group \in seen' /\ at["maintain"] \notin {"done", "died"}
           /\ (task'["maintain"] = k /\ k = Len(Plan)) \/ (at'["maintain"] = "read" /\ task'["maintain"] = k + 1)
  <2>1. \A n \in DOMAIN Plan : n <= k => HasGroup(Plan[n])' /\ Plan[n].group \in seen'
    <3>1. ASSUME NEW n \in DOMAIN Plan, n <= k PROVE HasGroup(Plan[n])' /\ Plan[n].group \in seen'
      <4>1. n = k \/ n < k
        BY <1>1, <3>1, PlanFacts
      <4>2. CASE n = k
        BY <1>5, <4>2
      <4>3. CASE n < k
        BY <1>2, <1>5, <4>3
      <4> QED  BY <4>1, <4>2, <4>3
    <3> QED  BY <3>1
  <2>2. \A n \in DOMAIN Plan : n < task'["maintain"] \/ at'["maintain"] = "done" => n <= k
    BY <1>1, <1>5, PlanFacts
  <2> QED  BY <2>1, <2>2 DEF Behind
<1> QED  BY <1>3, <1>4, <1>5

(* A step of the first program that puts nothing keeps what is known of a    *)
(* second run, when what it has read is as planned.                          *)
LEMMA SecondKept ==
    ASSUME GroupsInv, UNCHANGED <<gerritVars, wrote, again>>, excused \subseteq excused',
           at'["update"] = at["update"],
           Unprovoked /\ at'["maintain"] \in {"include", "owner", "visible"} =>
               toInclude'["maintain"] \subseteq group'["maintain"].includes
               /\ group'["maintain"].owner = InfraPTL /\ group'["maintain"].visible
    PROVE  Second'
<1>1. Unprovoked' => Unprovoked
  BY DEF Unprovoked
<1>2. \A n \in DOMAIN Plan : HasAll(Plan[n])' = HasAll(Plan[n])
  BY DEF HasAll, gerritVars
<1> QED  BY <1>1, <1>2 DEF Second, GroupsInv

(* The types, for every step of the first program. *)
LEMMA MaintainTypes ==
    ASSUME GroupsTypes, Safely, UNCHANGED <<options, again>>, seen' \subseteq groups', wrote' \in BOOLEAN,
           NEW w \in Places, at' = [at EXCEPT !["maintain"] = w],
           NEW r \in Detail, group' = [group EXCEPT !["maintain"] = r],
           NEW s \in SUBSET Included, toInclude' = [toInclude EXCEPT !["maintain"] = s],
           NEW n \in DOMAIN Plan, task' = [task EXCEPT !["maintain"] = n]
    PROVE  /\ GroupsTypes'
           /\ at'["maintain"] = w /\ group'["maintain"] = r /\ toInclude'["maintain"] = s
           /\ task'["maintain"] = n /\ at'["update"] = at["update"]
<1>1. "maintain" \in Programs /\ "update" \in Programs /\ n \in Nat
  BY PlanFacts DEF Programs
<1> QED  BY <1>1 DEF GroupsTypes, Safely

(* What there is to show of the group such a step leaves the program at. *)
LEMMA CurrentThen ==
    ASSUME NEW k \in DOMAIN Plan, task'["maintain"] = k,
           at'["maintain"] \in {"include", "owner", "visible"} =>
               /\ Plan[k].group \in seen'
               /\ \/ Plan[k].group \in excused'
                  \/ Holds(Plan[k], group["maintain"], toInclude["maintain"], at["maintain"])'
    PROVE  Current'
  BY DEF Current

(* Reading a group of the plan keeps the invariant. *)
LEMMA MaintainGet == GroupsInv /\ Get("maintain") => GroupsInv'
<1> SUFFICES ASSUME GroupsInv, Get("maintain") PROVE GroupsInv'
  OBVIOUS
<1> DEFINE p == "maintain"
<1>0. GroupsTypes /\ p \in Programs
  BY DEF GroupsInv, Programs
<1>1. PICK k \in DOMAIN Plan : k = task[p]
  BY <1>0 DEF GroupsTypes
<1> DEFINE t == Plan[k]
           g == t.group
<1>2. Task(p) = t
  BY <1>0, <1>1, TaskFacts
<1>3. UNCHANGED <<gerritVars, task, options, again, excused, wrote>> /\ at[p] \in {"read", "reread"}
  BY DEF Get
<1>4. Safely /\ UNCHANGED <<options, again>>
  BY <1>0, <1>3, NothingPut
<1>5. /\ task' = [task EXCEPT ![p] = k] /\ wrote \in BOOLEAN
      /\ group[p] \in Detail /\ toInclude[p] \in SUBSET Included
  BY <1>0, <1>1, <1>3 DEF GroupsTypes
<1>6. CASE /\ g \in groups /\ at' = [at EXCEPT ![p] = "include"]
           /\ group' = [group EXCEPT ![p] = details[g]] /\ toInclude' = [toInclude EXCEPT ![p] = t.includes]
           /\ seen' = seen \cup {g}
  <2>1. details[g] \in Detail /\ t.includes \in SUBSET Included /\ seen \subseteq groups /\ groups' = groups
    BY <1>0, <1>2, <1>3, NewDetails, TaskFacts DEF GroupsTypes, gerritVars
  <2>a. seen' \subseteq groups' /\ wrote' \in BOOLEAN /\ "include" \in Places
    BY <1>3, <1>5, <1>6, <2>1 DEF Places
  <2> HIDE DEF t, g
  <2>2. /\ GroupsTypes' /\ at'[p] = "include" /\ group'[p] = details[g] /\ toInclude'[p] = t.includes
        /\ task'[p] = k /\ at'["update"] = at["update"]
    BY <1>0, <1>4, <1>5, <1>6, <2>1, <2>a, MaintainTypes
  <2>3. Behind'
    BY <1>1, <1>3, <1>4, <1>6, <2>2, BehindKept
  <2>4. Holds(t, group[p], toInclude[p], at[p])'
    BY <1>3, <2>2 DEF Holds, gerritVars, t, g
  <2>5. Current'
    BY <1>6, <2>2, <2>4, CurrentThen DEF t, g
  <2>6. Unprovoked => HasAll(t)
    BY DEF GroupsInv, Second, t
  <2>7. Second'
    BY <1>3, <2>2, <2>6, SecondKept DEF HasAll, g
  <2> QED  BY <2>2, <2>3, <2>5, <2>7 DEF GroupsInv
<1>7. ASSUME NEW w \in {"create", "died"}, at' = [at EXCEPT ![p] = w], UNCHANGED <<group, toInclude, seen>>
      PROVE  GroupsInv'
  <2>1. seen' \subseteq groups' /\ wrote' \in BOOLEAN /\ w \in Places
    BY <1>0, <1>3, <1>5, <1>7 DEF GroupsTypes, gerritVars, Places
  <2>a. /\ group' = [group EXCEPT ![p] = group[p]] /\ toInclude' = [toInclude EXCEPT ![p] = toInclude[p]]
        /\ at' = [at EXCEPT ![p] = w]
    BY <1>0, <1>7 DEF GroupsTypes
  <2>2. GroupsTypes' /\ at'[p] = w /\ task'[p] = k /\ at'["update"] = at["update"]
    BY <1>0, <1>4, <1>5, <2>1, <2>a, MaintainTypes
  <2>3. Behind'
    BY <1>1, <1>3, <1>4, <1>7, <2>2, BehindKept
  <2>4. Current'
    BY <1>7, <2>2, CurrentThen
  <2>5. Second'
    BY <1>3, <1>7, <2>2, SecondKept
  <2> QED  BY <2>2, <2>3, <2>4, <2>5 DEF GroupsInv
<1> QED  BY <1>2, <1>6, <1>7 DEF Get, Goes

(* Creating it keeps the invariant. *)
LEMMA MaintainCreate == GroupsInv /\ Create("maintain") => GroupsInv'
<1> SUFFICES ASSUME GroupsInv, Create("maintain") PROVE GroupsInv'
  OBVIOUS
<1> DEFINE p == "maintain"
           d == [includes |-> {}, owner |-> IF Owner(p) = {} THEN Creator ELSE CHOOSE o \in Owner(p) : TRUE,
                 visible |-> Visible(p)]
<1>0. GroupsTypes /\ p \in Programs
  BY DEF GroupsInv, Programs
<1>1. PICK k \in DOMAIN Plan : k = task[p]
  BY <1>0 DEF GroupsTypes
<1> DEFINE g == Plan[k].group
<1>2. Task(p) = Plan[k]
  BY <1>0, <1>1, TaskFacts
<1>3. at[p] = "create" /\ Put(p, d, g \notin groups, "reread") /\ UNCHANGED <<task, group, toInclude>>
  BY <1>2 DEF Create
<1>4. d \in Detail /\ (g \notin groups => g \notin seen) /\ (g \notin groups) \in BOOLEAN
  BY <1>0, NewDetails DEF GroupsTypes
<1> HIDE DEF d
<1>5. Safely
  BY <1>0, <1>2, <1>3, <1>4, PutSafely
<1>6. UNCHANGED <<options, again, seen>> /\ wrote' \in BOOLEAN
  BY <1>0, <1>3, PutProgs
<1>7. PICK w \in {"reread", "died"} : at' = [at EXCEPT ![p] = w]
  BY <1>0, <1>3, PutProgs
<1>8. /\ task' = [task EXCEPT ![p] = k] /\ group' = [group EXCEPT ![p] = group[p]]
      /\ toInclude' = [toInclude EXCEPT ![p] = toInclude[p]]
      /\ group[p] \in Detail /\ toInclude[p] \in SUBSET Included /\ seen' \subseteq groups' /\ w \in Places
  BY <1>0, <1>1, <1>3, <1>5, <1>6 DEF GroupsTypes, Safely, Places
<1>9. GroupsTypes' /\ at'[p] = w /\ task'[p] = k /\ at'["update"] = at["update"]
  BY <1>0, <1>5, <1>6, <1>7, <1>8, MaintainTypes
<1>10. Behind'
  BY <1>1, <1>3, <1>5, <1>6, <1>9, BehindKept
<1>11. Current'
  BY <1>9, CurrentThen
<1>12. Second'
  <2>1. excused \subseteq excused'
    BY <1>5 DEF Safely
  <2>2. CASE Unprovoked'
    <3>1. Unprovoked /\ HasAll(Plan[k])
      BY <1>6, <1>9, <2>1, <2>2 DEF Unprovoked, GroupsInv, Second
    <3>2. g \in groups
      BY <3>1 DEF HasAll
    <3>3. UNCHANGED gerritVars /\ UNCHANGED wrote
      BY <1>0, <1>3, <3>2 DEF Put, GroupsTypes
    <3> QED  BY <1>6, <1>9, <2>1, <3>3, SecondKept
  <2>3. CASE ~Unprovoked'
    BY <2>3 DEF Second
  <2> QED  BY <2>2, <2>3
<1> QED  BY <1>9, <1>10, <1>11, <1>12 DEF GroupsInv

(* What a put of maintain-infra-groups, but for one that creates a group,   *)
(* comes to: it is done, or refused, or is the last one.                    *)
LEMMA PutOutcome ==
    ASSUME GroupsTypes, NEW d, NEW possible, NEW where \in Places \ {"reread"},
           Put("maintain", d, possible, where), NEW g, g = Task("maintain").group
    PROVE  /\ excused \subseteq excused'
           /\ \/ at' = [at EXCEPT !["maintain"] = "died"]
              \/ at' = [at EXCEPT !["maintain"] = where] /\ g \in excused'
              \/ at' = [at EXCEPT !["maintain"] = where] /\ g \in groups' /\ details' = [details EXCEPT ![g] = d] /\ possible
  BY DEF Put, Goes

(* A group has got what d adds. *)
LEMMA PutAdds ==
    ASSUME GroupsTypes, NEW g \in Groups, NEW d \in Detail, details' = [details EXCEPT ![g] = d]
    PROVE  details'[g] = d
  BY DEF GroupsTypes

(* Adding one of the included groups keeps it, put or not, refused or not. *)
LEMMA MaintainInclude == GroupsInv /\ IncludeNext("maintain") => GroupsInv'
<1> SUFFICES ASSUME GroupsInv, IncludeNext("maintain") PROVE GroupsInv'
  OBVIOUS
<1> DEFINE p == "maintain"
<1>t. GroupsTypes
  BY DEF GroupsInv
<1>0. GroupsTypes /\ p \in Programs /\ at[p] = "include" /\ UNCHANGED <<task, group>>
  BY DEF GroupsInv, Programs, IncludeNext
<1>1. PICK k \in DOMAIN Plan : k = task[p]
  BY <1>0 DEF GroupsTypes
<1> DEFINE t == Plan[k]
           g == t.group
           old == details[g]
<1>2. Task(p) = t /\ g \in Groups /\ old \in Detail
  BY <1>0, <1>1, TaskFacts, NewDetails
<1>3. /\ g \in seen
      /\ g \in excused \/ Holds(t, group[p], toInclude[p], "include")
  BY <1>0, <1>1 DEF GroupsInv, Current
<1>4. /\ task' = [task EXCEPT ![p] = k] /\ group' = [group EXCEPT ![p] = group[p]]
      /\ group[p] \in Detail /\ toInclude[p] \in SUBSET Included
  BY <1>0, <1>1 DEF GroupsTypes
<1>5. Unprovoked => toInclude[p] \subseteq group[p].includes /\ group[p].owner = InfraPTL /\ group[p].visible
  BY <1>0 DEF GroupsInv, Second
<1>a. ASSUME UNCHANGED <<gerritVars, options, again, seen, excused, wrote>>,
             NEW w \in {"include", "owner"}, at' = [at EXCEPT ![p] = w],
             NEW s \in SUBSET toInclude[p], toInclude' = [toInclude EXCEPT ![p] = s],
             g \in excused \/ (t.includes \ s \subseteq old.includes), w = "owner" => s = {}
      PROVE  GroupsInv'
  <2>1. /\ Safely /\ seen' \subseteq groups' /\ wrote' \in BOOLEAN /\ w \in Places /\ s \in SUBSET Included
        /\ UNCHANGED <<options, again>> /\ at' = [at EXCEPT ![p] = w] /\ toInclude' = [toInclude EXCEPT ![p] = s]
    BY <1>0, <1>4, <1>a, NothingPut DEF GroupsTypes, gerritVars, Places
  <2>2. /\ GroupsTypes' /\ at'[p] = w /\ task'[p] = k /\ at'["update"] = at["update"] /\ toInclude'[p] = s
        /\ group'[p] = group[p]
    BY <1>t, <1>4, <2>1, MaintainTypes
  <2>3. Behind'
    BY <1>0, <1>1, <1>a, <2>1, <2>2, BehindKept
  <2>4. g \in excused \/ Holds(t, group[p], toInclude[p], at[p])'
    BY <1>3, <1>a, <2>2 DEF Holds, gerritVars
  <2>5. Current'
    BY <1>3, <1>a, <2>2, <2>4, CurrentThen
  <2>6. Second'
    BY <1>5, <1>a, <2>2, SecondKept
  <2> QED  BY <2>2, <2>3, <2>5, <2>6 DEF GroupsInv
<1>b. toInclude = [toInclude EXCEPT ![p] = toInclude[p]]
  BY <1>0 DEF GroupsTypes
<1>6. CASE toInclude[p] = {} /\ Skips(p, "owner") /\ UNCHANGED toInclude
  <2>1. UNCHANGED <<gerritVars, options, again, seen, excused, wrote>> /\ at' = [at EXCEPT ![p] = "owner"]
    BY <1>6 DEF Skips, noteVars, Goes
  <2>2. g \in excused \/ (t.includes \ toInclude[p] \subseteq old.includes)
    BY <1>3 DEF Holds
  <2> QED  BY <1>6, <1>a, <1>b, <2>1, <2>2
<1>7. ASSUME NEW i \in toInclude[p], toInclude' = [toInclude EXCEPT ![p] = @ \ {i}],
             ~Lacks(p, i), Skips(p, "include")
      PROVE  GroupsInv'
  <2>1. UNCHANGED <<gerritVars, options, again, seen, excused, wrote>> /\ at' = [at EXCEPT ![p] = "include"]
    BY <1>7 DEF Skips, noteVars, Goes
  <2>2. g \in excused \/ (t.includes \ (toInclude[p] \ {i}) \subseteq old.includes)
    BY <1>3, <1>7 DEF Holds, Lacks
  <2>3. toInclude' = [toInclude EXCEPT ![p] = toInclude[p] \ {i}]
    BY <1>7
  <2> QED  BY <1>a, <2>1, <2>2, <2>3
<1>8. ASSUME NEW i \in toInclude[p], toInclude' = [toInclude EXCEPT ![p] = @ \ {i}], Lacks(p, i),
             Put(p, [old EXCEPT !.includes = @ \cup {i}], i \in groups, "include")
      PROVE  GroupsInv'
  <2> DEFINE d == [old EXCEPT !.includes = @ \cup {i}]
             s == toInclude[p] \ {i}
  <2>1. i \in groups => /\ d \in Detail /\ d.includes = old.includes \cup {i}
                        /\ d.owner = old.owner /\ d.visible = old.visible
    <3>1. i \in groups => d \in Detail
      BY <1>0, <1>2, NewDetails
    <3> QED  BY <1>2, <3>1 DEF Detail
  <2>2. Put(p, d, i \in groups, "include") /\ (i \in groups) \in BOOLEAN
    BY <1>8
  <2>3. toInclude' = [toInclude EXCEPT ![p] = s] /\ s \in SUBSET Included
    BY <1>4, <1>8
  <2> HIDE DEF d
  <2>4. Safely
    BY <1>0, <1>2, <2>1, <2>2, PutSafely
  <2>5. UNCHANGED <<options, again, seen>> /\ wrote' \in BOOLEAN
    BY <1>0, <2>2, PutProgs
  <2>6. PICK w \in {"include", "died"} : at' = [at EXCEPT ![p] = w]
    BY <1>0, <2>2, PutProgs
  <2>7. seen' \subseteq groups' /\ w \in Places
    BY <1>0, <2>4, <2>5 DEF GroupsTypes, Safely, Places
  <2>8. /\ GroupsTypes' /\ at'[p] = w /\ task'[p] = k /\ at'["update"] = at["update"] /\ toInclude'[p] = s
        /\ group'[p] = group[p]
    <3> HIDE DEF s
    <3> QED  BY <1>t, <1>4, <2>3, <2>4, <2>5, <2>6, <2>7, MaintainTypes
  <2>9. Behind'
    BY <1>0, <1>1, <2>4, <2>5, <2>6, <2>8, BehindKept
  <2>10. w = "died" \/ g \in excused' \/ (details'[g] = d /\ i \in groups)
    <3>2. \/ at' = [at EXCEPT ![p] = "died"]
          \/ g \in excused'
          \/ details' = [details EXCEPT ![g] = d] /\ i \in groups
      <4>1. "include" \in Places \ {"reread"} /\ g = Task(p).group
        BY <1>2 DEF Places
      <4> DEFINE possible == i \in groups
      <4>2. Put(p, d, possible, "include")
        BY <2>2
      <4> HIDE DEF possible, g, t
      <4>3. \/ at' = [at EXCEPT ![p] = "died"] \/ g \in excused'
            \/ details' = [details EXCEPT ![g] = d] /\ possible
        BY <1>t, <4>1, <4>2, PutOutcome
      <4> QED  BY <4>3 DEF possible
    <3>3. at' = [at EXCEPT ![p] = "died"] => w = "died"
      BY <1>0, <2>6 DEF GroupsTypes
    <3> QED  BY <1>0, <1>2, <2>1, <3>2, <3>3, PutAdds
  <2>11. w # "died" /\ g \notin excused' => Holds(t, group[p], toInclude[p], at[p])'
    <3>1. excused \subseteq excused'
      BY <2>4 DEF Safely
    <3> QED  BY <1>3, <2>1, <2>6, <2>8, <2>10, <3>1 DEF Holds
  <2>12. Current'
    BY <1>3, <2>5, <2>8, <2>11, CurrentThen
  <2>13. Second'
    <3>1. Unprovoked' => Unprovoked
      BY <2>4, <2>5, <2>8 DEF Unprovoked, Safely
    <3>2. ~Unprovoked
      BY <1>5, <1>8 DEF Lacks
    <3> QED  BY <3>1, <3>2 DEF Second
  <2> QED  BY <2>8, <2>9, <2>12, <2>13 DEF GroupsInv
<1> QED  BY <1>2, <1>6, <1>7, <1>8 DEF IncludeNext

(* So does setting the owner, *)
LEMMA MaintainOwner == GroupsInv /\ SetOwner("maintain") => GroupsInv'
<1> SUFFICES ASSUME GroupsInv, SetOwner("maintain") PROVE GroupsInv'
  OBVIOUS
<1> DEFINE p == "maintain"
<1>t. GroupsTypes
  BY DEF GroupsInv
<1>0. p \in Programs /\ at[p] = "owner" /\ UNCHANGED <<task, group, toInclude>>
  BY DEF Programs, SetOwner
<1>1. PICK k \in DOMAIN Plan : k = task[p]
  BY <1>t DEF GroupsTypes
<1> DEFINE t == Plan[k]
           g == t.group
           old == details[g]
           d == [old EXCEPT !.owner = CHOOSE o \in Owner(p) : TRUE]
<1>2. Task(p) = t /\ g \in Groups /\ old \in Detail /\ Owner(p) = {InfraPTL}
  BY <1>t, <1>0, <1>1, TaskFacts, NewDetails
<1>3. /\ g \in seen
      /\ g \in excused \/ Holds(t, group[p], toInclude[p], "owner")
  BY <1>0, <1>1 DEF GroupsInv, Current
<1>4. /\ task' = [task EXCEPT ![p] = k] /\ group' = [group EXCEPT ![p] = group[p]]
      /\ toInclude' = [toInclude EXCEPT ![p] = toInclude[p]]
      /\ group[p] \in Detail /\ toInclude[p] \in SUBSET Included
  BY <1>t, <1>0, <1>1 DEF GroupsTypes
<1>5. Unprovoked => toInclude[p] \subseteq group[p].includes /\ group[p].owner = InfraPTL /\ group[p].visible
  BY <1>0 DEF GroupsInv, Second
<1>6. d \in Detail /\ d.includes = old.includes /\ d.owner = InfraPTL /\ d.visible = old.visible
  BY <1>2 DEF Detail
<1>7. CASE ~PutsOwner(p) /\ Skips(p, "visible")
  <2>1. UNCHANGED <<gerritVars, seen, excused, wrote>> /\ UNCHANGED <<options, again>> /\ at' = [at EXCEPT ![p] = "visible"]
    BY <1>7 DEF Skips, noteVars, Goes
  <2>2. Safely /\ seen' \subseteq groups' /\ wrote' \in BOOLEAN /\ "visible" \in Places
    BY <1>t, <2>1, NothingPut DEF GroupsTypes, gerritVars, Places
  <2>3. /\ GroupsTypes' /\ at'[p] = "visible" /\ task'[p] = k /\ at'["update"] = at["update"]
        /\ toInclude'[p] = toInclude[p] /\ group'[p] = group[p]
    BY <1>t, <1>4, <2>1, <2>2, MaintainTypes
  <2>4. Behind'
    BY <1>0, <1>1, <2>1, <2>2, <2>3, BehindKept
  <2>5. group[p].owner = InfraPTL
    BY <1>2, <1>7 DEF PutsOwner
  <2>6. g \in excused \/ Holds(t, group[p], toInclude[p], at[p])'
    BY <1>3, <2>1, <2>3, <2>5 DEF Holds, gerritVars
  <2>7. Current'
    BY <1>3, <2>1, <2>3, <2>6, CurrentThen
  <2>8. Second'
    BY <1>5, <2>1, <2>3, SecondKept
  <2> QED  BY <2>3, <2>4, <2>7, <2>8 DEF GroupsInv
<1>8. CASE PutsOwner(p) /\ Put(p, d, TRUE, "visible")
  <2> HIDE DEF d
  <2>1. Safely
    BY <1>t, <1>0, <1>2, <1>6, <1>8, PutSafely
  <2>2. UNCHANGED <<options, again, seen>> /\ wrote' \in BOOLEAN
    BY <1>t, <1>0, <1>8, PutProgs
  <2>3. PICK w \in {"visible", "died"} : at' = [at EXCEPT ![p] = w]
    BY <1>t, <1>0, <1>8, PutProgs
  <2>4. seen' \subseteq groups' /\ w \in Places /\ UNCHANGED <<options, again>>
    BY <1>t, <2>1, <2>2 DEF GroupsTypes, Safely, Places
  <2>5. /\ GroupsTypes' /\ at'[p] = w /\ task'[p] = k /\ at'["update"] = at["update"]
        /\ toInclude'[p] = toInclude[p] /\ group'[p] = group[p]
    BY <1>t, <1>4, <2>1, <2>2, <2>3, <2>4, MaintainTypes
  <2>6. Behind'
    BY <1>0, <1>1, <2>1, <2>2, <2>3, <2>5, BehindKept
  <2>7. w = "died" \/ g \in excused' \/ details'[g] = d
    <3>1. at' = [at EXCEPT ![p] = "died"] \/ g \in excused' \/ details' = [details EXCEPT ![g] = d]
      <4>1. "visible" \in Places \ {"reread"} /\ g = Task(p).group
        BY <1>2 DEF Places
      <4> HIDE DEF g, t
      <4> QED  BY <1>t, <1>8, <4>1, PutOutcome
    <3>2. at' = [at EXCEPT ![p] = "died"] => w = "died"
      BY <1>t, <1>0, <2>3 DEF GroupsTypes
    <3> QED  BY <1>t, <1>2, <1>6, <3>1, <3>2, PutAdds
  <2>8. w # "died" /\ g \notin excused' => Holds(t, group[p], toInclude[p], at[p])'
    <3>1. excused \subseteq excused'
      BY <2>1 DEF Safely
    <3> QED  BY <1>3, <1>6, <2>3, <2>5, <2>7, <3>1 DEF Holds
  <2>9. Current'
    BY <1>3, <2>2, <2>5, <2>8, CurrentThen
  <2>10. Second'
    <3>1. Unprovoked' => Unprovoked
      BY <2>1, <2>2, <2>5 DEF Unprovoked, Safely
    <3>2. ~Unprovoked
      BY <1>2, <1>5, <1>8 DEF PutsOwner
    <3> QED  BY <3>1, <3>2 DEF Second
  <2> QED  BY <2>5, <2>6, <2>9, <2>10 DEF GroupsInv
<1> QED  BY <1>2, <1>7, <1>8 DEF SetOwner

(* and making the group visible, after which it is as planned. *)
LEMMA MaintainVisible == GroupsInv /\ SetVisible("maintain") => GroupsInv'
<1> SUFFICES ASSUME GroupsInv, SetVisible("maintain") PROVE GroupsInv'
  OBVIOUS
<1> DEFINE p == "maintain"
<1>t. GroupsTypes
  BY DEF GroupsInv
<1>0. p \in Programs /\ at[p] = "visible" /\ UNCHANGED toInclude /\ group' = [group EXCEPT ![p] = Unread]
  BY DEF Programs, SetVisible
<1>1. PICK k \in DOMAIN Plan : k = task[p]
  BY <1>t DEF GroupsTypes
<1> DEFINE t == Plan[k]
           g == t.group
           old == details[g]
           d == [old EXCEPT !.visible = Visible(p)]
           last == k = Len(Plan)
           where == IF last THEN "done" ELSE "read"
           n == IF last THEN k ELSE k + 1
<1>2. Task(p) = t /\ g \in Groups /\ old \in Detail /\ Visible(p) = TRUE /\ Tasks(p) = Plan
  BY <1>t, <1>0, <1>1, TaskFacts, NewDetails DEF Tasks
<1>3. /\ g \in seen
      /\ g \in excused \/ Holds(t, group[p], toInclude[p], "visible")
  BY <1>0, <1>1 DEF GroupsInv, Current
<1>4. /\ task' = [task EXCEPT ![p] = n] /\ n \in DOMAIN Plan /\ k \in Nat
      /\ toInclude' = [toInclude EXCEPT ![p] = toInclude[p]]
      /\ Unread \in Detail /\ toInclude[p] \in SUBSET Included
  <2>1. task' = [task EXCEPT ![p] = n]
    BY <1>1, <1>2 DEF SetVisible
  <2>2. n \in DOMAIN Plan /\ k \in Nat
    BY PlanFacts
  <2>3. Unread \in Detail
    BY DEF Unread, Detail
  <2> QED  BY <1>t, <1>0, <2>1, <2>2, <2>3 DEF GroupsTypes
<1>5. Unprovoked => group[p].visible
  BY <1>0 DEF GroupsInv, Second
<1>6. d \in Detail /\ d.includes = old.includes /\ d.owner = old.owner /\ d.visible = TRUE
  BY <1>2 DEF Detail
<1>a. ASSUME Safely, UNCHANGED <<options, again, seen>>, wrote' \in BOOLEAN,
             NEW w \in {where, "died"}, at' = [at EXCEPT ![p] = w],
             w # "died" => g \in excused' \/ HasAll(t)'
      PROVE  GroupsTypes' /\ Behind' /\ Current' /\ at'["update"] = at["update"] /\ at'[p] = w
  <2>1. seen' \subseteq groups' /\ w \in Places /\ UNCHANGED <<options, again>>
    BY <1>t, <1>a DEF GroupsTypes, Safely, Places
  <2> HIDE DEF n, where
  <2>a. /\ Safely /\ UNCHANGED <<options, again>> /\ seen' \subseteq groups' /\ wrote' \in BOOLEAN
        /\ w \in Places /\ at' = [at EXCEPT ![p] = w]
    BY <1>a, <2>1
  <2>b. /\ n \in DOMAIN Plan /\ task' = [task EXCEPT ![p] = n]
        /\ Unread \in Detail /\ group' = [group EXCEPT ![p] = Unread]
        /\ toInclude[p] \in SUBSET Included /\ toInclude' = [toInclude EXCEPT ![p] = toInclude[p]]
    BY <1>0, <1>4
  <2>2. GroupsTypes' /\ at'[p] = w /\ task'[p] = n /\ at'["update"] = at["update"]
    <3> HIDE DEF t, g, old, d, last
    <3> QED  BY <1>t, <2>a, <2>b, MaintainTypes
  <2>3. w # "died" => HasGroup(t)' /\ g \in seen'
    BY <1>3, <1>a DEF HasGroup
  <2>4. Behind'
    BY <1>0, <1>1, <1>4, <1>a, <2>2, <2>3, BehindKept DEF n, where
  <2>5. Current'
    BY <1>a, <2>2 DEF Current, where
  <2> QED  BY <2>2, <2>4, <2>5
<1>7. CASE ~PutsVisible(p) /\ Skips(p, where)
  <2>1. UNCHANGED <<gerritVars, seen, excused, wrote>> /\ UNCHANGED <<options, again, seen>> /\ at' = [at EXCEPT ![p] = where]
    BY <1>7 DEF Skips, noteVars, Goes
  <2>2. Safely /\ wrote' \in BOOLEAN
    BY <1>t, <2>1, NothingPut DEF GroupsTypes
  <2>3. g \in excused \/ HasAll(t)'
    <3>1. g \in groups
      BY <1>t, <1>3 DEF GroupsTypes
    <3>2. group[p].visible
      BY <1>2, <1>7 DEF PutsVisible
    <3> QED  BY <1>3, <2>1, <3>1, <3>2 DEF Holds, HasAll, gerritVars
  <2>4. GroupsTypes' /\ Behind' /\ Current' /\ at'["update"] = at["update"] /\ at'[p] = where
    BY <1>a, <2>1, <2>2, <2>3
  <2>5. Second'
    BY <2>1, <2>4, SecondKept
  <2> QED  BY <2>4, <2>5 DEF GroupsInv
<1>8. CASE PutsVisible(p) /\ Put(p, d, TRUE, where)
  <2>0. where \in Places \ {"reread"} /\ where # "died"
    BY DEF Places
  <2> HIDE DEF d, where
  <2>1. Safely
    BY <1>t, <1>0, <1>2, <1>6, <1>8, PutSafely
  <2>2. UNCHANGED <<options, again, seen>> /\ wrote' \in BOOLEAN
    BY <1>t, <1>0, <1>8, PutProgs
  <2>3. PICK w \in {where, "died"} : at' = [at EXCEPT ![p] = w]
    BY <1>t, <1>0, <1>8, PutProgs
  <2>4. w = "died" \/ g \in excused' \/ details'[g] = d
    <3>1. at' = [at EXCEPT ![p] = "died"] \/ g \in excused' \/ details' = [details EXCEPT ![g] = d]
      <4>1. g = Task(p).group
        BY <1>2
      <4> HIDE DEF g, t
      <4> QED  BY <1>t, <1>8, <2>0, <4>1, PutOutcome
    <3>2. at' = [at EXCEPT ![p] = "died"] => w = "died"
      BY <1>t, <1>0, <2>3 DEF GroupsTypes
    <3> QED  BY <1>t, <1>2, <1>6, <3>1, <3>2, PutAdds
  <2>5. w # "died" => g \in excused' \/ HasAll(t)'
    <3>1. excused \subseteq excused' /\ g \in groups'
      BY <1>t, <1>3, <2>1 DEF GroupsTypes, Safely
    <3> QED  BY <1>3, <1>6, <2>4, <3>1 DEF Holds, HasAll
  <2>6. GroupsTypes' /\ Behind' /\ Current' /\ at'["update"] = at["update"]
    BY <1>a, <2>1, <2>2, <2>3, <2>5
  <2>7. Second'
    <3>1. Unprovoked' => Unprovoked
      BY <2>1, <2>2, <2>6 DEF Unprovoked, Safely
    <3>2. ~Unprovoked
      BY <1>2, <1>5, <1>8 DEF PutsVisible
    <3> QED  BY <3>1, <3>2 DEF Second
  <2> QED  BY <2>6, <2>7 DEF GroupsInv
<1> QED  BY <1>1, <1>2, <1>7, <1>8 DEF SetVisible

(* A second run starts with all groups as planned but for those excused. *)
LEMMA AgainKeeps == GroupsInv /\ MaintainAgain => GroupsInv'
<1> SUFFICES ASSUME GroupsInv, MaintainAgain PROVE GroupsInv'
  OBVIOUS
<1> DEFINE p == "maintain"
<1>1. /\ at[p] = "done" /\ at' = [at EXCEPT ![p] = "read"] /\ task' = [task EXCEPT ![p] = 1]
      /\ seen' = {} /\ wrote' = FALSE /\ again' = TRUE
      /\ UNCHANGED <<gerritVars, group, toInclude, options, excused>> /\ p \in Programs /\ "update" \in Programs
  BY DEF MaintainAgain, Goes, Programs
<1>2. 1 \in DOMAIN Plan
  BY PlanFacts
<1>3. GroupsTypes' /\ at'[p] = "read" /\ task'[p] = 1
  BY <1>1, <1>2 DEF GroupsInv, GroupsTypes, gerritVars, Places
<1>4. Behind' /\ Current'
  BY <1>3, PlanFacts DEF Behind, Current
<1>5. excused = {} => \A n \in DOMAIN Plan : HasAll(Plan[n])
  BY <1>1 DEF GroupsInv, Behind, HasGroup
<1>6. \A n \in DOMAIN Plan : HasAll(Plan[n])' = HasAll(Plan[n])
  BY <1>1 DEF HasAll, gerritVars
<1>7. Second'
  BY <1>1, <1>3, <1>5, <1>6 DEF Second, Unprovoked
<1> QED  BY <1>3, <1>4, <1>7 DEF GroupsInv

(* So every step of the two programs keeps the invariant. *)
LEMMA GroupsKept == GroupsInv /\ [GroupsNext]_groupsVars => GroupsInv'
<1> SUFFICES ASSUME GroupsInv, [GroupsNext]_groupsVars PROVE GroupsInv'
  OBVIOUS
<1>1. CASE GroupsStep("maintain")
  BY <1>1, MaintainGet, MaintainCreate, MaintainInclude, MaintainOwner, MaintainVisible DEF GroupsStep
<1>2. CASE GroupsStep("update")
  BY <1>2, UpdateKeeps
<1>3. CASE MaintainAgain
  BY <1>3, AgainKeeps
<1>4. CASE UNCHANGED groupsVars
  <2>1. UNCHANGED <<groups, details, at, task, group, toInclude, options, again, seen, excused, wrote>>
    BY <1>4 DEF groupsVars, gerritVars, progVars, noteVars
  <2> QED  BY <2>1 DEF GroupsInv, GroupsTypes, Behind, Current, Second, Unprovoked, HasGroup, HasAll, Holds
<1> QED  BY <1>1, <1>2, <1>3, <1>4 DEF GroupsNext, Programs

(* A run of maintain-infra-groups that came to its end has left every group *)
(* as planned, or gerrit refused it a put, or update-gerrit-group came      *)
(* after it; and a second run changes nothing: for any repositories and     *)
(* arguments, and wherever the two programs meet.                           *)
THEOREM GroupsComeIntoLine == GroupsSpec => []Maintained
<1>1. GroupsSpec => []GroupsInv
  BY GroupsStart, GroupsKept, PTL DEF GroupsSpec
<1>2. GroupsInv => Maintained
  <2>1. GroupsInv => DoneIsConfigured
    BY DEF GroupsInv, Behind, HasGroup, DoneIsConfigured
  <2>2. GroupsInv => SecondRunIsQuiet
    BY DEF GroupsInv, Second, Unprovoked, SecondRunIsQuiet
  <2> QED  BY <2>1, <2>2 DEF Maintained
<1> QED  BY <1>1, <1>2, PTL

-----------------------------------------------------------------------------
(* THE ACL NORMALISER: every file, every set of transformations.  The lines *)
(* of a section keep the number of the line they come from, so that what is *)
(* written is a sequence of distinct lines in a strict order, and what the  *)
(* gate reads back is the same sequence.                                    *)

(* Every line that is known has a place in the order, headings first. *)
LEMMA Ranks ==
    /\ Headings \subseteq Range(Order)
    /\ \A l \in Range(Order) : Rank(l) \in Nat /\ Order[Rank(l)] = l
    /\ \A h \in Headings, o \in Options : Rank(h) < Rank(o)
<1>1. DOMAIN Order = 1..14
  BY DEF Order
<1>2. Order[1] = "[heads]" /\ Order[2] = "[project]" /\ Order[3] = "[tags]"
  BY DEF Order
<1>3. \A i \in 4..14 : Order[i] \notin Headings
  <2>1. /\ Order[4] = "create" /\ Order[5] = "exclusive a b" /\ Order[6] = "exclusive b a"
        /\ Order[7] = "owner Administrators" /\ Order[8] = "state active"
        /\ Order[9] = "two equals signs" /\ Order[10] = "vote ci-core"
    BY DEF Order
  <2>2. /\ Order[11] = "vote infra-core" /\ Order[12] = "vote team" /\ Order[13] = "vote team-core"
        /\ Order[14] = "vote team-core-core"
    BY DEF Order
  <2>3. /\ Order[4] \notin Headings /\ Order[5] \notin Headings /\ Order[6] \notin Headings
        /\ Order[7] \notin Headings /\ Order[8] \notin Headings /\ Order[9] \notin Headings
        /\ Order[10] \notin Headings
    BY <2>1 DEF Headings
  <2>4. /\ Order[11] \notin Headings /\ Order[12] \notin Headings /\ Order[13] \notin Headings
        /\ Order[14] \notin Headings
    BY <2>2 DEF Headings
  <2> QED BY <2>3, <2>4
<1>4. Headings \subseteq Range(Order)
  BY <1>1, <1>2 DEF Headings, Range
<1>5. \A l \in Range(Order) : Rank(l) \in 1..14 /\ Order[Rank(l)] = l
  BY <1>1 DEF Range, Rank
<1>6. \A h \in Headings : Rank(h) <= 3
  BY <1>3, <1>4, <1>5
<1>7. \A o \in Options : Rank(o) > 3
  <2> SUFFICES ASSUME NEW o \in Options PROVE Rank(o) > 3
    OBVIOUS
  <2>1. Rank(o) \in 1..14 /\ Order[Rank(o)] \notin Headings
    BY <1>5 DEF Options
  <2>2. \A i \in 1..3 : Order[i] \in Headings
    BY <1>2 DEF Headings
  <2> QED BY <2>1, <2>2
<1> QED BY <1>4, <1>5, <1>6, <1>7 DEF Options

(* A line with its section and the line it came from, zero for a heading.   *)
Lines == Range(Order) \X Range(Order) \X Nat

(* They are strictly and totally ordered. *)
LEMMA LinesAreOrdered ==
    /\ \A x \in Lines : ~Before(x, x)
    /\ \A x, y, z \in Lines : Before(x, y) /\ Before(y, z) => Before(x, z)
    /\ \A x, y \in Lines : x = y \/ Before(x, y) \/ Before(y, x)
<1>1. \A l \in Range(Order) : Rank(l) \in Nat
  BY Ranks
<1>2. \A l, m \in Range(Order) : Rank(l) = Rank(m) => l = m
  BY Ranks
<1>3. \A x \in Lines : /\ x[1] \in Range(Order) /\ x[2] \in Range(Order) /\ x[3] \in Nat
                       /\ x = <<x[1], x[2], x[3]>>
  BY DEF Lines
<1>4. \A x \in Lines : Rank(x[1]) \in Nat /\ Rank(x[2]) \in Nat /\ x[3] \in Nat
  BY <1>1, <1>3
<1>5. \A x \in Lines : ~Before(x, x)
  BY <1>4 DEF Before
<1>6. \A x, y, z \in Lines : Before(x, y) /\ Before(y, z) => Before(x, z)
  BY <1>4 DEF Before
<1>7. \A x, y \in Lines : x = y \/ Before(x, y) \/ Before(y, x)
  <2> SUFFICES ASSUME NEW x \in Lines, NEW y \in Lines, ~Before(x, y), ~Before(y, x)
               PROVE  x = y
    OBVIOUS
  <2>1. x[1] = y[1]
    BY <1>2, <1>3, <1>4 DEF Before
  <2>2. x[2] = y[2]
    BY <2>1, <1>2, <1>3, <1>4 DEF Before
  <2>3. x[3] = y[3]
    BY <2>1, <2>2, <1>4 DEF Before
  <2> QED BY <2>1, <2>2, <2>3, <1>3
<1> QED BY <1>5, <1>6, <1>7

(* As many elements as the numbers one maps them to one by one. *)
LEMMA SameSize ==
    ASSUME NEW S, NEW T, NEW f \in [S -> T], IsFiniteSet(S),
           \A x, y \in S : f[x] = f[y] => x = y, \A t \in T : \E x \in S : f[x] = t
    PROVE  IsFiniteSet(T) /\ Cardinality(T) = Cardinality(S)
<1>1. f \in Surjection(S, T)
  BY DEF Surjection
<1>2. f \in Injection(S, T)
  BY DEF Injection, IsInjective
<1> QED BY <1>1, <1>2, FS_Surjection

(* The lines of a sorted set of them are in it, one after the other. *)
LEMMA SortedLines ==
    ASSUME NEW L, IsFiniteSet(L), L \subseteq Lines
    PROVE  \E g \in [1..Cardinality(L) -> L] :
               /\ \A x \in L : \E k \in 1..Cardinality(L) : g[k] = x
               /\ \A i, j \in 1..Cardinality(L) : i < j => Before(g[i], g[j])
               /\ Sorted(L) = [k \in 1..Cardinality(L) |-> g[k][2]]
<1> DEFINE n == Cardinality(L)
           UpTo(x) == {y \in L : ~Before(x, y)}
           g == [k \in 1..n |-> CHOOSE x \in L : Place(L, x) = k]
           T == {Place(L, x) : x \in L}
           f == [x \in L |-> Place(L, x)]
<1>1. n \in Nat
  BY FS_CardinalityType
<1>2. \A x \in L : IsFiniteSet(UpTo(x)) /\ Place(L, x) = Cardinality(UpTo(x)) /\ Place(L, x) \in 1..n
                      /\ Place(L, x) \in Nat
  <2> SUFFICES ASSUME NEW x \in L
               PROVE  IsFiniteSet(UpTo(x)) /\ Place(L, x) = Cardinality(UpTo(x)) /\ Place(L, x) \in 1..n
                      /\ Place(L, x) \in Nat
    OBVIOUS
  <2>1. x \in UpTo(x)
    BY LinesAreOrdered
  <2> DEFINE M == UpTo(x)
  <2>2. M \in SUBSET L
    OBVIOUS
  <2>3. Place(L, x) = Cardinality(M)
    BY DEF Place
  <2> HIDE DEF M
  <2>4. IsFiniteSet(M) /\ Cardinality(M) <= n
    BY <2>2, FS_Subset
  <2>5. Cardinality(M) \in Nat /\ Cardinality(M) # 0
    BY <2>1, <2>4, FS_CardinalityType, FS_EmptySet DEF M
  <2>6. Place(L, x) \in 1..n
    BY <1>1, <2>3, <2>4, <2>5
  <2> QED BY <2>3, <2>4, <2>6 DEF M
<1>3. \A x, y \in L : Before(x, y) => Place(L, x) < Place(L, y)
  <2> SUFFICES ASSUME NEW x \in L, NEW y \in L, Before(x, y)
               PROVE  Place(L, x) < Place(L, y)
    OBVIOUS
  <2> DEFINE M == UpTo(x)
             N == UpTo(y)
  <2>1. M \in SUBSET N
    BY LinesAreOrdered
  <2>2. y \in N /\ y \notin M
    BY LinesAreOrdered
  <2>3. IsFiniteSet(N) /\ Place(L, y) = Cardinality(N) /\ Place(L, x) = Cardinality(M)
    BY <1>2
  <2>4. Place(L, x) \in Nat /\ Place(L, y) \in Nat
    BY <1>2
  <2> HIDE DEF M, N
  <2>5. Cardinality(M) <= Cardinality(N) /\ Cardinality(M) # Cardinality(N)
    BY <2>1, <2>2, <2>3, FS_Subset
  <2> QED BY <2>3, <2>4, <2>5
<1>4. \A x, y \in L : Place(L, x) = Place(L, y) => x = y
  <2>1. \A x \in L : Place(L, x) \in Nat
    BY <1>2
  <2> QED BY <2>1, <1>3, LinesAreOrdered
<1>5. T = 1..n
  <2>1. T \subseteq 1..n
    BY <1>2
  <2>2. f \in [L -> T] /\ \A t \in T : \E x \in L : f[x] = t
    OBVIOUS
  <2>3. \A x, y \in L : f[x] = f[y] => x = y
    BY <1>4
  <2> HIDE DEF f, T
  <2>4. Cardinality(T) = n
    BY <2>2, <2>3, SameSize
  <2> DEFINE D == 1..n
  <2>5. IsFiniteSet(D) /\ Cardinality(D) = n
    BY <1>1, FS_Interval
  <2>6. T \in SUBSET D
    BY <2>1
  <2> HIDE DEF D
  <2>7. T = D
    BY <2>4, <2>5, <2>6, FS_Subset
  <2> QED BY <2>7 DEF D
<1>6. \A k \in 1..n : g[k] \in L /\ Place(L, g[k]) = k
  <2> SUFFICES ASSUME NEW k \in 1..n PROVE g[k] \in L /\ Place(L, g[k]) = k
    OBVIOUS
  <2>1. \E x \in L : Place(L, x) = k
    BY <1>5
  <2> QED BY <2>1
<1>7. \A x \in L : g[Place(L, x)] = x
  <2> HIDE DEF g
  <2> QED BY <1>2, <1>4, <1>6
<1>8. Sorted(L) = [k \in 1..n |-> g[k][2]]
  BY DEF Sorted
<1> HIDE DEF g
<1>9. \A i, j \in 1..n : i < j => Before(g[i], g[j])
  <2> SUFFICES ASSUME NEW i \in 1..n, NEW j \in 1..n, i < j PROVE Before(g[i], g[j])
    OBVIOUS
  <2>1. g[i] # g[j] /\ ~(Place(L, g[j]) < Place(L, g[i]))
    BY <1>6
  <2> QED BY <2>1, <1>3, <1>6, LinesAreOrdered
<1>10. g \in [1..n -> L]
  BY <1>6 DEF g
<1> QED BY <1>2, <1>7, <1>8, <1>9, <1>10

(* What lists all lines of a set in order is the sorted set. *)
LEMMA SortedIs ==
    ASSUME NEW L, L \subseteq Lines, NEW n \in Nat, NEW g \in [1..n -> L],
           \A x \in L : \E k \in 1..n : g[k] = x,
           \A i, j \in 1..n : i < j => Before(g[i], g[j])
    PROVE  Sorted(L) = [k \in 1..n |-> g[k][2]]
<1> DEFINE D == 1..n
<1>0. IsFiniteSet(D) /\ Cardinality(D) = n
  BY FS_Interval
<1>1. \A i, j \in D : g[i] = g[j] => i = j
  BY LinesAreOrdered
<1>2. Cardinality(L) = n
  <2>1. g \in [D -> L] /\ \A x \in L : \E k \in D : g[k] = x
    OBVIOUS
  <2> HIDE DEF D
  <2> QED BY <1>0, <1>1, <2>1, SameSize
<1>3. ASSUME NEW k \in D PROVE Place(L, g[k]) = k
  <2> DEFINE E == 1..k
             M == {y \in L : ~Before(g[k], y)}
             f == [i \in E |-> g[i]]
  <2>1. IsFiniteSet(E) /\ Cardinality(E) = k
    BY FS_Interval
  <2>2. \A i \in E : g[i] \in M
    <3> SUFFICES ASSUME NEW i \in E PROVE g[i] \in M
      OBVIOUS
    <3>1. i = k \/ Before(g[i], g[k])
      OBVIOUS
    <3> QED BY <3>1, LinesAreOrdered
  <2>3. \A y \in M : \E i \in E : g[i] = y
    <3> SUFFICES ASSUME NEW y \in M PROVE \E i \in E : g[i] = y
      OBVIOUS
    <3>1. PICK i \in D : g[i] = y
      OBVIOUS
    <3>2. ~(k < i)
      BY <3>1
    <3> QED BY <3>1, <3>2
  <2>4. f \in [E -> M] /\ \A y \in M : \E i \in E : f[i] = y
    BY <2>2, <2>3
  <2>5. \A i, j \in E : f[i] = f[j] => i = j
    BY <1>1
  <2>6. Place(L, g[k]) = Cardinality(M)
    BY DEF Place
  <2> HIDE DEF E, M, f
  <2> QED BY <2>1, <2>4, <2>5, <2>6, SameSize, ZenonT(60)
<1>4. ASSUME NEW k \in D PROVE (CHOOSE x \in L : Place(L, x) = k) = g[k]
  <2>1. \A x \in L : Place(L, x) = k => x = g[k]
    BY <1>3
  <2> QED BY <1>3, <2>1
<1>5. \A k \in 1..n : (CHOOSE x \in L : Place(L, x) = k)[2] = g[k][2]
  BY <1>4
<1> QED BY <1>2, <1>5 DEF Sorted

(* The options of sections, with the lines they come from. *)
AclOptions == Headings \X Options \X (Nat \ {0})

(* g lists the lines L of A in order, as they are in the text: which of     *)
(* them is below a heading, and which is one.                               *)
Enumerates(A, L, text, n, g) ==
    /\ L \subseteq Lines
    /\ \A x \in L : \E k \in 1..n : g[k] = x
    /\ \A i, j \in 1..n : i < j => Before(g[i], g[j])
    /\ text = [k \in 1..n |-> g[k][2]]
    /\ \A k \in 1..n, s \in Headings : Under(text, k, s) <=> g[k] \in A /\ g[k][1] = s
    /\ \A k \in 1..n : text[k] \in Headings => g[k] = <<text[k], text[k], 0>>

(* There is such a list for what is written of A. *)
LEMMA LinesOfText ==
    ASSUME NEW A, A \subseteq AclOptions, IsFiniteSet(A), NEW L, L = WithHeadings(A),
           NEW text, text = Sorted(L)
    PROVE  \E n \in Nat : \E g \in [1..n -> L] : Enumerates(A, L, text, n, g)
<1> DEFINE H == {<<x[1], x[1], 0>> : x \in A}
           f == [x \in A |-> <<x[1], x[1], 0>>]
<1>1. \A x \in A : /\ x[1] \in Headings /\ x[2] \in Options /\ x[3] \in Nat /\ x[3] # 0
                   /\ x = <<x[1], x[2], x[3]>>
  BY DEF AclOptions
<1>2. A \subseteq Lines /\ H \subseteq Lines
  BY <1>1, Ranks DEF Lines, Options, AclOptions
<1>3. L = A \cup H
  BY DEF WithHeadings
<1>4. IsFiniteSet(H)
  <2>1. f \in [A -> H] /\ \A h \in H : \E x \in A : f[x] = h
    OBVIOUS
  <2> HIDE DEF f, H
  <2>2. f \in Surjection(A, H)
    BY <2>1 DEF Surjection
  <2> QED BY <2>2, FS_Surjection
<1>5. IsFiniteSet(L)
  <2> HIDE DEF H
  <2> QED BY <1>3, <1>4, FS_Union
<1>6. L \subseteq Lines
  BY <1>2, <1>3
<1> DEFINE n == Cardinality(L)
<1>7. n \in Nat
  BY <1>5, FS_CardinalityType
<1>8. PICK g \in [1..n -> L] :
          /\ \A x \in L : \E k \in 1..n : g[k] = x
          /\ \A i, j \in 1..n : i < j => Before(g[i], g[j])
          /\ Sorted(L) = [k \in 1..n |-> g[k][2]]
  BY <1>5, <1>6, SortedLines
<1> HIDE DEF n, H
<1>9. \A k \in 1..n : text[k] = g[k][2]
  BY <1>8
<1>10. \A i, j \in 1..n : ~Before(g[i], g[j]) => j <= i
  <2>1. \A i, j \in 1..n : i = j \/ i < j \/ j < i
    BY <1>7
  <2> QED BY <1>6, <1>7, <1>8, LinesAreOrdered
<1>11. \A k \in 1..n : \/ g[k] \in A /\ text[k] \notin Headings
                       \/ g[k] \in H /\ text[k] \in Headings
  BY <1>1, <1>3, <1>9 DEF H, Options
<1>12. \A k \in 1..n : text[k] \in Headings => g[k] = <<text[k], text[k], 0>>
  BY <1>1, <1>9, <1>11 DEF H
<1>13. ASSUME NEW k \in 1..n, g[k] \in A
       PROVE  \E h \in 1..k : text[h] = g[k][1] /\ \A j \in (h + 1)..k : text[j] \notin Headings
  <2> DEFINE s == g[k][1]
             b == <<s, s, 0>>
  <2>1. b \in H /\ b \in L
    BY <1>3, <1>13 DEF H
  <2>2. PICK h \in 1..n : g[h] = b
    BY <1>8, <2>1
  <2>3. text[h] = s /\ s \in Headings
    BY <1>1, <1>9, <1>13, <2>2
  <2>4. Before(b, g[k])
    BY <1>1, <1>13, Ranks DEF Before
  <2>5. h <= k
    <3>1. ~Before(g[k], g[h])
      BY <1>6, <2>2, <2>4, LinesAreOrdered
    <3> QED BY <3>1, <1>10
  <2>6. ASSUME NEW j \in (h + 1)..k PROVE text[j] \notin Headings
    <3>0. j \in 1..n /\ h < j /\ j <= k /\ h \in Int
      BY <1>7, <2>5
    <3>1. Before(g[h], g[j]) /\ (j = k \/ Before(g[j], g[k]))
      BY <1>8, <3>0
    <3>2. /\ Rank(s) \in Nat /\ Rank(g[j][1]) \in Nat
          /\ g[j][1] \in Range(Order) /\ s \in Range(Order)
      BY <1>6, <2>3, <3>0, Ranks DEF Lines
    <3>3. g[j][1] = s
      <4>1. Rank(g[j][1]) = Rank(s)
        BY <2>2, <3>1, <3>2 DEF Before
      <4> QED BY <3>2, <4>1, Ranks
    <3>4. ASSUME text[j] \in Headings PROVE FALSE
      <4>1. g[j] = <<s, s, 0>>
        BY <1>12, <3>0, <3>3, <3>4
      <4> QED BY <1>6, <2>2, <3>0, <3>1, <4>1, LinesAreOrdered
    <3> QED BY <3>4
  <2> QED BY <2>3, <2>5, <2>6
<1>14. ASSUME NEW k \in 1..n, NEW s \in Headings
       PROVE  Under(text, k, s) <=> g[k] \in A /\ g[k][1] = s
  <2>1. ASSUME g[k] \in A, g[k][1] = s PROVE Under(text, k, s)
    <3>1. text[k] \notin Headings
      BY <1>1, <1>9, <2>1 DEF Options
    <3> QED BY <1>13, <2>1, <3>1 DEF Under
  <2>2. ASSUME Under(text, k, s) PROVE g[k] \in A /\ g[k][1] = s
    <3>1. g[k] \in A
      BY <1>11, <2>2 DEF Under
    <3>2. PICK h \in 1..k : text[h] = g[k][1] /\ \A j \in (h + 1)..k : text[j] \notin Headings
      BY <1>13, <3>1
    <3>3. PICK i \in 1..k : text[i] = s /\ \A j \in (i + 1)..k : text[j] \notin Headings
      BY <2>2 DEF Under
    <3>4. text[h] \in Headings
      BY <1>1, <3>1, <3>2
    <3>5. i = h
      BY <3>2, <3>3, <3>4
    <3> QED BY <3>1, <3>2, <3>3, <3>5
  <2> QED BY <2>1, <2>2
<1>15. Enumerates(A, L, text, n, g)
  BY <1>6, <1>8, <1>12, <1>14 DEF Enumerates
<1> QED BY <1>7, <1>15

(* No transformation touches it, the fifth does not die of it. *)
AtRest(s, o) == o # "two equals signs" /\ \A t \in 2..7 : ~Drops(t, s, o) /\ Rewrite(t, s, o) = o

(* The options of a text below their headings. *)
Occurrences(text) == {x \in AclOptions : /\ x[3] \in DOMAIN text /\ x[2] = text[x[3]]
                                      /\ Under(text, x[3], x[1])}

(* A text that has been written with all transformations, by itself. *)
NormalText(text) ==
    /\ text \in Seq(Range(Order))
    /\ text # <<>> => text[1] \in Headings
    /\ \A i, j \in DOMAIN text : text[i] \in Headings /\ text[i] = text[j] => i = j
    /\ \A x \in Occurrences(text) : AtRest(x[1], x[2])
    /\ text = Sorted(WithHeadings(Occurrences(text)))

(* What is written of options at rest is such a text. *)
LEMMA WrittenIsNormal ==
    ASSUME NEW A, A \subseteq AclOptions, IsFiniteSet(A), \A x \in A : AtRest(x[1], x[2]),
           NEW text, text = Sorted(WithHeadings(A))
    PROVE  NormalText(text)
<1> DEFINE L == WithHeadings(A)
           B == Occurrences(text)
           M == WithHeadings(B)
<1>0. text = Sorted(L)
  OBVIOUS
<1>1. \A x \in L : x \in A \/ \E y \in A : x = <<y[1], y[1], 0>>
  BY DEF WithHeadings
<1>2. \A x \in A : x \in L /\ <<x[1], x[1], 0>> \in L
  BY DEF WithHeadings
<1>3. \A x \in M : x \in B \/ \E y \in B : x = <<y[1], y[1], 0>>
  BY DEF WithHeadings
<1>4. \A x \in B : x \in M /\ <<x[1], x[1], 0>> \in M
  BY DEF WithHeadings
<1>5. \A x \in AclOptions : /\ x[1] \in Headings /\ x[2] \in Options /\ x[3] \in Nat /\ x[3] # 0
                         /\ x = <<x[1], x[2], x[3]>>
  BY DEF AclOptions
<1>6. \A s \in Headings, o \in Options, k \in Nat \ {0} : <<s, o, k>> \in AclOptions
  BY DEF AclOptions
<1>7. B \subseteq AclOptions
  BY DEF Occurrences
<1> HIDE DEF L, M
<1>l. L = WithHeadings(A)
  BY DEF L
<1>n. PICK n \in Nat : \E g \in [1..n -> L] : Enumerates(A, L, text, n, g)
  BY <1>0, <1>l, LinesOfText
<1>g. PICK g \in [1..n -> L] : Enumerates(A, L, text, n, g)
  BY <1>n
<1>8. /\ L \subseteq Lines
      /\ \A x \in L : \E k \in 1..n : g[k] = x
      /\ \A i, j \in 1..n : i < j => Before(g[i], g[j])
      /\ text = [k \in 1..n |-> g[k][2]]
      /\ \A k \in 1..n, s \in Headings : Under(text, k, s) <=> g[k] \in A /\ g[k][1] = s
      /\ \A k \in 1..n : text[k] \in Headings => g[k] = <<text[k], text[k], 0>>
  BY <1>g DEF Enumerates
<1>9. DOMAIN text = 1..n /\ \A k \in 1..n : text[k] = g[k][2]
  BY <1>8
<1>10. \A i, j \in 1..n : g[i] = g[j] => i = j
  BY <1>8, LinesAreOrdered
<1>11. text \in Seq(Range(Order)) /\ Len(text) = n
  <2>1. \A k \in 1..n : text[k] \in Range(Order)
    BY <1>8, <1>9 DEF Lines
  <2>2. text = [k \in 1..n |-> text[k]]
    BY <1>8, <1>9
  <2> QED BY <1>8, <2>1, <2>2
<1>12. ASSUME text # <<>> PROVE text[1] \in Headings
  <2>1. 1 \in 1..n
    BY <1>11, <1>12
  <2>2. CASE g[1] \in A
    <3>1. g[1][1] \in Headings /\ Under(text, 1, g[1][1])
      BY <1>5, <1>8, <2>1, <2>2
    <3> QED BY <3>1 DEF Under
  <2>3. CASE g[1] \notin A
    <3>1. PICK y \in A : g[1] = <<y[1], y[1], 0>>
      BY <1>1, <1>8, <2>1, <2>3
    <3> QED BY <1>5, <1>9, <2>1, <3>1
  <2> QED BY <2>2, <2>3
<1>13. \A i, j \in DOMAIN text : text[i] \in Headings /\ text[i] = text[j] => i = j
  BY <1>8, <1>9, <1>10
<1>14. \A x \in B : /\ x[3] \in 1..n /\ g[x[3]] \in A /\ g[x[3]][1] = x[1] /\ g[x[3]][2] = x[2]
  <2>1. \A x \in B : x[3] \in 1..n /\ Under(text, x[3], x[1]) /\ x[2] = text[x[3]] /\ x[1] \in Headings
    BY <1>5, <1>7, <1>9 DEF Occurrences
  <2> QED BY <1>8, <1>9, <2>1
<1>15. \A x \in B : AtRest(x[1], x[2])
  BY <1>14
<1>16. \A k \in 1..n : g[k] \in A => <<g[k][1], g[k][2], k>> \in B
  <2> SUFFICES ASSUME NEW k \in 1..n, g[k] \in A PROVE <<g[k][1], g[k][2], k>> \in B
    OBVIOUS
  <2>1. g[k][1] \in Headings /\ g[k][2] \in Options /\ g[k][2] = text[k] /\ k \in Nat \ {0}
    BY <1>5, <1>9
  <2>2. Under(text, k, g[k][1])
    BY <1>8, <2>1
  <2> QED BY <1>6, <1>9, <2>1, <2>2 DEF Occurrences
<1> DEFINE f == [k \in 1..n |-> IF g[k] \in A THEN <<g[k][1], g[k][2], k>> ELSE g[k]]
<1>17. f \in [1..n -> M]
  <2> SUFFICES ASSUME NEW k \in 1..n, g[k] \notin A PROVE g[k] \in M
    BY <1>4, <1>16
  <2>1. PICK y \in A : g[k] = <<y[1], y[1], 0>>
    BY <1>1, <1>8
  <2>2. PICK j \in 1..n : g[j] = y
    BY <1>2, <1>8
  <2>3. <<y[1], y[2], j>> \in B
    BY <1>16, <2>2
  <2> DEFINE z == <<y[1], y[2], j>>
  <2>4. z[1] = y[1] /\ z \in B
    BY <2>3
  <2> HIDE DEF z
  <2> QED BY <1>4, <2>1, <2>4
<1>18. ASSUME NEW x \in M PROVE \E k \in 1..n : f[k] = x
  <2>1. CASE x \in B
    BY <1>5, <1>7, <1>14, <2>1
  <2>2. CASE x \notin B
    <3>1. PICK y \in B : x = <<y[1], y[1], 0>>
      BY <1>3, <1>18, <2>2
    <3>2. x \in L
      BY <1>2, <1>14, <3>1
    <3>3. PICK k \in 1..n : g[k] = x
      BY <1>8, <3>2
    <3>4. g[k] \notin A
      BY <1>5, <3>1, <3>3
    <3> QED BY <3>3, <3>4
  <2> QED BY <2>1, <2>2
<1>19. ASSUME NEW i \in 1..n, NEW j \in 1..n, i < j PROVE Before(f[i], f[j])
  <2>1. Before(g[i], g[j])
    BY <1>8, <1>19
  <2>2. f[i][1] = g[i][1] /\ f[i][2] = g[i][2] /\ f[j][1] = g[j][1] /\ f[j][2] = g[j][2]
    OBVIOUS
  <2>3. CASE g[i][1] = g[j][1] /\ g[i][2] = g[j][2] /\ g[i][3] < g[j][3]
    <3>1. g[i][3] \in Nat /\ g[j][3] \in Nat
      BY <1>8 DEF Lines
    <3>2. \A k \in 1..n : IF g[k] \in A THEN g[k][2] \in Options ELSE g[k][3] = 0 /\ g[k][2] \in Headings
      <4>1. ASSUME NEW k \in 1..n, g[k] \notin A PROVE g[k][3] = 0 /\ g[k][2] \in Headings
        <5>1. PICK y \in A : g[k] = <<y[1], y[1], 0>>
          BY <1>1, <1>8, <4>1
        <5> QED BY <1>5, <5>1
      <4> QED BY <1>5, <4>1
    <3>3. g[j] \in A
      BY <2>3, <3>1, <3>2
    <3>4. g[i] \in A
      BY <2>3, <3>2, <3>3 DEF Options
    <3>5. f[i][3] = i /\ f[j][3] = j
      BY <3>3, <3>4
    <3> HIDE DEF f
    <3> QED BY <1>19, <2>2, <2>3, <3>5 DEF Before
  <2>4. CASE ~(g[i][1] = g[j][1] /\ g[i][2] = g[j][2] /\ g[i][3] < g[j][3])
    <3> HIDE DEF f
    <3> QED BY <2>1, <2>2, <2>4 DEF Before
  <2> QED BY <2>3, <2>4
<1>20. \A k \in 1..n : f[k][2] = g[k][2]
  OBVIOUS
<1>21. M \subseteq Lines
  <2>1. \A s \in Headings : <<s, s, 0>> \in Lines
    BY Ranks DEF Lines
  <2>2. AclOptions \subseteq Lines
    BY Ranks DEF Lines, AclOptions, Options
  <2> QED BY <1>3, <1>5, <1>7, <2>1, <2>2
<1>22. text = Sorted(M)
  <2> HIDE DEF f
  <2>1. Sorted(M) = [k \in 1..n |-> f[k][2]]
    <3>1. \A x \in M : \E k \in 1..n : f[k] = x
      BY <1>18
    <3>2. \A i, j \in 1..n : i < j => Before(f[i], f[j])
      BY <1>19
    <3> QED BY ONLY <1>17, <1>21, <3>1, <3>2, n \in Nat, SortedIs
  <2> QED BY <1>8, <1>20, <2>1
<1> QED BY <1>11, <1>12, <1>13, <1>15, <1>22 DEF NormalText, M

(* Types. *)
AclTypeOK ==
    /\ original \in Seq(STRING \cup Range(Order)) /\ file \in Seq(STRING \cup Range(Order))
    /\ line \in Nat \ {0} /\ (phase = "transform" => line \in 2..8)
    /\ gate \in BOOLEAN /\ section \in Headings \cup {"none"}
    /\ acl \subseteq AclOptions /\ IsFiniteSet(acl)

(* What has been parsed: the section is that of the last heading, and acl   *)
(* holds what is below each heading that has not occurred again.            *)
ParseInv ==
    phase = "parse" =>
        /\ line <= Len(file) + 1
        /\ \A j \in 1..(line - 1) : file[j] \in Range(Order)
        /\ IF section = "none" THEN \A j \in 1..(line - 1) : file[j] \notin Headings
           ELSE \E h \in 1..(line - 1) : /\ file[h] = section
                                         /\ \A j \in (h + 1)..(line - 1) : file[j] \notin Headings
        /\ \A x \in AclOptions : x \in acl <=>
               /\ x[3] < line /\ x[2] = file[x[3]] /\ Under(file, x[3], x[1])
               /\ \A j \in (x[3] + 1)..(line - 1) : file[j] # x[1]

(* The first run knows of each option the line it came from, and of those   *)
(* that stay it has all.                                                    *)
Traced(A) ==
    /\ \A x, y \in A : x[3] = y[3] => x = y
    /\ \A x \in A : /\ x[3] \in DOMAIN original /\ Under(original, x[3], x[1])
                    /\ Kind(original[x[3]]) = Kind(x[2])
    /\ \A s \in Headings, o \in Options : Stays(s, o) =>
           \A i \in Below(original, s, Kind(o)) : \E x \in A : x[3] = i
FirstInv ==
    /\ phase \in {"parse", "transform", "write"} /\ ~gate => file = original
    /\ phase \in {"transform", "write"} /\ ~gate => Traced(acl)

(* The transformations made so far have nothing left to do. *)
RestInv ==
    phase \in {"transform", "write"} /\ ~gate /\ transformations = All \ {0} =>
        /\ phase = "write" => line = 8
        /\ \A x \in acl : /\ line > 5 => x[2] # "two equals signs"
                          /\ \A t \in 2..(line - 1) : /\ ~Drops(t, x[1], x[2])
                                                      /\ Rewrite(t, x[1], x[2]) = x[2]

(* What the first run has written. *)
WrittenInv ==
    phase = "done" \/ gate => NothingMissing /\ (transformations = All \ {0} => NormalText(file))

(* The gate finds in it what was written. *)
GateInv ==
    gate /\ transformations = All \ {0} =>
        /\ phase # "died"
        /\ phase \in {"transform", "write"} => acl = Occurrences(file)
        /\ phase = "done" => printed = file \/ file = <<>>

AclFileInv == AclTypeOK /\ ParseInv /\ FirstInv /\ RestInv /\ WrittenInv /\ GateInv

(* A line is below one heading only. *)
LEMMA UnderOne ==
    ASSUME NEW text, NEW i \in Nat, NEW s \in Headings, NEW r \in Headings,
           Under(text, i, s), Under(text, i, r)
    PROVE  s = r
<1>1. PICK h \in 1..i : text[h] = s /\ \A j \in (h + 1)..i : text[j] \notin Headings
  BY DEF Under
<1>2. PICK k \in 1..i : text[k] = r /\ \A j \in (k + 1)..i : text[j] \notin Headings
  BY DEF Under
<1> QED BY <1>1, <1>2

(* Which one, as the parser knows it. *)
LEMMA SectionIsLastHeading ==
    ASSUME NEW text, NEW i \in Nat \ {0}, text[i] \notin Headings, NEW s \in Headings,
           \E h \in 1..(i - 1) : text[h] = s /\ \A j \in (h + 1)..(i - 1) : text[j] \notin Headings
    PROVE  Under(text, i, s)
<1>1. PICK h \in 1..(i - 1) : text[h] = s /\ \A j \in (h + 1)..(i - 1) : text[j] \notin Headings
  OBVIOUS
<1>2. \A j \in (h + 1)..i : j = i \/ j \in (h + 1)..(i - 1)
  OBVIOUS
<1>3. h \in 1..i
  OBVIOUS
<1> QED BY <1>1, <1>2, <1>3 DEF Under

(* A heading that occurs once does not occur again. *)
LEMMA OnceIsOnce ==
    ASSUME original \in Seq(STRING \cup Range(Order)), NEW s, Once(s),
           NEW i \in DOMAIN original, NEW j \in DOMAIN original, original[i] = s, original[j] = s
    PROVE  i = j
<1> DEFINE T == {k \in DOMAIN original : original[k] = s}
           D == 1..Len(original)
<1>1. IsFiniteSet(T)
  <2>1. IsFiniteSet(D)
    BY FS_Interval
  <2>2. T \in SUBSET D
    OBVIOUS
  <2> HIDE DEF T, D
  <2> QED BY <2>1, <2>2, FS_Subset
<1>2. Cardinality(T) = 1 /\ i \in T /\ j \in T
  BY DEF Once
<1> HIDE DEF T
<1>3. \E x : T = {x}
  BY <1>1, <1>2, FS_Singleton
<1> QED BY <1>2, <1>3

(* It starts so. *)
LEMMA AclFileInitInv == AclInit => AclFileInv
<1> SUFFICES ASSUME AclInit PROVE AclFileInv
  OBVIOUS
<1>1. original \in Seq(STRING)
  BY AclAssumption DEF AclInit
<1>2. AclTypeOK
  <2>1. original \in Seq(STRING \cup Range(Order))
    BY <1>1
  <2>2. acl = {} /\ IsFiniteSet(acl)
    BY FS_EmptySet DEF AclInit
  <2>3. gate \in BOOLEAN
    BY DEF AclInit
  <2>4. line \in Nat \ {0} /\ section \in Headings \cup {"none"}
    BY DEF AclInit
  <2>5. file = original /\ phase = "parse"
    BY DEF AclInit
  <2> QED BY <2>1, <2>2, <2>3, <2>4, <2>5 DEF AclTypeOK
<1>3. ParseInv
  <2>1. \A x \in AclOptions : ~(x[3] < 1)
    BY DEF AclOptions
  <2> QED BY <1>1, <2>1 DEF AclInit, ParseInv
<1> QED BY <1>2, <1>3 DEF AclInit, AclFileInv, FirstInv, RestInv, WrittenInv, GateInv

(* A line is parsed. *)
LEMMA ParseLineInv == AclFileInv /\ ParseLine => AclFileInv'
<1> SUFFICES ASSUME AclFileInv, ParseLine PROVE AclFileInv'
  OBVIOUS
<1> DEFINE l == file[line]
<1>1. /\ phase = "parse" /\ line \in Nat \ {0} /\ line <= Len(file) /\ Len(file) \in Nat
      /\ file' = file /\ original' = original /\ gate' = gate /\ printed' = printed
      /\ transformations' = transformations /\ specialProject' = specialProject
      /\ DOMAIN file = 1..Len(file)
  BY DEF AclFileInv, AclTypeOK, ParseLine, aclArgs
<1>2. Headings \cap Options = {} /\ Headings \cup Options = Range(Order)
  BY Ranks DEF Options
<1>3. \/ l \in Headings /\ section' = l /\ acl' = {x \in acl : x[1] # l} /\ line' = line + 1 /\ phase' = phase
      \/ /\ l \in Options /\ section # "none" /\ acl' = acl \cup {<<section, l, line>>}
         /\ line' = line + 1 /\ phase' = phase /\ section' = section
      \/ /\ ~(l \in Headings) /\ ~(l \in Options /\ section # "none")
         /\ phase' = "died" /\ line' = line /\ section' = section /\ acl' = acl
  BY DEF ParseLine, Dies
<1>4. NothingMissing' <=> NothingMissing
  BY <1>1 DEF NothingMissing, Stays, Once
<1>5. NormalText(file)' <=> NormalText(file)
  BY <1>1 DEF NormalText, AtRest, Rewrite, AddsCore
<1>6. WrittenInv'
  BY <1>1, <1>3, <1>4, <1>5 DEF AclFileInv, WrittenInv
<1>7. FirstInv' /\ RestInv'
  BY <1>1, <1>3 DEF AclFileInv, FirstInv, RestInv
<1>8. AclTypeOK'
  <2>1. IsFiniteSet(acl')
    <3>1. CASE acl' \in SUBSET acl
      BY <3>1, FS_Subset DEF AclFileInv, AclTypeOK
    <3>2. CASE acl' = acl \cup {<<section, l, line>>}
      BY <3>2, FS_AddElement DEF AclFileInv, AclTypeOK
    <3> QED BY <1>3, <3>1, <3>2
  <2>2. acl' \subseteq AclOptions
    BY <1>1, <1>3 DEF AclFileInv, AclTypeOK, AclOptions
  <2>3. section' \in Headings \cup {"none"} /\ line' \in Nat \ {0}
    BY <1>1, <1>3 DEF AclFileInv, AclTypeOK
  <2>4. phase' # "transform"
    BY <1>1, <1>3
  <2> QED BY <1>1, <2>1, <2>2, <2>3, <2>4 DEF AclFileInv, AclTypeOK
<1>9. GateInv'
  <2> SUFFICES ASSUME gate, transformations = All \ {0} PROVE phase' # "died" /\ phase' = "parse"
    BY <1>1 DEF GateInv
  <2>1. NormalText(file)
    BY DEF AclFileInv, WrittenInv
  <2>2. l \in Range(Order) /\ file[1] \in Headings
    BY <1>1, <2>1 DEF NormalText
  <2>3. section = "none" => line = 1
    BY <1>1, <2>2 DEF AclFileInv, ParseInv
  <2> QED BY <1>1, <1>2, <1>3, <2>2, <2>3
<1>10. ParseInv'
  <2> SUFFICES ASSUME phase' = "parse" PROVE ParseInv'
    BY DEF ParseInv
  <2>0. line' = line + 1 /\ line' <= Len(file) + 1 /\ l \in Range(Order)
    BY <1>1, <1>2, <1>3
  <2>1. \A j \in 1..(line' - 1) : j = line \/ j \in 1..(line - 1)
    BY <1>1, <2>0
  <2>2. \A j \in 1..(line' - 1) : file[j] \in Range(Order)
    BY <1>1, <2>0, <2>1 DEF AclFileInv, ParseInv
  <2>3. IF section' = "none" THEN \A j \in 1..(line' - 1) : file[j] \notin Headings
        ELSE \E h \in 1..(line' - 1) : /\ file[h] = section'
                                       /\ \A j \in (h + 1)..(line' - 1) : file[j] \notin Headings
    <3>1. CASE l \in Headings
      <4>1. section' = l /\ line \in 1..(line' - 1) /\ (line + 1)..(line' - 1) = {} /\ l # "none"
        BY <1>1, <1>2, <1>3, <2>0, <3>1 DEF Headings
      <4> QED BY <4>1
    <3>2. CASE l \notin Headings
      <4>1. section' = section /\ section # "none"
        BY <1>3, <3>2, <1>1
      <4>2. PICK h \in 1..(line - 1) : /\ file[h] = section
                                       /\ \A j \in (h + 1)..(line - 1) : file[j] \notin Headings
        BY <1>1, <4>1 DEF AclFileInv, ParseInv
      <4>3. h \in 1..(line' - 1) /\ \A j \in (h + 1)..(line' - 1) : j = line \/ j \in (h + 1)..(line - 1)
        BY <1>1, <2>0
      <4> QED BY <3>2, <4>1, <4>2, <4>3
    <3> QED BY <3>1, <3>2
  <2>4. ASSUME NEW x \in AclOptions
        PROVE  x \in acl' <=> /\ x[3] < line' /\ x[2] = file[x[3]] /\ Under(file, x[3], x[1])
                              /\ \A j \in (x[3] + 1)..(line' - 1) : file[j] # x[1]
    <3>1. /\ x[1] \in Headings /\ x[2] \in Options /\ x[3] \in Nat /\ x[3] # 0
          /\ x = <<x[1], x[2], x[3]>>
      BY <2>4 DEF AclOptions
    <3>2. x \in acl <=> /\ x[3] < line /\ x[2] = file[x[3]] /\ Under(file, x[3], x[1])
                        /\ \A j \in (x[3] + 1)..(line - 1) : file[j] # x[1]
      BY <1>1, <2>4 DEF AclFileInv, ParseInv
    <3>3. x[3] < line => \A j : j \in (x[3] + 1)..(line' - 1) <=> j = line \/ j \in (x[3] + 1)..(line - 1)
      BY <1>1, <2>0, <3>1
    <3>4. x[3] < line' <=> x[3] < line \/ x[3] = line
      BY <1>1, <2>0, <3>1
    <3>5. CASE l \in Headings
      <4>1. x \in acl' <=> x \in acl /\ x[1] # l
        BY <1>2, <1>3, <1>1, <3>5
      <4>2. x[3] = line => x[2] # file[x[3]]
        BY <1>2, <3>1, <3>5
      <4> QED BY <3>2, <3>3, <3>4, <4>1, <4>2
    <3>6. CASE l \notin Headings
      <4>1. acl' = acl \cup {<<section, l, line>>} /\ section # "none" /\ section \in Headings
        BY <1>1, <1>3, <3>6 DEF AclFileInv, AclTypeOK
      <4>2. Under(file, line, section)
        <5>1. \E h \in 1..(line - 1) : file[h] = section /\ \A j \in (h + 1)..(line - 1) : file[j] \notin Headings
          BY <1>1, <4>1 DEF AclFileInv, ParseInv
        <5> QED BY <1>1, <3>6, <4>1, <5>1, SectionIsLastHeading
      <4>3. x[3] = line => (Under(file, x[3], x[1]) <=> x[1] = section)
        BY <1>1, <3>1, <4>1, <4>2, UnderOne
      <4>4. CASE x[3] = line
        <5>1. (x[3] + 1)..(line' - 1) = {} /\ ~(x[3] < line)
          BY <1>1, <2>0, <4>4
        <5>2. x \in acl' <=> x[1] = section /\ x[2] = l
          BY <3>1, <3>2, <4>1, <4>4, <5>1
        <5> QED BY <3>4, <4>3, <4>4, <5>1, <5>2
      <4>5. CASE x[3] # line
        <5>1. x \in acl' <=> x \in acl
          BY <3>1, <4>1, <4>5
        <5>2. x[1] # file[line]
          BY <3>1, <3>6
        <5> QED BY <3>2, <3>3, <3>4, <4>5, <5>1, <5>2
      <4> QED BY <4>4, <4>5
    <3> QED BY <3>5, <3>6
  <2> QED BY <1>1, <2>0, <2>2, <2>3, <2>4 DEF ParseInv
<1> QED BY <1>6, <1>7, <1>8, <1>9, <1>10 DEF AclFileInv

(* The last line has been parsed: nothing that stays is missing. *)
LEMMA ParsedInv == AclFileInv /\ Parsed => AclFileInv'
<1> SUFFICES ASSUME AclFileInv, Parsed PROVE AclFileInv'
  OBVIOUS
<1>1. /\ phase = "parse" /\ line > Len(file) /\ phase' = "transform" /\ line' = 2
      /\ file' = file /\ original' = original /\ gate' = gate /\ printed' = printed
      /\ transformations' = transformations /\ specialProject' = specialProject
      /\ section' = section /\ acl' = acl
  BY DEF Parsed, aclArgs
<1>2. line = Len(file) + 1 /\ DOMAIN file = 1..Len(file) /\ Len(file) \in Nat
  BY <1>1 DEF AclFileInv, AclTypeOK, ParseInv
<1>3. NothingMissing' <=> NothingMissing
  BY <1>1 DEF NothingMissing, Stays, Once
<1>4. NormalText(file)' <=> NormalText(file)
  BY <1>1 DEF NormalText, AtRest, Rewrite, AddsCore
<1>5. AclTypeOK' /\ ParseInv'
  BY <1>1 DEF AclFileInv, AclTypeOK, ParseInv
<1>6. WrittenInv'
  BY <1>1, <1>3, <1>4 DEF AclFileInv, WrittenInv
<1>7. \A x \in AclOptions : /\ x[1] \in Headings /\ x[2] \in Options /\ x[3] \in Nat /\ x[3] # 0
                         /\ x = <<x[1], x[2], x[3]>>
  BY DEF AclOptions
<1>8. \A x \in AclOptions : x \in acl <=>
          /\ x[3] \in 1..Len(file) /\ x[2] = file[x[3]] /\ Under(file, x[3], x[1])
          /\ \A j \in (x[3] + 1)..Len(file) : file[j] # x[1]
  <2> SUFFICES ASSUME NEW x \in AclOptions
               PROVE  x \in acl <=> /\ x[3] \in 1..Len(file) /\ x[2] = file[x[3]] /\ Under(file, x[3], x[1])
                                   /\ \A j \in (x[3] + 1)..Len(file) : file[j] # x[1]
    OBVIOUS
  <2>1. x[3] < line <=> x[3] \in 1..Len(file)
    BY <1>2, <1>7
  <2>2. line - 1 = Len(file)
    BY <1>2
  <2> QED BY <1>1, <2>1, <2>2 DEF AclFileInv, ParseInv
<1>9. RestInv'
  <2> SUFFICES ASSUME NEW x \in acl
               PROVE  line' <= 5 /\ \A t \in 2..(line' - 1) : FALSE
    BY <1>1 DEF RestInv
  <2> QED BY <1>1
<1>10. GateInv'
  <2> SUFFICES ASSUME gate, transformations = All \ {0} PROVE acl = Occurrences(file)
    BY <1>1 DEF GateInv
  <2>1. NormalText(file)
    BY DEF AclFileInv, WrittenInv
  <2>2. \A i, j \in 1..Len(file) : file[i] \in Headings /\ file[i] = file[j] => i = j
    BY <1>2, <2>1 DEF NormalText
  <2>3. ASSUME NEW x \in AclOptions, x[3] \in 1..Len(file), Under(file, x[3], x[1])
        PROVE  \A j \in (x[3] + 1)..Len(file) : file[j] # x[1]
    <3>1. PICK h \in 1..x[3] : file[h] = x[1]
      BY <2>3 DEF Under
    <3>2. h \in 1..Len(file) /\ \A j \in (x[3] + 1)..Len(file) : j \in 1..Len(file) /\ j # h
      BY <1>2, <2>3
    <3> QED BY <1>7, <2>2, <2>3, <3>1, <3>2
  <2>4. \A x \in AclOptions : x \in acl <=> x[3] \in 1..Len(file) /\ x[2] = file[x[3]] /\ Under(file, x[3], x[1])
    BY <1>8, <2>3
  <2>5. acl \subseteq AclOptions
    BY DEF AclFileInv, AclTypeOK
  <2> QED BY <1>2, <2>4, <2>5 DEF Occurrences
<1>s. \A s, o : Stays(s, o)' <=> Stays(s, o)
  BY <1>1 DEF Stays, Once
<1>11. FirstInv'
  <2> SUFFICES ASSUME ~gate PROVE file = original /\ Traced(acl)
    BY <1>1, <1>s DEF FirstInv, Traced
  <2>1. file = original /\ acl \subseteq AclOptions
    BY <1>1 DEF AclFileInv, FirstInv, AclTypeOK
  <2>2. \A x, y \in acl : x[3] = y[3] => x = y
    <3> SUFFICES ASSUME NEW x \in acl, NEW y \in acl, x[3] = y[3] PROVE x = y
      OBVIOUS
    <3>1. /\ Under(file, x[3], x[1]) /\ Under(file, x[3], y[1]) /\ x[2] = y[2]
          /\ x[1] \in Headings /\ y[1] \in Headings /\ x[3] \in Nat
      BY <1>7, <1>8, <2>1
    <3>2. x[1] = y[1]
      BY <3>1, UnderOne
    <3> QED BY <1>7, <2>1, <3>1, <3>2
  <2>3. \A x \in acl : /\ x[3] \in DOMAIN original /\ Under(original, x[3], x[1])
                       /\ Kind(original[x[3]]) = Kind(x[2])
    BY <1>2, <1>8, <2>1
  <2>4. ASSUME NEW s \in Headings, NEW o \in Options, Stays(s, o), NEW i \in Below(original, s, Kind(o))
        PROVE  \E x \in acl : x[3] = i
    <3>1. i \in 1..Len(file) /\ Under(file, i, s) /\ file[i] \in Options
      <4>1. i \in 1..Len(file) /\ Under(file, i, s)
        BY <1>2, <2>1, <2>4 DEF Below
      <4>2. file[i] \in Range(Order) /\ file[i] \notin Headings
        BY <1>1, <1>2, <4>1 DEF AclFileInv, ParseInv, Under
      <4> QED BY <4>1, <4>2 DEF Options
    <3>2. PICK h \in 1..i : file[h] = s
      BY <3>1 DEF Under
    <3>3. \A j \in (i + 1)..Len(file) : j \in DOMAIN original /\ h \in DOMAIN original /\ j # h
      BY <1>2, <2>1, <3>1
    <3>4. Once(s) /\ original \in Seq(STRING \cup Range(Order))
      BY <2>4 DEF Stays, AclFileInv, AclTypeOK
    <3>5. \A j \in (i + 1)..Len(file) : file[j] # s
      BY <2>1, <3>2, <3>3, <3>4, OnceIsOnce
    <3> DEFINE x == <<s, file[i], i>>
    <3>6. x[1] = s /\ x[2] = file[i] /\ x[3] = i /\ x \in AclOptions
      BY <1>2, <3>1 DEF AclOptions
    <3> HIDE DEF x
    <3> QED BY <1>8, <3>1, <3>5, <3>6
  <2> QED BY <2>1, <2>2, <2>3, <2>4 DEF Traced
<1> QED BY <1>5, <1>6, <1>9, <1>10, <1>11 DEF AclFileInv

(* What a rewritten option is: of the same kind, and nothing that any       *)
(* transformation would touch again.                                        *)
LEMMA RewriteRests ==
    ASSUME NEW t \in 2..7, NEW s \in Headings, NEW o \in Options, NEW p, p = Rewrite(t, s, o)
    PROVE  p \in Options /\ Kind(p) = Kind(o) /\ (p = o \/ AtRest(s, p))
<1>1. p = o \/ p \in {"exclusive a b", "vote infra-core", "vote team-core"}
  BY DEF Rewrite, AddsCore, Votes, WithCore
<1>2. {"exclusive a b", "vote infra-core", "vote team-core"} \subseteq Options
  <2>1. DOMAIN Order = 1..14 /\ Order[5] = "exclusive a b" /\ Order[11] = "vote infra-core" /\ Order[13] = "vote team-core"
    BY DEF Order
  <2>2. {"exclusive a b", "vote infra-core", "vote team-core"} \cap Headings = {}
    BY DEF Headings
  <2>3. \A i \in 1..14 : Order[i] \in Range(Order)
    BY <2>1 DEF Range
  <2>4. Order[5] \in Range(Order) /\ Order[11] \in Range(Order) /\ Order[13] \in Range(Order)
    BY <2>3
  <2> QED BY <2>1, <2>2, <2>4 DEF Options
<1>3. CASE p = o
  BY <1>3
<1>4. CASE p # o
  <2>1. \/ o = "exclusive b a" /\ p = "exclusive a b"
        \/ o = "vote ci-core" /\ p = "vote infra-core"
        \/ o = "vote team" /\ p = "vote team-core"
    BY <1>4 DEF Rewrite, AddsCore, Votes, WithCore
  <2>2. Kind(p) = Kind(o)
    BY <2>1 DEF Kind, Votes, SpecialTeams, Exclusives
  <2>3. ASSUME NEW u \in 2..7 PROVE ~Drops(u, s, p) /\ Rewrite(u, s, p) = p
    <3>1. ~Drops(u, s, p)
      BY <2>1 DEF Drops
    <3>2. p # "exclusive b a" /\ p # "vote ci-core" /\ p # "vote team"
      BY <2>1
    <3>3. ~AddsCore(s, p)
      BY <3>2 DEF AddsCore, Votes
    <3> QED BY <3>1, <3>2, <3>3 DEF Rewrite
  <2>4. p # "two equals signs"
    BY <2>1
  <2> QED BY <1>1, <1>2, <1>4, <2>2, <2>3, <2>4 DEF AtRest
<1> QED BY <1>3, <1>4

(* What is left out is not of a kind that stays. *)
LEMMA DropsNothingElse ==
    ASSUME NEW t \in 2..7, NEW s \in Headings, NEW o \in Options, NEW p \in Options,
           Drops(t, s, p), Kind(p) = Kind(o)
    PROVE  ~Stays(s, o)
<1>1. \/ s = "[tags]" /\ p = "create"
      \/ s = "[project]" /\ p = "state active"
      \/ p = "owner Administrators"
  BY DEF Drops
<1>2. Kind(p) = p /\ p # "vote" /\ p # "exclusive"
  BY <1>1 DEF Kind, Votes, SpecialTeams, Exclusives
<1>3. o = p
  BY <1>2 DEF Kind
<1> QED BY <1>1, <1>3 DEF Stays, Removed

(* A transformation is made or not. *)
LEMMA TransformInv == AclFileInv /\ Transform => AclFileInv'
<1> SUFFICES ASSUME AclFileInv, Transform PROVE AclFileInv'
  OBVIOUS
<1>1. /\ phase = "transform" /\ line \in 2..8 /\ phase' # "parse" /\ phase' # "done"
      /\ file' = file /\ original' = original /\ gate' = gate /\ printed' = printed
      /\ transformations' = transformations /\ specialProject' = specialProject
      /\ section' = section
  BY DEF Transform, aclArgs, AclFileInv, AclTypeOK, Dies
<1>2. \/ line = 8 /\ phase' = "write" /\ line' = line /\ acl' = acl
      \/ /\ line \in Wanted /\ line = 5 /\ \E x \in acl : x[2] = "two equals signs"
         /\ phase' = "died" /\ line' = line /\ acl' = acl
      \/ /\ line \in 2..7 /\ line' = line + 1 /\ phase' = phase
         /\ ~(line \in Wanted /\ line = 5 /\ \E x \in acl : x[2] = "two equals signs")
         /\ acl' = IF line \in Wanted THEN Transformed(line) ELSE acl
  <2>1. CASE line > 7
    BY <1>1, <2>1 DEF Transform
  <2>2. CASE ~(line > 7)
    <3>1. line \in 2..7
      BY <1>1, <2>2
    <3> QED BY <2>2, <3>1 DEF Transform, Dies
  <2> QED BY <2>1, <2>2
<1>l. line' \in 2..8
  <2>1. CASE line' = line
    BY <1>1, <2>1
  <2>2. CASE line \in 2..7 /\ line' = line + 1
    BY <2>2
  <2> QED BY <1>2, <2>1, <2>2
<1>3. NothingMissing' <=> NothingMissing
  BY <1>1 DEF NothingMissing, Stays, Once
<1>4. NormalText(file)' <=> NormalText(file)
  BY <1>1 DEF NormalText, AtRest, Rewrite, AddsCore
<1>5. WrittenInv' /\ ParseInv'
  BY <1>1, <1>3, <1>4 DEF AclFileInv, WrittenInv, ParseInv
<1>6. \A x \in AclOptions : /\ x[1] \in Headings /\ x[2] \in Options /\ x[3] \in Nat /\ x[3] # 0
                         /\ x = <<x[1], x[2], x[3]>>
  BY DEF AclOptions
<1>7. acl \subseteq AclOptions /\ IsFiniteSet(acl)
  BY DEF AclFileInv, AclTypeOK
<1> DEFINE K == {y \in acl : ~Drops(line, y[1], y[2])}
           Made(y) == <<y[1], Rewrite(line, y[1], y[2]), y[3]>>
<1>8. Transformed(line) = {Made(y) : y \in K}
  BY DEF Transformed
<1>9. ASSUME line \in 2..7
      PROVE  \A y \in K : /\ y \in acl /\ Made(y) \in AclOptions
                          /\ Made(y)[1] = y[1] /\ Made(y)[3] = y[3] /\ Kind(Made(y)[2]) = Kind(y[2])
                          /\ Made(y) = y \/ AtRest(y[1], Made(y)[2])
                          /\ Made(y)[2] = Rewrite(line, y[1], y[2])
  <2> SUFFICES ASSUME NEW y \in K
               PROVE  /\ y \in acl /\ Made(y) \in AclOptions
                      /\ Made(y)[1] = y[1] /\ Made(y)[3] = y[3] /\ Kind(Made(y)[2]) = Kind(y[2])
                      /\ Made(y) = y \/ AtRest(y[1], Made(y)[2])
                      /\ Made(y)[2] = Rewrite(line, y[1], y[2])
    OBVIOUS
  <2> DEFINE p == Rewrite(line, y[1], y[2])
  <2>1. y \in acl /\ y \in AclOptions
    BY <1>7
  <2>2. p \in Options /\ Kind(p) = Kind(y[2]) /\ (p = y[2] \/ AtRest(y[1], p))
    BY <1>6, <1>9, <2>1, RewriteRests
  <2>3. Made(y)[1] = y[1] /\ Made(y)[2] = p /\ Made(y)[3] = y[3]
    OBVIOUS
  <2>4. Made(y) \in AclOptions
    BY <1>6, <2>1, <2>2 DEF AclOptions
  <2> QED BY <1>6, <2>1, <2>2, <2>3, <2>4
<1> HIDE DEF K, Made
<1>10. acl' \subseteq AclOptions /\ IsFiniteSet(acl')
  <2>1. CASE acl' = acl
    BY <1>7, <2>1
  <2>2. CASE acl' = Transformed(line) /\ line \in 2..7
    <3> DEFINE T == {Made(y) : y \in K}
               f == [y \in K |-> Made(y)]
    <3>1. f \in [K -> T] /\ \A x \in T : \E y \in K : f[y] = x
      OBVIOUS
    <3>2. IsFiniteSet(K)
      <4>1. K \in SUBSET acl
        BY DEF K
      <4> QED BY <1>7, <4>1, FS_Subset
    <3>3. T = acl' /\ T \subseteq AclOptions
      BY <1>8, <1>9, <2>2
    <3> HIDE DEF f, T
    <3>4. f \in Surjection(K, T)
      BY <3>1 DEF Surjection
    <3>5. IsFiniteSet(T)
      BY <3>2, <3>4, FS_Surjection
    <3> QED BY <3>3, <3>5
  <2> QED BY <1>2, <2>1, <2>2
<1>11. AclTypeOK'
  <2>1. line' \in Nat \ {0} /\ (phase' = "transform" => line' \in 2..8)
    BY <1>l
  <2> QED BY <1>1, <1>10, <2>1 DEF AclFileInv, AclTypeOK
<1>s. \A s, o : Stays(s, o)' <=> Stays(s, o)
  BY <1>1 DEF Stays, Once
<1>12. FirstInv'
  <2> SUFFICES ASSUME ~gate, phase' \in {"transform", "write"} PROVE file = original /\ Traced(acl')
    BY <1>1, <1>s DEF FirstInv, Traced
  <2>1. file = original /\ Traced(acl)
    BY <1>1 DEF AclFileInv, FirstInv
  <2>2. CASE acl' = acl
    BY <2>1, <2>2
  <2>3. CASE acl' = {Made(y) : y \in K} /\ line \in 2..7
    <3>1. \A x, y \in acl' : x[3] = y[3] => x = y
      BY <1>9, <2>1, <2>3 DEF Traced
    <3>2. \A x \in acl' : /\ x[3] \in DOMAIN original /\ Under(original, x[3], x[1])
                          /\ Kind(original[x[3]]) = Kind(x[2])
      BY <1>9, <2>1, <2>3 DEF Traced
    <3>3. ASSUME NEW s \in Headings, NEW o \in Options, Stays(s, o), NEW i \in Below(original, s, Kind(o))
          PROVE  \E x \in acl' : x[3] = i
      <4>1. PICK y \in acl : y[3] = i
        BY <2>1, <3>3 DEF Traced
      <4>2. Under(original, i, s) /\ Under(original, i, y[1]) /\ Kind(y[2]) = Kind(o)
        BY <2>1, <4>1, <3>3 DEF Traced, Below
      <4>3. y \in AclOptions /\ y[1] \in Headings /\ y[2] \in Options /\ i \in Nat
        BY <1>6, <1>7, <4>1
      <4>4. y[1] = s
        BY <4>2, <4>3, UnderOne
      <4>5. ~Drops(line, y[1], y[2])
        BY <2>3, <3>3, <4>2, <4>3, <4>4, DropsNothingElse
      <4>6. y \in K
        BY <4>1, <4>5 DEF K
      <4> QED BY <1>9, <2>3, <4>1, <4>6
    <3>4. \A s \in Headings, o \in Options : Stays(s, o) =>
              \A i \in Below(original, s, Kind(o)) : \E x \in acl' : x[3] = i
      BY <3>3
    <3> QED BY <2>1, <3>1, <3>2, <3>4 DEF Traced
  <2> QED BY <1>1, <1>2, <1>8, <2>2, <2>3
<1>13. RestInv'
  <2> SUFFICES ASSUME ~gate, transformations = All \ {0}, phase' \in {"transform", "write"}
               PROVE  /\ phase' = "write" => line' = 8
                      /\ \A x \in acl' : /\ line' > 5 => x[2] # "two equals signs"
                                         /\ \A t \in 2..(line' - 1) : /\ ~Drops(t, x[1], x[2])
                                                                      /\ Rewrite(t, x[1], x[2]) = x[2]
    BY <1>1 DEF RestInv, Rewrite, AddsCore
  <2>1. \A x \in acl : /\ line > 5 => x[2] # "two equals signs"
                       /\ \A t \in 2..(line - 1) : /\ ~Drops(t, x[1], x[2])
                                                   /\ Rewrite(t, x[1], x[2]) = x[2]
    BY <1>1 DEF AclFileInv, RestInv
  <2>2. CASE line = 8 /\ line' = line /\ acl' = acl
    BY <2>1, <2>2
  <2>3. CASE line \in 2..7 /\ line' = line + 1 /\ phase' = phase
    <3>1. line \in Wanted
      BY <2>3 DEF Wanted, All
    <3>2. acl' = {Made(y) : y \in K} /\ (line = 5 => \A x \in acl : x[2] # "two equals signs")
      BY <1>1, <1>2, <1>8, <2>3, <3>1
    <3>3. ASSUME NEW y \in K
          PROVE  /\ line' > 5 => Made(y)[2] # "two equals signs"
                 /\ \A t \in 2..(line' - 1) : /\ ~Drops(t, Made(y)[1], Made(y)[2])
                                              /\ Rewrite(t, Made(y)[1], Made(y)[2]) = Made(y)[2]
      <4>1. y \in acl /\ Made(y)[1] = y[1] /\ ~Drops(line, y[1], y[2]) /\ Made(y)[2] = Rewrite(line, y[1], y[2])
        BY <1>9, <2>3 DEF K
      <4>2. CASE Made(y) = y
        <5>1. \A t \in 2..(line' - 1) : t = line \/ t \in 2..(line - 1)
          BY <2>3
        <5>2. line' > 5 => line = 5 \/ line > 5
          BY <2>3
        <5> QED BY <2>1, <3>2, <4>1, <4>2, <5>1, <5>2
      <4>3. CASE AtRest(y[1], Made(y)[2])
        <5>1. \A t \in 2..(line' - 1) : t \in 2..7
          BY <2>3
        <5> QED BY <4>1, <4>3, <5>1 DEF AtRest
      <4> QED BY <1>9, <2>3, <4>2, <4>3
    <3> QED BY <1>1, <2>3, <3>2, <3>3
  <2> QED BY <1>2, <2>2, <2>3
<1>14. GateInv'
  <2> SUFFICES ASSUME gate, transformations = All \ {0} PROVE phase' # "died" /\ acl' = Occurrences(file)
    BY <1>1 DEF GateInv
  <2>1. acl = Occurrences(file) /\ NormalText(file)
    BY <1>1 DEF AclFileInv, GateInv, WrittenInv
  <2>2. \A x \in acl : AtRest(x[1], x[2])
    BY <2>1 DEF NormalText
  <2>3. \A x \in acl : x[2] # "two equals signs"
    BY <2>2 DEF AtRest
  <2>4. ASSUME line \in 2..7 PROVE Transformed(line) = acl
    <3>1. \A y \in acl : y \in K /\ Made(y) = y
      BY <1>6, <1>7, <2>2, <2>4 DEF K, Made, AtRest
    <3>2. \A y \in K : y \in acl
      BY DEF K
    <3> QED BY <1>8, <3>1, <3>2
  <2> QED BY <1>1, <1>2, <2>1, <2>3, <2>4
<1> QED BY <1>5, <1>11, <1>12, <1>13, <1>14 DEF AclFileInv

(* What is written is a file of known lines. *)
LEMMA TextType ==
    ASSUME NEW A, A \subseteq AclOptions, IsFiniteSet(A), NEW text, text = Sorted(WithHeadings(A))
    PROVE  text \in Seq(STRING \cup Range(Order))
<1> DEFINE L == WithHeadings(A)
<1>1. L = WithHeadings(A) /\ text = Sorted(L)
  OBVIOUS
<1> HIDE DEF L
<1>2. PICK n \in Nat : \E g \in [1..n -> L] : Enumerates(A, L, text, n, g)
  BY <1>1, LinesOfText
<1>3. PICK g \in [1..n -> L] : Enumerates(A, L, text, n, g)
  BY <1>2
<1>4. text = [k \in 1..n |-> g[k][2]] /\ \A k \in 1..n : g[k][2] \in STRING \cup Range(Order)
  BY <1>3 DEF Enumerates, Lines
<1> QED BY <1>4

(* Of a kind that stays, what is written has as many options as were there. *)
LEMMA WrittenKeeps ==
    ASSUME NEW A, A \subseteq AclOptions, IsFiniteSet(A), Traced(A), NEW text, text = Sorted(WithHeadings(A)),
           NEW s \in Headings, NEW o \in Options, Stays(s, o)
    PROVE  Cardinality(Below(text, s, Kind(o))) = Cardinality(Below(original, s, Kind(o)))
<1> DEFINE L == WithHeadings(A)
           X == Below(text, s, Kind(o))
           Y == Below(original, s, Kind(o))
<1>1. L = WithHeadings(A) /\ text = Sorted(L) /\ A \subseteq L
  BY DEF WithHeadings
<1> HIDE DEF L
<1>2. PICK n \in Nat : \E g \in [1..n -> L] : Enumerates(A, L, text, n, g)
  BY <1>1, LinesOfText
<1>3. PICK g \in [1..n -> L] : Enumerates(A, L, text, n, g)
  BY <1>2
<1>4. /\ \A x \in L : \E k \in 1..n : g[k] = x
      /\ \A i, j \in 1..n : g[i] = g[j] => i = j
      /\ DOMAIN text = 1..n /\ \A k \in 1..n : text[k] = g[k][2]
      /\ \A k \in 1..n : Under(text, k, s) <=> g[k] \in A /\ g[k][1] = s
  BY <1>3, LinesAreOrdered DEF Enumerates
<1>5. \A x \in A : x[1] \in Headings /\ x[3] \in Nat
  BY DEF AclOptions
<1>6. IsFiniteSet(X)
  <2> DEFINE D == 1..n
  <2>1. IsFiniteSet(D)
    BY FS_Interval
  <2>2. X \in SUBSET D
    BY <1>4 DEF Below
  <2> HIDE DEF D, X
  <2> QED BY <2>1, <2>2, FS_Subset
<1>7. \A i \in X : i \in 1..n /\ g[i] \in A /\ g[i][1] = s /\ Kind(g[i][2]) = Kind(o)
  BY <1>4 DEF Below
<1>8. \A i \in X : g[i][3] \in Y
  BY <1>7 DEF Traced, Below
<1>9. \A i, j \in X : g[i][3] = g[j][3] => i = j
  BY <1>4, <1>7 DEF Traced
<1>10. \A y \in Y : \E i \in X : g[i][3] = y
  <2> SUFFICES ASSUME NEW y \in Y PROVE \E i \in X : g[i][3] = y
    OBVIOUS
  <2>1. PICK x \in A : x[3] = y
    BY DEF Traced
  <2>2. Under(original, y, s) /\ Under(original, y, x[1]) /\ Kind(x[2]) = Kind(o)
    BY <2>1 DEF Traced, Below
  <2>3. x[1] = s
    BY <1>5, <2>1, <2>2, UnderOne
  <2>4. PICK i \in 1..n : g[i] = x
    BY <1>1, <1>4
  <2>5. i \in X
    BY <1>4, <2>2, <2>3, <2>4 DEF Below
  <2> QED BY <2>1, <2>4, <2>5
<1> DEFINE f == [i \in X |-> g[i][3]]
<1>11. f \in [X -> Y] /\ (\A i, j \in X : f[i] = f[j] => i = j) /\ \A y \in Y : \E i \in X : f[i] = y
  BY <1>8, <1>9, <1>10
<1> HIDE DEF X, Y, f
<1>12. Cardinality(Y) = Cardinality(X)
  BY <1>6, <1>11, SameSize
<1> QED BY <1>12 DEF X, Y

(* The file is written, or printed. *)
LEMMA WriteInv == AclFileInv /\ Write => AclFileInv'
<1> SUFFICES ASSUME AclFileInv, Write PROVE AclFileInv'
  OBVIOUS
<1>1. /\ phase = "write" /\ phase' = "done" /\ line' = line /\ section' = section /\ acl' = acl
      /\ original' = original /\ gate' = gate
      /\ transformations' = transformations /\ specialProject' = specialProject
      /\ DryRun => file' = file /\ (printed' = Text \/ Text = <<>>)
      /\ ~DryRun => file' = Text
  BY DEF Write, aclArgs
<1>2. acl \subseteq AclOptions /\ IsFiniteSet(acl) /\ Text = Sorted(WithHeadings(acl))
  BY DEF AclFileInv, AclTypeOK, Text
<1>3. AclTypeOK'
  <2>1. file' \in Seq(STRING \cup Range(Order))
    <3>1. Text \in Seq(STRING \cup Range(Order))
      BY <1>2, TextType
    <3> QED BY <1>1, <3>1 DEF AclFileInv, AclTypeOK
  <2> QED BY <1>1, <2>1 DEF AclFileInv, AclTypeOK
<1>4. ParseInv' /\ FirstInv' /\ RestInv'
  BY <1>1 DEF ParseInv, FirstInv, RestInv
<1>5. ASSUME gate PROVE DryRun
  BY <1>5 DEF DryRun, Wanted, All
<1>6. GateInv'
  <2> SUFFICES ASSUME gate, transformations = All \ {0} PROVE printed' = file' \/ file' = <<>>
    BY <1>1 DEF GateInv
  <2>1. acl = Occurrences(file) /\ NormalText(file)
    BY <1>1 DEF AclFileInv, GateInv, WrittenInv
  <2>2. Text = file
    BY <1>2, <2>1 DEF NormalText
  <2> QED BY <1>1, <1>5, <2>2
<1>7. NothingMissing'
  <2>1. CASE gate
    BY <1>1, <1>5, <2>1 DEF AclFileInv, WrittenInv, NothingMissing, Stays, Once
  <2>2. CASE ~gate /\ DryRun
    BY <1>1, <2>2 DEF AclFileInv, FirstInv, NothingMissing
  <2>3. CASE ~gate /\ ~DryRun
    <3>1. Traced(acl) /\ file' = Text
      BY <1>1, <2>3 DEF AclFileInv, FirstInv
    <3>2. \A s \in Headings, o \in Options : Stays(s, o) =>
              Cardinality(Below(Text, s, Kind(o))) = Cardinality(Below(original, s, Kind(o)))
      BY <1>2, <3>1, WrittenKeeps
    <3> QED BY <1>1, <3>1, <3>2 DEF NothingMissing, Stays, Once
  <2> QED BY <2>1, <2>2, <2>3
<1>8. ASSUME transformations = All \ {0} PROVE NormalText(file)'
  <2>1. NormalText(file)' <=> NormalText(file')
    BY <1>1 DEF NormalText, AtRest, Rewrite, AddsCore
  <2>2. CASE gate
    BY <1>1, <1>5, <1>8, <2>1, <2>2 DEF AclFileInv, WrittenInv
  <2>3. CASE ~gate
    <3>1. ~DryRun
      <4>1. 1 \in All \ {0} /\ 0 \notin All \ {0}
        BY DEF All
      <4> QED BY <1>8, <2>3, <4>1 DEF DryRun, Wanted
    <3>2. \A x \in acl : AtRest(x[1], x[2])
      <4>1. /\ line = 8
            /\ \A x \in acl : /\ line > 5 => x[2] # "two equals signs"
                              /\ \A t \in 2..(line - 1) : /\ ~Drops(t, x[1], x[2])
                                                          /\ Rewrite(t, x[1], x[2]) = x[2]
        BY <1>1, <1>8, <2>3, Zenon DEF AclFileInv, RestInv
      <4>2. line > 5 /\ 2..(line - 1) = 2..7
        <5>1. line = 8
          BY <4>1
        <5>2. line > 5 /\ line - 1 = 7
          BY <5>1
        <5> QED BY <5>2
      <4> QED BY <4>1, <4>2 DEF AtRest
    <3>3. NormalText(Text)
      BY <1>2, <3>2, WrittenIsNormal
    <3> QED BY <1>1, <2>1, <3>1, <3>3
  <2> QED BY <2>2, <2>3
<1>9. WrittenInv'
  BY <1>1, <1>7, <1>8 DEF WrittenInv
<1> QED BY <1>3, <1>4, <1>6, <1>9 DEF AclFileInv

(* The gate starts over what is there now. *)
LEMMA GateStartInv == AclFileInv /\ Check => AclFileInv'
<1> SUFFICES ASSUME AclFileInv, Check PROVE AclFileInv'
  OBVIOUS
<1>1. /\ phase = "done" /\ phase' = "parse" /\ line' = 1 /\ section' = "none" /\ acl' = {}
      /\ original' = original /\ file' = file /\ gate' = TRUE
      /\ transformations' = transformations /\ specialProject' = specialProject
  BY DEF Check
<1>2. AclTypeOK'
  <2>1. IsFiniteSet(acl') /\ acl' \subseteq AclOptions
    BY <1>1, FS_EmptySet
  <2>2. gate' \in BOOLEAN
    BY <1>1
  <2> QED BY <1>1, <2>1, <2>2 DEF AclFileInv, AclTypeOK
<1>3. ParseInv'
  <2>1. \A x \in AclOptions : ~(x[3] < 1)
    BY DEF AclOptions
  <2>2. Len(file) \in Nat
    BY DEF AclFileInv, AclTypeOK
  <2> QED BY <1>1, <2>1, <2>2 DEF ParseInv
<1>4. WrittenInv'
  <2>1. NothingMissing' <=> NothingMissing
    BY <1>1 DEF NothingMissing, Stays, Once
  <2>2. NormalText(file)' <=> NormalText(file)
    BY <1>1 DEF NormalText, AtRest, Rewrite, AddsCore
  <2> QED BY <1>1, <2>1, <2>2 DEF AclFileInv, WrittenInv
<1>5. FirstInv' /\ RestInv' /\ GateInv'
  BY <1>1 DEF FirstInv, RestInv, GateInv
<1> QED BY <1>2, <1>3, <1>4, <1>5 DEF AclFileInv

(* Every step of the normaliser keeps what it and the gate have established. *)
LEMMA AclFileStepInv == AclFileInv /\ [AclNext]_aclVars => AclFileInv'
<1>1. ASSUME AclFileInv, UNCHANGED aclVars PROVE AclFileInv'
  <2>1. /\ phase' = phase /\ line' = line /\ section' = section /\ acl' = acl /\ printed' = printed
        /\ original' = original /\ file' = file /\ gate' = gate
        /\ transformations' = transformations /\ specialProject' = specialProject
    BY <1>1 DEF aclVars, aclArgs
  <2>2. NothingMissing' <=> NothingMissing
    BY <2>1 DEF NothingMissing, Stays, Once
  <2>3. NormalText(file)' <=> NormalText(file)
    BY <2>1 DEF NormalText, AtRest, Rewrite, AddsCore
  <2>4. Traced(acl)' <=> Traced(acl)
    BY <2>1 DEF Traced, Stays, Once
  <2>5. RestInv'
    BY <1>1, <2>1 DEF AclFileInv, RestInv, Rewrite, AddsCore
  <2>6. AclTypeOK' /\ ParseInv'
    BY <1>1, <2>1 DEF AclFileInv, AclTypeOK, ParseInv
  <2>7. FirstInv' /\ WrittenInv' /\ GateInv'
    BY <1>1, <2>1, <2>2, <2>3, <2>4 DEF AclFileInv, FirstInv, WrittenInv, GateInv
  <2> QED BY <2>5, <2>6, <2>7 DEF AclFileInv
<1> QED BY <1>1, ParseLineInv, ParsedInv, TransformInv, WriteInv, GateStartInv DEF AclNext

(* The invariants of the normaliser hold of every behaviour. *)
LEMMA AclInvariant == AclSpec => []AclFileInv
  BY AclFileInitInv, AclFileStepInv, PTL DEF AclSpec

(* For every file, every set of transformations and either kind of project: *)
(* what the program has written with all transformations passes the gate,   *)
(* which demands that a second pass changes nothing, unless it is empty.    *)
THEOREM NormalisedFilesPass == AclSpec => []NormalisedPasses
<1>1. AclFileInv => NormalisedPasses
  BY DEF AclFileInv, GateInv, NormalisedPasses
<1> QED BY <1>1, AclInvariant, PTL

(* For every file and every set of transformations, below each heading that *)
(* occurs once there are as many options of a kind as before, but for those *)
(* that are to go: none is lost, doubled or moved to another section.       *)
THEOREM NothingElseIsLost == AclSpec => []NothingElseLost
<1>1. AclFileInv => NothingElseLost
  BY DEF AclFileInv, WrittenInv, NothingMissing, NothingElseLost
<1> QED BY <1>1, AclInvariant, PTL

=============================================================================

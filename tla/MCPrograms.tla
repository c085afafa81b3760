----------------------------- MODULE MCPrograms -----------------------------
(***************************************************************************)
(* The programs that a person, a job or cron runs by themselves, one of    *)
(* them in each behaviour, with the values of their constants for TLC.     *)
(* They share no state, so that nothing is gained by running two at once;  *)
(* the variables of the others stay as they are.                           *)
(***************************************************************************)
EXTENDS SemiBusyWait, HaproxyStatsd, GerritGroups, CheckAccess, MCRequirements,
        UploadList, AclFile, MassRename, ConfigChecks, XenServerConversion

VARIABLE program

(* HaproxyStatsd: two servers, a gauge on either side of a counter.         *)
MCGauges == <<1, 4>>
MCCounters == <<2, 3>>
MCBlank == {<<2, 3>>}

(* GerritGroups: one repository whose groups include those of puppet.       *)
MCRepos == <<"puppet-x">>
MCPuppetRepos == {"puppet-x"}
MCGivenGroups == {InfraCore, PuppetGroup("core"), PuppetGroup("release")}
MCUpdateOptions == {[group |-> <<"puppet-x", "core">>, includes |-> {InfraCore},
                     owner |-> {Other}, visible |-> FALSE]}

(* CheckAccess *)
MCChannels == <<"#a", "#b", "#c">>
MCFlags == {"op", "full"}

(* UploadList: a directory in a directory, and one beside a file.           *)
MCNodes == 1..4
MCTrees == {[n \in MCNodes |-> <<0, 0, 1, 3>>[n]], [n \in MCNodes |-> <<0, 1, 1, 0>>[n]]}
MCFileNames == {IndexName, "x"}
MCArgSets == {{}, {"no_indexes"}, {"no_root_index"}, {"no_dir_indexes", "no_parent_links"}}

(* AclFile: every two lines below a heading, files without one, and a       *)
(* heading that occurs twice.                                               *)
MCTexts == {<<h, a, b>> : h \in Headings,
                          a, b \in Range(Order) \cup {"junk"}}
           \cup {<<>>, <<"junk">>, <<"create">>, <<"[heads]", "vote team", "[heads]", "create">>}
MCArgumentSets == {{}, {5, 7}, All \ {0}}

(* MassRename: an ACL of its own, one that is shared, and one in the way.   *)
MCProjectNames == {"a", "b"}
Fork(n) == Repo("stackforge", n)
MCAclConfigs == {NoAcl, Fork("a"), Repo("openstack", "b")}
MCRenameLists == {{"a"}, {"a", "b"}}
Named(n, follows) == [repo |-> Fork(n), follows |-> follows]
MCJobLines == {<< <<Named("a", "sep"), Named("a", "sep"), Named("b", "end")>>,
                  <<Named("a", "other"), Named("a", "sep"), Named("a", "end")>> >>}

-----------------------------------------------------------------------------

(* The inputs of a program that is not run: any one of them.                *)
Pinned ==
    /\ IF program # "wait" THEN requested = 1 ELSE TRUE
    /\ IF program # "access"
       THEN prog = "new" /\ wanted = "op" /\ access = [c \in Range(Channels) |-> "op"] ELSE TRUE
    /\ IF program # "requirements"
       THEN head = NoTree /\ branch = NoTree /\ global = [p \in Packages |-> {}] /\ local = TRUE
            /\ files = <<"extras", "requirements">> ELSE TRUE
    /\ IF program # "list"
       THEN parent = [n \in Nodes |-> <<0, 1, 1, 0>>[n]] /\ name = [n \in Nodes |-> IF n = 3 THEN IndexName ELSE "x"]
            /\ kind = [n \in Nodes |-> IF n = 1 THEN "dir" ELSE "file"] /\ large = {} /\ args = {}
       ELSE TRUE
    /\ IF program # "acl" THEN original = <<>> /\ transformations = {} /\ specialProject = FALSE ELSE TRUE
    /\ IF program # "rename"
       THEN renamelist = {"a"} /\ projects = [n \in ProjectNames |-> "openstack"]
            /\ aclConfig = [n \in ProjectNames |-> NoAcl] /\ acls = <<>> ELSE TRUE
    /\ IF program # "checks" THEN check = "irc" /\ jobList = TRUE /\ entries = <<>> ELSE TRUE

ProgramsInit ==
    /\ program \in {"wait", "statsd", "groups", "access", "requirements", "list", "acl", "rename",
                    "checks", "convert"}
    /\ Pinned
    /\ Init /\ StatsInit /\ GroupsInit /\ CheckInit /\ ReqsInit /\ ListInit /\ AclInit /\ RenameInit
    /\ ChecksInit /\ ConversionInit

daemonVars == <<vars, statsVars>>
gerritToolVars == <<groupsVars, aclVars, renameVars>>
gateVars == <<checkVars, reqsVars, checksVars>>
nodeVars == <<listVars, conversionVars>>

ProgramsNext ==
    /\ UNCHANGED program
    /\ \/ program = "wait" /\ Next /\ UNCHANGED <<statsVars, gerritToolVars, gateVars, nodeVars>>
       \/ program = "statsd" /\ StatsNext /\ UNCHANGED <<vars, gerritToolVars, gateVars, nodeVars>>
       \/ program = "groups" /\ GroupsNext /\ UNCHANGED <<daemonVars, aclVars, renameVars, gateVars, nodeVars>>
       \/ program = "acl" /\ AclNext /\ UNCHANGED <<daemonVars, groupsVars, renameVars, gateVars, nodeVars>>
       \/ program = "rename" /\ RenameNext /\ UNCHANGED <<daemonVars, groupsVars, aclVars, gateVars, nodeVars>>
       \/ program = "access" /\ CheckNext /\ UNCHANGED <<daemonVars, gerritToolVars, reqsVars, checksVars, nodeVars>>
       \/ program = "requirements" /\ ReqsNext
          /\ UNCHANGED <<daemonVars, gerritToolVars, checkVars, checksVars, nodeVars>>
       \/ program = "checks" /\ ChecksNext /\ UNCHANGED <<daemonVars, gerritToolVars, checkVars, reqsVars, nodeVars>>
       \/ program = "list" /\ ListNext /\ UNCHANGED <<daemonVars, gerritToolVars, gateVars, conversionVars>>
       \/ program = "convert" /\ ConversionNext /\ UNCHANGED <<daemonVars, gerritToolVars, gateVars, listVars>>

programsVars == <<program, daemonVars, gerritToolVars, gateVars, nodeVars>>

(* Three of them wait for something: for time to pass, for ChanServ, for    *)
(* the next boot, the network, XenServer's API and the appliance.  What     *)
(* they and the other side do, as opposed to what befalls them, is done at  *)
(* some time.                                                               *)
Waiting == program \in {"wait", "access", "convert"}

OwnStep == /\ Waiting
           /\ ProgramsNext
           /\ program = "access" => strays' = strays /\ ~cut'
           /\ program = "convert" => crashes' = crashes /\ address' = address

ProgramsSpec == ProgramsInit /\ [][ProgramsNext]_programsVars /\ WF_programsVars(OwnStep)

-----------------------------------------------------------------------------

Over == CASE program = "wait" -> pc = "returned"
          [] program = "access" -> \/ outcome \in {"pass", "fail", "crashed"} \/ cap = "refused"
                                   \/ prog = "old" /\ Unregistered \in Range(access)
          [] program = "convert" -> ready \/ unlucky \/ hasty
          [] OTHER -> TRUE

(* They come to an end and stay there, however often a sleep is cut short,  *)
(* whatever other notices arrive and wherever the machine stops: the wait   *)
(* returns, the access check exits, every instance of the appliance is      *)
(* ready.  Excepted are, of the access check, a server that refuses         *)
(* identify-msg, at which neither version does anything more, and of its    *)
(* first version an unregistered channel; of the conversion, a stop that    *)
(* tore the disk and a file touched in an appliance on its way down.        *)
WaitsEnd == <>[]Over

=============================================================================

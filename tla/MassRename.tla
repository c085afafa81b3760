----------------------------- MODULE MassRename -----------------------------
(***************************************************************************)
(* mass_rename_projects: moves projects from stackforge to openstack in    *)
(* the project configuration, a working tree of git.  It rewrites          *)
(* projects.yaml, channels.yaml and layout.yaml, in the order of a         *)
(* dictionary, then the files of jobs, and last moves the ACL files.       *)
(*                                                                         *)
(* No exit code of git or sed is looked at.  The program may be            *)
(* interrupted, also between the truncation of a yaml file and the end of  *)
(* its writing, and be started again on what it left.                      *)
(***************************************************************************)
EXTENDS Integers, Sequences, FiniteSets, SequencesExt

CONSTANTS ProjectNames,  \* of projects, without the organisation
          AclConfigs,    \* what an acl-config may name, and NoAcl
          NoAcl,
          RenameLists,   \* what may be given on stdin
          JobLines       \* lines of a file of jobs, see Mention

Repo(org, n) == <<org, n>>
Repositories == {"stackforge", "openstack"} \X ProjectNames
Yaml == {"projects", "channels", "layout"}

(* A line of a job: the repositories it names, each with what follows it:   *)
(* "sep" for a blank or slash, "end", or "other".                           *)
Mention == [repo : Repositories, follows : {"sep", "end", "other"}]

ASSUME RenameAssumption ==
    /\ NoAcl \notin Repositories /\ AclConfigs \subseteq Repositories \cup {NoAcl}
    /\ JobLines \subseteq Seq(Seq(Mention))

VARIABLES
    renamelist,
    projects,         \* projects.yaml: from the name of each project to its organisation
    aclConfig,        \* and to its acl-config, NoAcl where it has none
    acls,             \* ACL files: from the repository in their path to what is in them
    ircChannels, layout, \* the repositories named there
    jobs,             \* a sequence of lines
    truncated,        \* yaml files truncated and not written
    gitmoves,         \* the ACL files to move
    doing,            \* "load", "yaml", "jobs", "moves", "done" or "died"
    toWrite,          \* yaml files not yet done
    given,            \* history: what was there at the start
    stopped           \* history: the first run was stopped

yamlVars == <<projects, aclConfig, ircChannels, layout, truncated>>
configVars == <<yamlVars, acls, jobs>>
renameVars == <<renamelist, configVars, gitmoves, doing, toWrite, given, stopped>>

Moved(r) == <<"openstack", r[2]>>
StackList == {Repo("stackforge", n) : n \in renamelist}
New(r) == IF r \in StackList THEN Moved(r) ELSE r
Project(n) == Repo(projects[n], n)
Renamed == {n \in ProjectNames : Project(n) \in StackList}
Acl(n) == IF aclConfig[n] = NoAcl THEN Project(n) ELSE aclConfig[n]

RenameInit ==
    /\ renamelist \in RenameLists
    /\ projects \in [ProjectNames -> {"stackforge", "openstack"}]
    /\ aclConfig \in [ProjectNames -> AclConfigs]
    /\ \E files \in SUBSET Repositories : acls = [f \in files |-> f]
    /\ ircChannels = Repositories /\ layout = Repositories /\ jobs \in JobLines
    /\ truncated = {} /\ gitmoves = {} /\ doing = "load" /\ toWrite = {} /\ stopped = FALSE
    /\ given = [acls |-> acls, acl |-> [n \in ProjectNames |-> Acl(n)], renamed |-> Renamed]

-----------------------------------------------------------------------------

(* build_project_data, reading projects.yaml: the moves of ACL files.  For  *)
(* a project without acl-config the file is moved if there is one.          *)
WithAcl == {n \in Renamed : aclConfig[n] # NoAcl \/ Acl(n) \in DOMAIN acls}
GitMoves == {<<Acl(n), Moved(Acl(n))>> : n \in WithAcl}

(* A file that was cut reads as None, which cannot be iterated over.        *)
Load ==
    /\ doing = "load"
    /\ IF "projects" \in truncated
       THEN doing' = "died" /\ UNCHANGED <<gitmoves, toWrite>>
       ELSE doing' = "yaml" /\ gitmoves' = GitMoves /\ toWrite' = Yaml
    /\ UNCHANGED <<renamelist, configVars, given, stopped>>

(* A plausible mistake: the acl-config is left as it is.                    *)
RenameProjectsOnly ==
    /\ projects' = [n \in ProjectNames |-> New(Project(n))[1]]
    /\ UNCHANGED aclConfig

RenameInProjects ==
    /\ projects' = [n \in ProjectNames |-> New(Project(n))[1]]
    /\ aclConfig' = [n \in ProjectNames |->
                       IF n \in Renamed /\ aclConfig[n] # NoAcl THEN Moved(aclConfig[n]) ELSE aclConfig[n]]

Rename(repos) == {New(r) : r \in repos}

RenameInYaml(f) ==
    CASE f = "projects" -> RenameInProjects /\ UNCHANGED <<ircChannels, layout>>
      [] f = "channels" -> ircChannels' = Rename(ircChannels) /\ UNCHANGED <<projects, aclConfig, layout>>
      [] f = "layout" -> layout' = Rename(layout) /\ UNCHANGED <<projects, aclConfig, ircChannels>>

WriteYaml ==
    /\ doing = "yaml"
    /\ \/ \E f \in toWrite \ truncated : RenameInYaml(f) /\ toWrite' = toWrite \ {f} /\ UNCHANGED doing
       \/ /\ "channels" \in toWrite \cap truncated /\ doing' = "died"
          /\ UNCHANGED <<projects, aclConfig, ircChannels, layout, toWrite>>
       \/ /\ toWrite = {} /\ doing' = "jobs"
          /\ UNCHANGED <<projects, aclConfig, ircChannels, layout, toWrite>>
    /\ UNCHANGED <<renamelist, acls, jobs, truncated, gitmoves, given, stopped>>

(* sed, with two substitutions for each name, in the order of the list: of   *)
(* the first mention with a blank or slash behind it, and of one at the end. *)
First(line, r) == CHOOSE i \in DOMAIN line :
    /\ line[i].repo = r /\ line[i].follows = "sep"
    /\ \A j \in 1..(i - 1) : ~(line[j].repo = r /\ line[j].follows = "sep")
Substituted(line) ==
    [i \in DOMAIN line |->
        IF line[i].repo \in StackList
           /\ (line[i].follows = "end" \/ (line[i].follows = "sep" /\ i = First(line, line[i].repo)))
        THEN [line[i] EXCEPT !.repo = Moved(@)] ELSE line[i]]

RenameWithSed ==
    /\ doing = "jobs" /\ doing' = "moves"
    /\ jobs' = [l \in DOMAIN jobs |-> Substituted(jobs[l])]
    /\ UNCHANGED <<yamlVars, renamelist, acls, gitmoves, toWrite, given, stopped>>

(* git mv fails without a source, or onto a file that is there.             *)
Moves(s, o) == s \in DOMAIN acls /\ o \notin DOMAIN acls

GitMv ==
    /\ doing = "moves"
    /\ \/ \E m \in gitmoves :
            /\ gitmoves' = gitmoves \ {m} /\ UNCHANGED doing
            /\ acls' = IF Moves(m[1], m[2])
                       THEN [f \in (DOMAIN acls \ {m[1]}) \cup {m[2]} |-> acls[IF f = m[2] THEN m[1] ELSE f]]
                       ELSE acls
       \/ gitmoves = {} /\ doing' = "done" /\ UNCHANGED <<acls, gitmoves>>
    /\ UNCHANGED <<yamlVars, renamelist, jobs, toWrite, given, stopped>>

(* The program is stopped once, and run again.  layout.yaml is left to sed, *)
(* which replaces the file when it has been written.  A file that is cut    *)
(* off is taken for one that does not parse or is empty; that its beginning *)
(* may parse as a shorter file is left out.                                 *)
Stop ==
    /\ doing \in {"yaml", "jobs", "moves"} /\ ~stopped /\ stopped' = TRUE /\ doing' = "load"
    /\ \E f \in SUBSET (toWrite \cap {"projects", "channels"}) :
          Cardinality(f) <= 1 /\ (f # {} => doing = "yaml") /\ truncated' = f
    /\ gitmoves' = {} /\ toWrite' = {}
    /\ UNCHANGED <<renamelist, projects, aclConfig, acls, ircChannels, layout, jobs, given>>

RenameNext == Load \/ WriteYaml \/ RenameWithSed \/ GitMv \/ Stop
RenameSpec == RenameInit /\ [][RenameNext]_renameVars

-----------------------------------------------------------------------------

(* In the end no file but those of jobs has an old name left, even after a  *)
(* run that was stopped; of jobs, a line that names a repository only once, *)
(* with a blank, a slash or nothing behind it.                              *)
NamesAgree ==
    doing = "done" =>
        /\ StackList \cap ({Project(n) : n \in ProjectNames} \cup ircChannels \cup layout) = {}
        /\ \A l \in DOMAIN jobs : \A i \in DOMAIN jobs[l] :
              jobs[l][i].repo \in StackList =>
                  \/ jobs[l][i].follows = "other"
                  \/ \E j \in DOMAIN jobs[l] : j < i /\ jobs[l][j].repo = Moved(jobs[l][i].repo)

MovedAway(n) == n \notin given.renamed /\ \E m \in given.renamed : given.acl[m] = given.acl[n]
InTheWay(n) == n \in given.renamed /\ Moved(given.acl[n]) \in DOMAIN given.acls \ {given.acl[n]}

(* Every project keeps its ACL, be it renamed or not, unless the file of    *)
(* another project is moved away because a renamed one shares it, or a file *)
(* with the new name is in the way, or a first run was stopped: the second  *)
(* one finds the new names in projects.yaml and knows of no file to move.   *)
AclKept ==
    doing = "done" /\ ~stopped =>
        \A n \in ProjectNames : given.acl[n] \in DOMAIN given.acls =>
            \/ MovedAway(n) \/ InTheWay(n)
            \/ Acl(n) \in DOMAIN acls /\ acls[Acl(n)] = given.acl[n]

(* The files fit together again at the end of a run. *)
RenameIsWhole == NamesAgree /\ AclKept

=============================================================================

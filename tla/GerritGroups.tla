---------------------------- MODULE GerritGroups ----------------------------
(***************************************************************************)
(* maintain-infra-groups and update-gerrit-group: two programs that bring  *)
(* groups of gerrit into line over its REST interface, the first one all   *)
(* groups of the infrastructure team, the second one a single group as its *)
(* arguments say.                                                          *)
(*                                                                         *)
(* Both read a group once and compare it with what they want as they go.   *)
(* The status of a put is not looked at: a refused one is passed over.  A  *)
(* get with any status but 200 reads as None, which is taken for a group   *)
(* that does not exist.  A request that times out or loses its connection  *)
(* ends the program.  A group is named by a project and a role.            *)
(***************************************************************************)
EXTENDS Integers, Sequences

CONSTANTS Repos,         \* repositories of the team, in order
          PuppetRepos,   \* those whose name starts with puppet-
          InfraPTL,           \* the group infra-ptl
          Other,         \* an owner update-gerrit-group may be given
          Creator,       \* what owns a group that was created without an owner
          GivenGroups,   \* the groups that exist at the start
          UpdateOptions \* the arguments update-gerrit-group may have: records

InfraCore == <<"infra", "core">>
Council == <<"infra", "council">>
PuppetGroup(role) == <<"infra-puppet", role>>
Roles == {"core", "release"}

Programs == {"maintain", "update"}
Planned == {<<r, role>> : r \in {Repos[i] : i \in DOMAIN Repos}, role \in Roles} \cup {Council}
Groups == Planned \cup GivenGroups

ASSUME GroupsAssumption ==
    /\ Repos \in Seq({Repos[i] : i \in DOMAIN Repos})
    /\ \A o \in UpdateOptions : o.group \in Groups /\ o.owner \subseteq {InfraPTL, Other} /\ o.visible \in BOOLEAN

Detail == [includes : SUBSET Groups, owner : {InfraPTL, Other, Creator}, visible : BOOLEAN]

VARIABLES
    groups,    \* what gerrit has: a set of names, and the details of each
    details,
    options,   \* the arguments of update-gerrit-group
    at,        \* where a program is
    task,      \* how many groups it has done, plus one
    group,     \* the detail it has read
    toInclude, \* included groups still to look at
    again,     \* maintain-infra-groups has been started a second time
    seen,      \* history: groups maintain-infra-groups has read in this run
    excused,   \* history: groups of which a put was refused to it, or which the other
               \* program changed after it had read them
    wrote      \* history: it has sent a put in this run, but for those that create a group

gerritVars == <<groups, details>>
progVars == <<at, task, group, toInclude>>
noteVars == <<options, again, seen, excused, wrote>>
groupsVars == <<gerritVars, progVars, noteVars>>

-----------------------------------------------------------------------------
(* main: what is wanted *)

Include(r, role) == {InfraCore} \cup IF r \in PuppetRepos THEN {PuppetGroup(role)} ELSE {}

(* Two groups for each repository, and the council with all core groups.    *)
Plan == [n \in 1..(2 * Len(Repos) + 1) |->
           LET r == Repos[(n + 1) \div 2]
               role == IF n % 2 = 1 THEN "core" ELSE "release"
           IN  IF n > 2 * Len(Repos)
               THEN [group |-> Council,
                     includes |-> {InfraCore} \cup {<<Repos[i], "core">> : i \in DOMAIN Repos}]
               ELSE [group |-> <<r, role>>, includes |-> Include(r, role)]]

Tasks(p) == IF p = "maintain" THEN Plan ELSE <<options>>
Task(p) == Tasks(p)[task[p]]
Owner(p) == IF p = "maintain" THEN {InfraPTL} ELSE options.owner
Visible(p) == p = "maintain" \/ options.visible

Unread == [includes |-> {}, owner |-> Creator, visible |-> FALSE]

(* Every group a task may name has some detail, which counts if it exists.  *)
GroupsInit ==
    /\ groups = GivenGroups
    /\ details = [g \in Groups |-> Unread]
    /\ options \in UpdateOptions
    /\ at = [p \in Programs |-> "read"] /\ task = [p \in Programs |-> 1]
    /\ group = [p \in Programs |-> Unread] /\ toInclude = [p \in Programs |-> {}]
    /\ again = FALSE /\ seen = {} /\ excused = {} /\ wrote = FALSE

-----------------------------------------------------------------------------
(* Gerrit.get and Gerrit.put *)

Goes(p, where) == at' = [at EXCEPT ![p] = where]

(* The answer is 200, something else, or none at all.                       *)
Get(p) ==
    /\ at[p] \in {"read", "reread"}
    /\ \/ /\ Task(p).group \in groups /\ Goes(p, "include")
          /\ group' = [group EXCEPT ![p] = details[Task(p).group]]
          /\ toInclude' = [toInclude EXCEPT ![p] = Task(p).includes]
          /\ seen' = IF p = "maintain" THEN seen \cup {Task(p).group} ELSE seen
       \/ /\ Goes(p, IF at[p] = "read" THEN "create" ELSE "died")
          /\ UNCHANGED <<group, toInclude, seen>>
       \/ Goes(p, "died") /\ UNCHANGED <<group, toInclude, seen>>
    /\ UNCHANGED <<gerritVars, task, options, again, excused, wrote>>

Overwrites(p) == p = "update" /\ at[p] \in {"owner", "visible"} /\ Task(p).group \in seen

(* A put that would make the detail of its group d: gerrit takes it or       *)
(* refuses it, and the program does not notice the difference.  Or there is *)
(* no answer, which ends it, and gerrit may have taken it all the same.     *)
Put(p, d, possible, where) ==
    LET g == Task(p).group
        taken == /\ possible /\ groups' = groups \cup {g} /\ details' = [details EXCEPT ![g] = d]
                 /\ excused' = IF Overwrites(p) THEN excused \cup {g} ELSE excused
    IN
    /\ \/ taken /\ Goes(p, where)
       \/ /\ UNCHANGED gerritVars /\ Goes(p, where)
          /\ excused' = IF p = "maintain" /\ where # "reread" THEN excused \cup {g} ELSE excused
       \/ Goes(p, "died") /\ (taken \/ UNCHANGED <<gerritVars, excused>>)
    /\ wrote' = (wrote \/ (p = "maintain" /\ where # "reread"))
    /\ UNCHANGED <<options, again, seen>>

Skips(p, where) == Goes(p, where) /\ UNCHANGED <<gerritVars, noteVars>>

-----------------------------------------------------------------------------
(* configure_group and the main of update-gerrit-group *)

(* A group that exists already is refused, and found by the next get.       *)
Create(p) ==
    /\ at[p] = "create"
    /\ Put(p, [includes |-> {}, owner |-> IF Owner(p) = {} THEN Creator ELSE CHOOSE o \in Owner(p) : TRUE,
               visible |-> Visible(p)],
           Task(p).group \notin groups, "reread")
    /\ UNCHANGED <<task, group, toInclude>>

(* A plausible mistake: the groups included by now are not put any more,    *)
(* and those that are included already are.                                 *)
LacksNot(p, i) == i \in group[p].includes

Lacks(p, i) == i \notin group[p].includes

IncludeNext(p) ==
    /\ at[p] = "include" /\ UNCHANGED <<task, group>>
    /\ \/ toInclude[p] = {} /\ Skips(p, "owner") /\ UNCHANGED toInclude
       \/ \E i \in toInclude[p] :
            /\ toInclude' = [toInclude EXCEPT ![p] = @ \ {i}]
            /\ LET d == details[Task(p).group] IN
               IF Lacks(p, i) THEN Put(p, [d EXCEPT !.includes = @ \cup {i}], i \in groups, "include")
                              ELSE Skips(p, "include")

PutsOwner(p) == Owner(p) # {} /\ (p = "maintain" => group[p].owner \notin Owner(p))

SetOwner(p) ==
    /\ at[p] = "owner" /\ UNCHANGED <<task, group, toInclude>>
    /\ IF PutsOwner(p)
       THEN Put(p, [details[Task(p).group] EXCEPT !.owner = CHOOSE o \in Owner(p) : TRUE], TRUE, "visible")
       ELSE Skips(p, "visible")

(* Gerrit leaves out visible_to_all where it is false, and False is not     *)
(* None: update-gerrit-group hides a hidden group once more.                *)
PutsVisible(p) == ~(Visible(p) /\ group[p].visible)

(* After it the next group, or the end.                                     *)
SetVisible(p) ==
    LET last == task[p] = Len(Tasks(p))
        where == IF last THEN "done" ELSE "read"
    IN
    /\ at[p] = "visible" /\ UNCHANGED toInclude /\ group' = [group EXCEPT ![p] = Unread]
    /\ task' = [task EXCEPT ![p] = IF last THEN @ ELSE @ + 1]
    /\ IF PutsVisible(p)
       THEN Put(p, [details[Task(p).group] EXCEPT !.visible = Visible(p)], TRUE, where)
       ELSE Skips(p, where)

GroupsStep(p) == Get(p) \/ Create(p) \/ IncludeNext(p) \/ SetOwner(p) \/ SetVisible(p)

(* maintain-infra-groups is run once more after a run that came to its end. *)
MaintainAgain ==
    /\ at["maintain"] = "done" /\ ~again /\ again' = TRUE
    /\ Goes("maintain", "read") /\ task' = [task EXCEPT !["maintain"] = 1]
    /\ seen' = {} /\ wrote' = FALSE
    /\ UNCHANGED <<gerritVars, group, toInclude, options, excused>>

GroupsNext == (\E p \in Programs : GroupsStep(p)) \/ MaintainAgain
GroupsSpec == GroupsInit /\ [][GroupsNext]_groupsVars

-----------------------------------------------------------------------------

HasAll(t) == LET d == details[t.group] IN
             t.group \in groups /\ t.includes \subseteq d.includes /\ d.owner = InfraPTL /\ d.visible

(* A run of maintain-infra-groups that came to its end has left each group  *)
(* as planned, except where gerrit refused a put without the program        *)
(* noticing or where the other program came after it had read the group.    *)
DoneIsConfigured ==
    at["maintain"] = "done" =>
        \A n \in DOMAIN Plan : HasAll(Plan[n]) \/ Plan[n].group \in excused

(* A second run finds nothing to change, if nothing was refused and the     *)
(* other program did not interfere: what is created or set reads as wanted. *)
(* All it may do is create a group once more whose get has failed.          *)
SecondRunIsQuiet ==
    again /\ excused = {} /\ at["update"] = "read" => ~wrote

(* The groups come into line, and stay there. *)
Maintained == DoneIsConfigured /\ SecondRunIsQuiet

=============================================================================

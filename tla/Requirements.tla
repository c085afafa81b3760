---------------------------- MODULE Requirements ----------------------------
(***************************************************************************)
(* project-requirements-change: does a change to a project list only       *)
(* requirements that the global list has, or that its branch lists         *)
(* already?                                                                *)
(*                                                                         *)
(* A requirement is read from a line by openstack_requirements; here it is *)
(* a version, a comment and a set of extras.  The files are dictionaries,  *)
(* so that the order in which they are merged is any one; it is the same   *)
(* for the change and its branch, which have the same files here.          *)
(***************************************************************************)
EXTENDS Integers, Sequences, FiniteSets, SequencesExt

CONSTANTS Packages, VersionSpecs, ExtraNames,
          Files,        \* requirements files, and the extras of setup.cfg
          HeadLines,    \* what a file of the change may say of a package: sequences of requirements
          BranchLines,  \* what one of the branch may say of it
          GlobalReqs    \* what the global list may say of it: sets of requirements

Requirement == [version : VersionSpecs, comment : BOOLEAN, extras : SUBSET ExtraNames]

ASSUME ReqsAssumption ==
    /\ IsFiniteSet(Files) /\ "no extra" \notin ExtraNames
    /\ HeadLines \subseteq Seq(Requirement) /\ BranchLines \subseteq Seq(Requirement)
    /\ GlobalReqs \subseteq SUBSET Requirement /\ \A reqs \in GlobalReqs : IsFiniteSet(reqs)

VARIABLES
    head, branch,   \* the files, from Files and Packages to lines
    global,         \* global_reqs, {} where a package is not listed
    local,          \* --local: nothing is compared with the branch
    files,          \* the order of the dictionaries
    stage,          \* where main is
    toValidate,     \* files and packages not yet validated
    mainFailed, headFailed, branchFailed,
    tempdir         \* there is a temporary directory

givenReqs == <<head, branch, global, local, files>>
failVars == <<mainFailed, headFailed, branchFailed>>
reqsVars == <<givenReqs, stage, toValidate, failVars, tempdir>>

Listings(lines) == [Files \X Packages -> lines]
NoTree == [fp \in Files \X Packages |-> <<>>]

ReqsInit ==
    /\ head \in Listings(HeadLines) /\ branch \in Listings(BranchLines)
    /\ global \in [Packages -> GlobalReqs]
    /\ local \in BOOLEAN /\ files \in SetToSeqs(Files)
    /\ stage = "start" /\ toValidate = {} /\ tempdir = FALSE
    /\ mainFailed = FALSE /\ headFailed = FALSE /\ branchFailed = FALSE

-----------------------------------------------------------------------------
(* RequirementsList *)

Stripped(r) == [r EXCEPT !.comment = FALSE]

(* extract_reqs: the same line twice, whatever its comments say.            *)
Duplicates(lines) == \E i, j \in DOMAIN lines : i # j /\ Stripped(lines[i]) = Stripped(lines[j])

(* process, whose argument `strict' makes no difference but for a message.  *)
Process(tree) == \E fp \in DOMAIN tree : Duplicates(tree[fp])

Reqs(tree, f, p) == Range(tree[<<f, p>>])

(* reqs: the entry of the last file that lists the package.                 *)
Listed(tree, p) == {i \in DOMAIN files : tree[<<files[i], p>>] # <<>>}
LastListed(tree, p) == {i \in Listed(tree, p) : \A j \in Listed(tree, p) : j <= i}
Merged(tree, p) == UNION {Reqs(tree, files[i], p) : i \in LastListed(tree, p)}

Branch == IF local THEN NoTree ELSE branch

-----------------------------------------------------------------------------
(* main *)

(* run_command, or reading a project: an exception ends the program.        *)
CommandFails == stage' = "raised" /\ tempdir' = FALSE /\ UNCHANGED <<toValidate, failVars>>

(* tempdir, the clone of the global requirements, and reading them.         *)
Prepare ==
    /\ stage = "start" /\ UNCHANGED givenReqs
    /\ \/ stage' = "head" /\ tempdir' = TRUE /\ UNCHANGED <<toValidate, failVars>>
       \/ CommandFails

ProcessHead ==
    /\ stage = "head" /\ UNCHANGED givenReqs
    /\ \/ /\ stage' = "branch" /\ headFailed' = Process(head)
          /\ toValidate' = {fp \in Files \X Packages : head[fp] # <<>>}
          /\ UNCHANGED <<tempdir, mainFailed, branchFailed>>
       \/ CommandFails

(* "Don't error on the target branch being broken."                         *)
ProcessBranch ==
    /\ stage = "branch" /\ UNCHANGED givenReqs
    /\ \/ /\ stage' = "validate" /\ branchFailed' = Process(Branch)
          /\ UNCHANGED <<toValidate, tempdir, mainFailed, headFailed>>
       \/ ~local /\ CommandFails

(* _is_requirement_in_global_reqs: all fields but the extras.               *)
InGlobal(r, p) == \E g \in global[p] : g.version = r.version /\ g.comment = r.comment

ExtrasOf(r) == IF r.extras = {} THEN {"no extra"} ELSE r.extras
CountFor(reqs, e) == Cardinality({r \in reqs : e \in ExtrasOf(r)})

(* A plausible mistake: the lines are not counted.                          *)
MatchesEach(reqs, p) == reqs = global[p] \/ \A r \in reqs : InGlobal(r, p)

Matches(reqs, p) ==
    \/ reqs = global[p]
    \/ \A r \in reqs : InGlobal(r, p) /\ \A e \in ExtrasOf(r) : CountFor(reqs, e) = Cardinality(global[p])

Accepts(f, p) == LET reqs == Reqs(head, f, p) IN
    \/ reqs = Merged(Branch, p)
    \/ global[p] # {} /\ Matches(reqs, p)

Validate ==
    /\ stage = "validate"
    /\ \E f \in Files, p \in Packages :
          /\ <<f, p>> \in toValidate /\ toValidate' = toValidate \ {<<f, p>>}
          /\ mainFailed' = (mainFailed \/ ~Accepts(f, p))
    /\ UNCHANGED <<givenReqs, stage, tempdir, headFailed, branchFailed>>

Report ==
    /\ stage = "validate" /\ toValidate = {}
    /\ stage' = IF mainFailed \/ headFailed \/ branchFailed THEN "exit 1" ELSE "exit 0"
    /\ tempdir' = FALSE
    /\ UNCHANGED <<givenReqs, toValidate, failVars>>

ReqsNext == Prepare \/ ProcessHead \/ ProcessBranch \/ Validate \/ Report
ReqsSpec == ReqsInit /\ [][ReqsNext]_reqsVars

-----------------------------------------------------------------------------

SaysTheSame(tree) == \A p \in Packages, f, g \in Files :
    tree[<<f, p>>] # <<>> /\ tree[<<g, p>>] # <<>> => Reqs(tree, f, p) = Reqs(tree, g, p)

(* A change that leaves the requirements as they are is not refused, even   *)
(* if the global list has moved on: unless a line is there twice, or two    *)
(* files say different things of a package, of which only one is compared.  *)
NoFalseAlarm == head = branch /\ ~local /\ SaysTheSame(head) /\ ~Process(head) => stage # "exit 1"

Versions(reqs) == {<<r.version, r.comment>> : r \in reqs}
Apart(reqs) == \A r, s \in reqs : r.extras = s.extras \/ r.extras \cap s.extras = {}

(* What passes and was not in the branch is what the global list has; with  *)
(* extras, which that should not have, every line of it is there for any of *)
(* the extras.  Only with extras that overlap in part, as in a[x], a[x,y],  *)
(* b[y], do the counts agree without the lines.                             *)
PassIsJustified ==
    stage = "exit 0" =>
        \A f \in Files, p \in Packages :
            LET reqs == Reqs(head, f, p) IN
            \/ reqs = {}
            \/ ~local /\ \E g \in Files : reqs = Reqs(branch, g, p)
            \/ reqs = global[p]
            \/ /\ Versions(reqs) \subseteq Versions(global[p])
               /\ Apart(reqs) => \A r \in reqs :
                     Versions({s \in reqs : s.extras = r.extras}) = Versions(global[p])

(* The verdict is right in both directions. *)
VerdictIsJustified == NoFalseAlarm /\ PassIsJustified

(* "Don't error on the target branch being broken": with a change all of    *)
(* whose requirements are accepted, the check passes.                       *)
BrokenBranchIsNoError == stage = "exit 1" => mainFailed \/ headFailed

=============================================================================

---------------------------- MODULE ConfigChecks ----------------------------
(***************************************************************************)
(* The checks a change of the project configuration has to pass:           *)
(* check_valid_gerrit_projects over projects.yaml, jenkins-projects-checks *)
(* over the jobs, irc_tests over the channels, layout-checks over zuul's   *)
(* layout.  Each looks at all entries, in one or several passes, and fails *)
(* if any of them has a fault.                                             *)
(*                                                                         *)
(* An entry is the set of its faults; what makes it one is in the comments *)
(* of the passes.  Some faults end the program with an exception, which    *)
(* fails the change as well.                                               *)
(***************************************************************************)
EXTENDS Integers, Sequences, SequencesExt

CONSTANTS MaxEntries   \* bound: entries of a file

ASSUME EntriesAssumption == MaxEntries \in Nat

Checks == {"projects", "jobs", "irc", "layout"}

(* check_all, main: the passes of a check, and the faults each looks for.   *)
Passes(c) == CASE c = "projects" -> <<"project">>
               [] c = "jobs" -> <<"schema", "alphabetical">>
               [] c = "irc" -> <<"channel", "access">>
               [] c = "layout" -> <<"sorted", "template", "formatting", "job">>

Faults(pass) ==
    CASE pass = "project" -> {"no name", "empty name", "bad word", "no description", "unreachable",
                              "no master", "scheme", "keyword", "option"}
      [] pass = "schema" -> {"unknown", "invalid"}
      [] pass = "alphabetical" -> {"order", "indent"}
      [] pass = "channel" -> {"missing", "empty", "no events", "event"}
      [] pass = "access" -> {"not in accessbot"}
      [] pass = "sorted" -> {"order"}
      [] pass = "template" -> {"no merge-check"}
      [] pass = "formatting" -> {"indent"}
      [] pass = "job" -> {"no match"}

FaultsOf(c) == UNION {Faults(p) : p \in Range(Passes(c))}

VARIABLES
    check, entries,
    jobList,   \* layout: there is a list of jobs to compare with
    pass, next,  \* the pass, and the entry it looks at
    found,     \* errors of the pass
    errors,    \* errors of the passes before
    validated, \* jobs: what the entry last validated is, "unbound" at first
    verdict    \* "none", "pass", "fail" or "exception"

checksVars == <<check, entries, jobList, pass, next, found, errors, validated, verdict>>

(* An entry of several faults shows nothing that two do not.  One that is   *)
(* unknown is not invalid, for there is no schema for it.                   *)
Entries(c) == ({{f, g} : f, g \in FaultsOf(c)} \cup {{}}) \ {{"unknown", "invalid"}}

ChecksInit ==
    /\ check \in Checks /\ jobList \in BOOLEAN
    /\ \E n \in 0..MaxEntries :
          entries \in [1..n -> Entries(check)]
    /\ pass = 1 /\ next = 1 /\ found = FALSE /\ errors = FALSE
    /\ validated = "unbound" /\ verdict = "none"

Pass == Passes(check)[pass]
Seen == entries[next] \cap Faults(Pass)
Looks == verdict = "none" /\ pass <= Len(Passes(check)) /\ next <= Len(entries)

(* Plausible mistakes: only the last entry counts, or the last pass.        *)
LastFinding(error) == /\ found' = error /\ next' = next + 1
                      /\ UNCHANGED <<check, entries, jobList, pass, errors, verdict>>

Finding(error) == /\ found' = (found \/ error) /\ next' = next + 1
                  /\ UNCHANGED <<check, entries, jobList, pass, errors, verdict>>

Raises == /\ verdict' = "exception"
          /\ UNCHANGED <<check, entries, jobList, pass, next, found, errors, validated>>

-----------------------------------------------------------------------------
(* One entry of a pass *)

(* A project: without a name an AttributeError comes before the test for    *)
(* it; one without a description, if that is required, or an empty name is  *)
(* not looked at any further; an upstream that cannot be cloned is an       *)
(* exception.                                                               *)
CheckProject ==
    /\ Looks /\ Pass = "project"
    /\ \/ "no name" \in Seen /\ Raises
       \/ /\ "no name" \notin Seen /\ "unreachable" \in Seen
          /\ {"empty name", "no description"} \cap Seen = {} /\ Raises
       \/ /\ "no name" \notin Seen
          /\ "unreachable" \in Seen => {"empty name", "no description"} \cap Seen # {}
          /\ Finding(Seen # {}) /\ UNCHANGED validated

(* A builder, job, job group, template, project or publisher is validated;  *)
(* wrappers and defaults are passed over, as entries without faults.  For   *)
(* an unknown entry the one before it is validated again, which is an error *)
(* only if that had one or there was none.                                  *)
ValidateJob ==
    /\ Looks /\ Pass = "schema"
    /\ \/ /\ Seen = {} /\ validated' \in {"valid", validated}
          /\ Finding(FALSE)
       \/ /\ Seen # {} /\ validated' = IF "unknown" \in Seen THEN validated ELSE "invalid"
          /\ Finding(validated' # "valid")

(* A channel of gerritbot: events that are missing, or empty, cannot be     *)
(* iterated over.                                                           *)
CheckChannel ==
    /\ Looks /\ Pass = "channel"
    /\ IF "no events" \in Seen THEN Raises ELSE Finding(Seen # {}) /\ UNCHANGED validated

(* The lines of the projects: their order and indentation.                  *)
CheckAlphabetical ==
    /\ Looks /\ Pass = "alphabetical" /\ Finding(Seen # {}) /\ UNCHANGED validated

(* The channels of gerritbot, against those of accessbot.                   *)
CheckAccessbot ==
    /\ Looks /\ Pass = "access" /\ Finding(Seen # {}) /\ UNCHANGED validated

(* Projects out of order, without the template, or badly indented lines.    *)
(* The template pass leaves out z/tempest by its name: an entry of that     *)
(* name is one without the fault "no template", whatever it says.           *)
CheckLayout ==
    /\ Looks /\ Pass \in {"sorted", "template", "formatting"}
    /\ Finding(Seen # {}) /\ UNCHANGED validated

(* A pattern that matches no job; without a list of jobs all is well.       *)
CheckJob ==
    /\ Looks /\ Pass = "job" /\ Finding(jobList /\ Seen # {}) /\ UNCHANGED validated

(* errors = the next pass or errors                                         *)
EndPass ==
    /\ verdict = "none" /\ next > Len(entries)
    /\ errors' = (found \/ errors) /\ found' = FALSE /\ next' = 1 /\ pass' = pass + 1
    /\ verdict' = IF pass < Len(Passes(check)) THEN "none" ELSE IF errors' THEN "fail" ELSE "pass"
    /\ UNCHANGED <<check, entries, jobList, validated>>

ChecksNext == \/ CheckProject \/ ValidateJob \/ CheckAlphabetical \/ CheckChannel \/ CheckAccessbot
              \/ CheckLayout \/ CheckJob \/ EndPass
ChecksSpec == ChecksInit /\ [][ChecksNext]_checksVars

-----------------------------------------------------------------------------

(* Overlooked: an unknown entry among the jobs behind one that is valid, if *)
(* nothing invalid comes first, and patterns without a list of jobs.        *)
Overlooked(i, f) ==
    \/ f = "unknown" /\ \E j \in 1..(i - 1) : {"invalid", "unknown"} \cap entries[j] = {}
    \/ f = "no match" /\ ~jobList

(* What passes has no fault in any entry, of any pass, and what has no      *)
(* fault passes.                                                            *)
VerdictIsRight ==
    /\ verdict = "pass" => \A i \in DOMAIN entries : \A f \in entries[i] : Overlooked(i, f)
    /\ verdict \in {"fail", "exception"} => \E i \in DOMAIN entries : entries[i] # {}

=============================================================================

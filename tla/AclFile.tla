------------------------------ MODULE AclFile ------------------------------
(***************************************************************************)
(* normalize_acl: the gate refuses an ACL file of gerrit that differs from *)
(* what this program makes of it, and with other arguments the same        *)
(* program writes the file as it should be.                                *)
(*                                                                         *)
(* A file is a sequence of lines, here without blank ones and with single  *)
(* spaces: section headings and options.  Of the options there is one for  *)
(* each thing a transformation tells apart.                                *)
(***************************************************************************)
EXTENDS Integers, Sequences, FiniteSets, SequencesExt

CONSTANTS Texts,         \* files to start from
          ArgumentSets   \* sets of transformations to start with

ASSUME AclAssumption == Texts \subseteq Seq(STRING)

(* In the order the program sorts them.                                     *)
Headings == {"[heads]", "[project]", "[tags]"}
Order == <<"[heads]", "[project]", "[tags]", "create", "exclusive a b", "exclusive b a",
           "owner Administrators", "state active", "two equals signs", "vote ci-core",
           "vote infra-core", "vote team", "vote team-core", "vote team-core-core">>
Options == Range(Order) \ Headings
SpecialTeams == {"vote ci-core", "vote infra-core", "vote team-core", "vote team-core-core"}
Votes == SpecialTeams \cup {"vote team"}
All == 0..7

VARIABLES
    original, file,   \* the file before the first run, and now
    transformations,
    specialProject,   \* the name of the file is that of a special project
    phase,            \* "parse", "transform", "write", "done" or "died"
    line,             \* the next line to parse, or transformation to make
    section,
    acl,              \* the options: <<section, option, line it came from>>
    printed,          \* what a dry run has printed
    gate              \* the second run, by the gate, with all transformations

aclArgs == <<original, transformations, specialProject, gate>>
aclVars == <<aclArgs, file, phase, line, section, acl, printed>>

AclInit ==
    /\ original \in Texts /\ file = original /\ transformations \in ArgumentSets
    /\ specialProject \in BOOLEAN /\ phase = "parse" /\ line = 1 /\ section = "none"
    /\ acl = {} /\ printed = <<>> /\ gate = FALSE

Wanted == IF gate THEN All ELSE transformations
DryRun == 0 \in Wanted \/ Wanted = {}

Dies == phase' = "died" /\ UNCHANGED <<line, section, acl>>

(* One line.  A heading starts its section anew, an option before the first *)
(* one is a NameError, and anything else an exception.                      *)
ParseLine ==
    /\ phase = "parse" /\ line <= Len(file) /\ UNCHANGED <<aclArgs, file, printed>>
    /\ LET l == file[line] IN
       IF l \in Headings
       THEN /\ section' = l /\ acl' = {x \in acl : x[1] # l}
            /\ line' = line + 1 /\ UNCHANGED phase
       ELSE IF l \in Options /\ section # "none"
            THEN /\ acl' = acl \cup {<<section, l, line>>}
                 /\ line' = line + 1 /\ UNCHANGED <<phase, section>>
            ELSE Dies

Parsed ==
    /\ phase = "parse" /\ line > Len(file)
    /\ phase' = "transform" /\ line' = 2
    /\ UNCHANGED <<aclArgs, file, section, acl, printed>>

-----------------------------------------------------------------------------
(* The transformations: what is left out, and what is rewritten *)

(* A plausible mistake: `create' is left out in every section.              *)
DropsInAnySection(t, s, o) == t = 2 /\ o = "create"

Drops(t, s, o) == \/ t = 2 /\ s = "[tags]" /\ o = "create"
                  \/ t = 3 /\ s = "[project]" /\ o = "state active"
                  \/ t = 4 /\ o = "owner Administrators"

(* A plausible mistake: the teams of a vote are not looked at.              *)
AddsCoreToAll(s, o) == s = "[heads]" /\ o \in Votes

AddsCore(s, o) == s = "[heads]" /\ o \in Votes \ SpecialTeams /\ ~specialProject

WithCore(o) == IF o = "vote team" THEN "vote team-core" ELSE "vote team-core-core"

(* 6 and 7: the groups that became infra-core, and the suffix of a team's group. *)
Rewrite(t, s, o) == IF t = 5 /\ o = "exclusive b a" THEN "exclusive a b"
                    ELSE IF t = 6 /\ o = "vote ci-core" THEN "vote infra-core"
                    ELSE IF t = 7 /\ AddsCore(s, o) THEN WithCore(o)
                    ELSE o

Transformed(t) == {<<x[1], Rewrite(t, x[1], x[2]), x[3]>> : x \in {y \in acl : ~Drops(t, y[1], y[2])}}

(* The fifth takes an option apart at its equals sign; with two of them that *)
(* is a ValueError.                                                         *)
Transform ==
    /\ phase = "transform" /\ UNCHANGED <<aclArgs, file, printed>>
    /\ IF line > 7 THEN phase' = "write" /\ UNCHANGED <<line, section, acl>>
       ELSE IF line \in Wanted /\ line = 5 /\ \E x \in acl : x[2] = "two equals signs"
            THEN Dies
            ELSE /\ line' = line + 1 /\ UNCHANGED <<phase, section>>
                 /\ acl' = IF line \in Wanted THEN Transformed(line) ELSE acl

(* The sections and in each its options in order; those that are the same   *)
(* stay as they were.                                                       *)
Rank(l) == CHOOSE i \in DOMAIN Order : Order[i] = l
Before(x, y) == \/ Rank(x[1]) < Rank(y[1])
                \/ x[1] = y[1] /\ Rank(x[2]) < Rank(y[2])
                \/ x[1] = y[1] /\ x[2] = y[2] /\ x[3] < y[3]
Place(L, x) == Cardinality({y \in L : ~Before(x, y)})
Sorted(L) == [k \in 1..Cardinality(L) |-> (CHOOSE x \in L : Place(L, x) = k)[2]]

(* Sections without options are left out.                                   *)
WithHeadings(A) == A \cup {<<x[1], x[1], 0>> : x \in A}
Text == Sorted(WithHeadings(acl))

(* What is printed ends in one end of line, even if there is no line at all. *)
Write ==
    /\ phase = "write" /\ phase' = "done" /\ UNCHANGED <<aclArgs, line, section, acl>>
    /\ IF DryRun THEN printed' = (IF Text = <<>> THEN <<"">> ELSE Text) /\ UNCHANGED file
                 ELSE file' = Text /\ UNCHANGED printed

(* The gate looks at the file that has been written.                        *)
Check ==
    /\ phase = "done" /\ ~gate /\ gate' = TRUE
    /\ phase' = "parse" /\ line' = 1 /\ section' = "none" /\ acl' = {} /\ printed' = <<>>
    /\ UNCHANGED <<original, transformations, specialProject, file>>

AclNext == ParseLine \/ Parsed \/ Transform \/ Write \/ Check

AclSpec == AclInit /\ [][AclNext]_aclVars

-----------------------------------------------------------------------------

(* What the program has written with all transformations the gate accepts:  *)
(* doing it again changes nothing.  Only a file that came to nothing is     *)
(* refused, for an empty line is printed for it.                            *)
NormalisedPasses ==
    gate /\ transformations = All \ {0} =>
        /\ phase # "died"
        /\ phase = "done" => printed = file \/ file = <<>>

(* The options of a text below a heading, as often as it occurs.            *)
Exclusives == {"exclusive a b", "exclusive b a"}
Kind(o) == IF o \in Votes THEN "vote" ELSE IF o \in Exclusives THEN "exclusive" ELSE o
Under(text, i, s) == /\ text[i] \notin Headings
                     /\ \E h \in 1..i : text[h] = s /\ \A j \in (h + 1)..i : text[j] \notin Headings
Below(text, s, kind) == {i \in DOMAIN text : Under(text, i, s) /\ Kind(text[i]) = kind}
Once(s) == Cardinality({i \in DOMAIN original : original[i] = s}) = 1
Removed == {<<"[tags]", "create">>, <<"[project]", "state active">>}
Stays(s, o) == Once(s) /\ o # "owner Administrators" /\ <<s, o>> \notin Removed

(* Below each heading the file has as many options of a kind as before, be  *)
(* they rewritten, except for those that are to go.  A heading that occurs  *)
(* twice loses what is below its first occurrence.                          *)
NothingMissing ==
    \A s \in Headings, o \in Options : Stays(s, o) =>
        Cardinality(Below(file, s, Kind(o))) = Cardinality(Below(original, s, Kind(o)))

(* Nothing else is lost by the time the program has come to its end.        *)
NothingElseLost == phase = "done" => NothingMissing

=============================================================================

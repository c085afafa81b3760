----------------------------- MODULE UploadList -----------------------------
(***************************************************************************)
(* zuul_swift_upload, before anything is posted: the list of the files     *)
(* below the arguments, and the index pages that link them.  What happens  *)
(* to the queue that comes of it is the subject of SwiftUpload.            *)
(*                                                                         *)
(* The objects in swift are named by the path from an argument down, its   *)
(* own name included.  Any file that cannot be looked at ends the program  *)
(* with an OSError before a single file is posted.  Files may vanish while *)
(* the list is made, between any two looks at them.                        *)
(***************************************************************************)
EXTENDS Integers, Sequences, FiniteSets, SequencesExt

CONSTANTS Nodes,     \* files and directories
          Trees,     \* where they are: functions from Nodes to Nodes or NoNode
          NoNode,    \* the parent of an argument; two of them may be of different directories
          FileNames, \* what they may be called, IndexName among it
          ArgSets    \* the sets of options it may be started with

IndexName == "index.html"

(* No directory lies below itself: from every set of nodes a way leads out.  *)
ASSUME ListAssumption ==
    /\ IsFiniteSet(Nodes) /\ NoNode \notin Nodes
    /\ \A t \in Trees : /\ t \in [Nodes -> Nodes \cup {NoNode}]
                        /\ \A S \in SUBSET Nodes : S # {} => \E n \in S : t[n] \notin S

VARIABLES
    parent, name,
    kind,       \* "file", "dir", "linked" (to a directory), "broken" or "gone"
    large,      \* files above max_file_size
    args,       \* the options that are set
    listing,    \* "list", "queue", "post" or "died"
    paths,      \* arguments still to be looked at
    arg,        \* the argument build_file_list is called with, or NoNode
    rootFiles,  \* arguments that the root index is to show as files
    walk,       \* directories os.walk has still to visit
    fileList,   \* file_list: an object, and the node it comes of or the directory it is the index of
    links,      \* the links of an index page, by the name of its object
    queue       \* the objects to post

givenFiles == <<parent, name, large, args>>
walkVars == <<paths, arg, rootFiles, walk>>
listVars == <<givenFiles, kind, listing, walkVars, fileList, links, queue>>

Arguments == {n \in Nodes : parent[n] = NoNode}
In(d) == {n \in Nodes : parent[n] = d /\ kind[n] # "gone"}
IsDir(n) == kind[n] \in {"dir", "linked"}

Path[n \in Nodes] == IF parent[n] = NoNode THEN <<name[n]>> ELSE Append(Path[parent[n]], name[n])
IndexOf(path) == Append(path, IndexName)

(* grab_args, expand_files and normpath: an argument that is given twice in  *)
(* two spellings is two arguments of one name.                              *)
ListInit ==
    /\ parent \in Trees /\ name \in [Nodes -> FileNames]
    /\ \A m, n \in Nodes : m # n /\ parent[m] = parent[n] /\ parent[m] # NoNode => name[m] # name[n]
    /\ kind \in [Nodes -> {"file", "dir", "linked", "broken"}]
    /\ \A n \in Nodes : parent[n] # NoNode => kind[parent[n]] = "dir"
    /\ large \in SUBSET {n \in Nodes : kind[n] = "file"} /\ args \in ArgSets
    /\ listing = "list" /\ paths = Arguments /\ arg = NoNode /\ rootFiles = {} /\ walk = {}
    /\ fileList = {} /\ links = <<>> /\ queue = {}

DirIndexes == {"no_indexes", "no_dir_indexes"} \cap args = {}
RootIndex == {"no_indexes", "no_root_index"} \cap args = {}

-----------------------------------------------------------------------------
(* get_file_metadata, get_folder_metadata and listdir: os.stat raises.      *)

OSError == listing' = "died" /\ UNCHANGED <<walkVars, fileList, links, queue>>
Unreadable(nodes) == \E n \in nodes : kind[n] \in {"broken", "gone"}

File(n) == [object |-> Path[n], node |-> n, index |-> FALSE]
Index(path, d) == [object |-> IndexOf(path), node |-> d, index |-> TRUE]

FilesOf(nodes) == {n \in nodes : kind[n] = "file"}
Adds(files, pages) == fileList' = fileList \cup {File(n) : n \in files} \cup pages

LinksOf(page, targets) ==
    links' = [p \in DOMAIN links \cup {page} |-> IF p = page THEN targets ELSE links[p]]

(* A plausible mistake: the index page is made in any case.                 *)
MakeIndexAlways(path, d, targets, shown, files) ==
    /\ Adds(files, {Index(path, d)})
    /\ LinksOf(IndexOf(path), targets)

(* make_index_file: no page if one of the files shown is a page already.    *)
MakeIndexFile(path, d, targets, shown, files) ==
    IF \E n \in shown : name[n] = IndexName
    THEN Adds(files, {}) /\ UNCHANGED links
    ELSE Adds(files, {Index(path, d)}) /\ LinksOf(IndexOf(path), targets)

-----------------------------------------------------------------------------
(* The main program, first part: one argument, which the root index will    *)
(* show.  glob2 finds broken links, too.                                    *)
Argument ==
    /\ listing = "list" /\ arg = NoNode /\ walk = {}
    /\ \E n \in paths :
         IF Unreadable({n}) THEN OSError
         ELSE /\ paths' = paths \ {n} /\ arg' = n /\ rootFiles' = rootFiles \cup FilesOf({n})
              /\ UNCHANGED <<listing, walk, fileList, links, queue>>
    /\ UNCHANGED <<givenFiles, kind>>

(* build_file_list looks at it again.  One that has vanished is neither a   *)
(* file nor a directory and gives no error, or an OSError if it vanishes    *)
(* before it is looked at for a third time.                                 *)
BuildFileList ==
    /\ listing = "list" /\ arg # NoNode
    /\ \/ kind[arg] = "gone" /\ OSError
       \/ /\ arg' = NoNode /\ walk' = {n \in {arg} : IsDir(n)}
          /\ Adds(FilesOf({arg}), {})
          /\ UNCHANGED <<listing, paths, rootFiles, links, queue>>
    /\ UNCHANGED <<givenFiles, kind>>

(* build_file_list, one directory of os.walk, which does not follow links.  *)
(* A file that has vanished is not listed, or cannot be looked at.          *)
(* Without index pages the links come to nothing.                           *)
ParentLink(d) == IF "no_parent_links" \in args THEN {} ELSE {Front(Path[d])}

WalkDir ==
    /\ listing = "list"
    /\ \E d \in walk :
         \/ Unreadable({n \in Nodes : parent[n] = d}) /\ OSError
         \/ /\ ~Unreadable(In(d))
            /\ walk' = (walk \ {d}) \cup {n \in In(d) : kind[n] = "dir"}
            /\ IF DirIndexes
               THEN MakeIndexFile(Path[d], d, ParentLink(d) \cup {Path[n] : n \in In(d)},
                                  FilesOf(In(d)), FilesOf(In(d)))
               ELSE Adds(FilesOf(In(d)), {}) /\ UNCHANGED links
            /\ UNCHANGED <<listing, paths, arg, rootFiles, queue>>
    /\ UNCHANGED <<givenFiles, kind>>

(* The index of the arguments.                                              *)
MakeRootIndex ==
    /\ listing = "list" /\ paths = {} /\ arg = NoNode /\ walk = {} /\ listing' = "queue"
    /\ IF RootIndex
       THEN MakeIndexFile(<<>>, NoNode, {Path[n] : n \in Arguments}, rootFiles, {})
       ELSE UNCHANGED <<fileList, links>>
    /\ UNCHANGED <<givenFiles, kind, walkVars, queue>>

(* swift_form_post_queue: getsize raises for a file that has gone; a file   *)
(* that is too large is left out, and so is an index page.                  *)
SwiftFormPostQueue ==
    /\ listing = "queue"
    /\ IF \E f \in fileList : ~f.index /\ kind[f.node] = "gone" THEN OSError
       ELSE /\ \E big \in SUBSET {f \in fileList : f.index} :
                 queue' = {f \in fileList \ big : f.index \/ f.node \notin large}
            /\ listing' = "post" /\ UNCHANGED <<walkVars, fileList, links>>
    /\ UNCHANGED <<givenFiles, kind>>

(* Another process removes a file.                                          *)
Vanish ==
    /\ listing \in {"list", "queue"}
    /\ \E n \in Nodes : kind[n] = "file" /\ kind' = [kind EXCEPT ![n] = "gone"]
    /\ UNCHANGED <<givenFiles, listing, walkVars, fileList, links, queue>>

ListNext == Argument \/ BuildFileList \/ WalkDir \/ MakeRootIndex \/ SwiftFormPostQueue \/ Vanish

ListSpec == ListInit /\ [][ListNext]_listVars

-----------------------------------------------------------------------------

Posts(object) == \E f \in queue : f.object = object
TooLarge(object) == \E f \in fileList \ queue : f.object = object
Vanished(object) == \E n \in Arguments : kind[n] = "gone" /\ Path[n] = object
Settled(object) == Posts(object) \/ TooLarge(object) \/ Vanished(object)
Linked(object) == \E n \in Nodes : kind[n] = "linked" /\ parent[n] # NoNode /\ Path[n] = object
Folder(object) == object = <<>> \/ \E n \in Nodes : IsDir(n) /\ Path[n] = object
HasPage(path) == IF path = <<>> THEN RootIndex ELSE DirIndexes

(* The links of the index pages lead somewhere: to a file that is posted,   *)
(* if it is not too large, or to a folder that has an index page, made or   *)
(* given, if folders have any.  Links to directories do not: nothing below  *)
(* them is posted.  Of the files that vanish meanwhile only arguments leave *)
(* a dead link: others end the program, or are not linked.                  *)
LinksResolve ==
    listing = "post" =>
        \A page \in DOMAIN links : \A target \in links[page] :
            \/ Settled(target) \/ Linked(target)
            \/ Folder(target) /\ (HasPage(target) => Settled(IndexOf(target)))

ArgumentOf(f) == IF f.index /\ f.node = NoNode THEN {} ELSE {n \in Arguments : name[n] = f.object[1]}

(* No object is posted twice, which would leave either of two contents in   *)
(* swift, unless two arguments have the same name.                          *)
ObjectsDistinct ==
    \A f, g \in queue : f # g /\ f.object = g.object => Cardinality(ArgumentOf(f)) > 1

(* What is posted can be browsed, and each page and file is there once. *)
PagesFit == LinksResolve /\ ObjectsDistinct

=============================================================================

----------------------------- MODULE SwiftUpload -----------------------------
(***************************************************************************)
(* zuul_swift_upload: at the end of a job its logs are posted to swift.    *)
(*                                                                         *)
(* The main program queues the files that are not too large, starts as     *)
(* many PostThreads as the signature allows or there are files, waits for  *)
(* all, and prints the address of the folder.  A thread takes a file off   *)
(* the queue, opens it and posts it up to three times.  The signature      *)
(* expires, and a thread that notices ends with an exception nobody        *)
(* catches.  Posting is requests.post: it reads the open file to the end   *)
(* while it prepares the request, so that a second attempt finds nothing   *)
(* left to read, and it raises only if there is no response.               *)
(***************************************************************************)
EXTENDS Integers, FiniteSets

CONSTANTS NFiles,        \* files to upload
          MaxFileCount   \* max_file_count of the hmac body

ASSUME UploadAssumption == NFiles \in Nat /\ MaxFileCount \in Nat \ {0}

File == 1..NFiles
Thread == 1..MaxFileCount

VARIABLES
    queue,    \* Queue.Queue of file jobs: the files on it, in the order of their numbers
    main,     \* where the main program is
    threads,  \* num_threads
    pc,       \* where a PostThread is
    file,     \* the file it works on, 0 if none
    attempt,  \* `attempt' of _post_file
    unread,   \* its open file has not been read yet
    expired,  \* the time in payload['expires'] is over
    store,    \* what swift has of a file
    outcome   \* history: how the work on a file ended

threadVars == <<pc, file, attempt, unread>>
vars == <<queue, main, threads, threadVars, expired, store, outcome>>

TypeOK ==
    /\ queue \subseteq File
    /\ main \in {"start", "join", "done"} /\ threads \in 1..MaxFileCount
    /\ pc \in [Thread -> {"new", "get", "expiry", "open", "post", "ended", "died"}]
    /\ file \in [Thread -> File \cup {0}]
    /\ \A t \in Thread : file[t] # 0 <=> pc[t] \in {"expiry", "open", "post"}
    /\ attempt \in [Thread -> 0..2] /\ unread \in [Thread -> BOOLEAN]
    /\ expired \in BOOLEAN
    /\ store \in [File -> {"absent", "whole", "empty"}]
    /\ outcome \in [File -> {"queued", "skipped", "posted", "refused", "failed", "unreadable",
                             "late"}]

Smaller(a, b) == IF a < b THEN a ELSE b
Larger(a, b) == IF a > b THEN a ELSE b

(* swift_form_post_queue leaves out the files above max_file_size.          *)
Init ==
    /\ \E large \in SUBSET File :
         /\ queue = File \ large
         /\ outcome = [f \in File |-> IF f \in large THEN "skipped" ELSE "queued"]
    /\ main = "start" /\ threads = Smaller(MaxFileCount, Larger(Cardinality(queue), 1))
    /\ pc = [t \in Thread |-> "new"] /\ file = [t \in Thread |-> 0]
    /\ attempt = [t \in Thread |-> 0] /\ unread = [t \in Thread |-> FALSE]
    /\ expired = FALSE
    /\ store = [f \in File |-> "absent"]

-----------------------------------------------------------------------------
(* THE MAIN PROGRAM: swift_form_post *)

StartThread(t) ==
    /\ main = "start" /\ t <= threads /\ pc[t] = "new"
    /\ \A u \in 1..(t - 1) : pc[u] # "new"
    /\ pc' = [pc EXCEPT ![t] = "get"]
    /\ main' = IF t = threads THEN "join" ELSE main
    /\ UNCHANGED <<queue, threads, file, attempt, unread, expired, store, outcome>>

(* A plausible mistake: only the first thread is joined. *)
JoinFirst ==
    /\ main = "join" /\ pc[1] \in {"ended", "died"}
    /\ main' = "done"
    /\ UNCHANGED <<queue, threads, threadVars, expired, store, outcome>>

Join ==
    /\ main = "join" /\ \A t \in 1..threads : pc[t] \in {"ended", "died"}
    /\ main' = "done"
    /\ UNCHANGED <<queue, threads, threadVars, expired, store, outcome>>

-----------------------------------------------------------------------------
(* A THREAD: run and _post_file *)

First(f) == f \in queue /\ \A g \in queue : f <= g

(* A plausible mistake: a file is removed from the queue by the next get. *)
GetPeeks(t) ==
    /\ pc[t] = "get" /\ queue # {}
    /\ \E f \in queue : /\ First(f)
                        /\ file' = [file EXCEPT ![t] = f]
                        /\ queue' = IF \E u \in Thread : file[u] = f THEN queue \ {f} ELSE queue
    /\ pc' = [pc EXCEPT ![t] = "expiry"]
    /\ UNCHANGED <<main, threads, attempt, unread, expired, store, outcome>>

(* A plausible mistake: get() instead of get_nowait(). *)
GetBlocks(t) ==
    /\ pc[t] = "get"
    /\ pc' = [pc EXCEPT ![t] = "expiry"]
    /\ \E f \in queue : /\ First(f)
                        /\ file' = [file EXCEPT ![t] = f]
                        /\ queue' = queue \ {f}
    /\ UNCHANGED <<main, threads, attempt, unread, expired, store, outcome>>

(* get_nowait(): a file, or Queue.Empty, which ends the thread. *)
Get(t) ==
    /\ pc[t] = "get"
    /\ \/ queue = {} /\ pc' = [pc EXCEPT ![t] = "ended"] /\ UNCHANGED <<queue, file>>
       \/ /\ pc' = [pc EXCEPT ![t] = "expiry"]
          /\ \E f \in queue : /\ First(f)
                              /\ file' = [file EXCEPT ![t] = f]
                              /\ queue' = queue \ {f}
    /\ UNCHANGED <<main, threads, attempt, unread, expired, store, outcome>>

(* The thread has done with its file and goes on at s. *)
Ends(t, how, s) ==
    /\ outcome' = [outcome EXCEPT ![file[t]] = how]
    /\ file' = [file EXCEPT ![t] = 0]
    /\ attempt' = [attempt EXCEPT ![t] = 0]
    /\ unread' = [unread EXCEPT ![t] = FALSE]
    /\ pc' = [pc EXCEPT ![t] = s]
    /\ UNCHANGED <<queue, main, threads, expired>>

(* "Ran out of time uploading files!" is an exception run() does not catch. *)
CheckExpiry(t) ==
    /\ pc[t] = "expiry"
    /\ \/ /\ expired
          /\ Ends(t, "late", "died")
       \/ /\ ~expired
          /\ pc' = [pc EXCEPT ![t] = "open"]
          /\ UNCHANGED <<queue, main, threads, file, attempt, unread, expired, outcome>>
    /\ UNCHANGED <<store>>

(* open(): a file, or an IOError, which run() logs before it goes on. *)
Open(t) ==
    /\ pc[t] = "open"
    /\ \/ Ends(t, "unreadable", "get")
       \/ /\ pc' = [pc EXCEPT ![t] = "post"]
          /\ unread' = [unread EXCEPT ![t] = TRUE]
          /\ UNCHANGED <<queue, main, threads, file, attempt, expired, outcome>>
    /\ UNCHANGED <<store>>

Content(t) == IF unread[t] THEN "whole" ELSE "empty"
Stores(t) == store' = [store EXCEPT ![file[t]] = Content(t)]

(* The post has a response, be it that swift has refused the file. *)
Respond(t) ==
    /\ pc[t] = "post"
    /\ \/ Stores(t) /\ Ends(t, "posted", "get")
       \/ UNCHANGED store /\ Ends(t, "refused", "get")

(* No response, and swift may have stored the file or not.  Whether to try  *)
(* again is decided by attempt <= 3, which holds for each of the attempts   *)
(* 0, 1 and 2: the `raise' after it is never reached, and after the last    *)
(* attempt the loop just ends and _post_file returns as after a success.    *)
Raise(t) ==
    /\ pc[t] = "post"
    /\ Stores(t) \/ UNCHANGED store
    /\ \/ /\ attempt[t] < 2
          /\ attempt' = [attempt EXCEPT ![t] = @ + 1]
          /\ unread' = [unread EXCEPT ![t] = FALSE]
          /\ UNCHANGED <<queue, main, threads, pc, file, expired, outcome>>
       \/ attempt[t] = 2 /\ Ends(t, "failed", "get")

(* The file itself cannot be read while the request is prepared: an IOError *)
(* that is no RequestException leaves the attempts, and run() logs it as it *)
(* logs a failing open().                                                   *)
ReadFails(t) ==
    /\ pc[t] = "post"
    /\ Ends(t, "unreadable", "get")
    /\ UNCHANGED store

ThreadStep(t) == Get(t) \/ CheckExpiry(t) \/ Open(t) \/ Respond(t) \/ Raise(t) \/ ReadFails(t)

(* The signature expires at any time. *)
Expire ==
    /\ ~expired /\ expired' = TRUE
    /\ UNCHANGED <<queue, main, threads, threadVars, store, outcome>>

Next == \/ \E t \in Thread : StartThread(t) \/ ThreadStep(t)
        \/ Join \/ Expire

(* The main program and every thread are scheduled, and a post ends. *)
Fairness == /\ WF_vars(Join)
            /\ \A t \in Thread : WF_vars(StartThread(t)) /\ WF_vars(ThreadStep(t))

Spec == Init /\ [][Next]_vars /\ Fairness

-----------------------------------------------------------------------------
(* PROPERTIES *)

(* A file is in one place: on the queue, or with one thread, or done with.  *)
(* No file is posted by two threads and none is forgotten.                  *)
OneAtATime ==
    /\ \A t \in Thread : file[t] \notin queue
    /\ \A t, u \in Thread : file[t] = file[u] /\ file[t] # 0 => t = u
    /\ \A f \in File : outcome[f] = "queued" <=> f \in queue \/ \E t \in Thread : file[t] = f

(* "Do our best to attempt to upload all the files": when the address is    *)
(* printed every file has been posted, refused or given up, unless the time *)
(* has run out, and then every thread has noticed.                          *)
AllTriedUnlessLate ==
    main = "done" =>
        \/ \A f \in File : outcome[f] \notin {"queued", "late"}
        \/ expired /\ \A t \in 1..threads : pc[t] = "died" \/ queue = {}

(* Once the work on a file has ended, nobody posts it again: swift keeps    *)
(* what it has of it.                                                       *)
NotTouchedAgain ==
    [][\A f \in File : outcome[f] # "queued" => UNCHANGED <<store[f], outcome[f]>>]_vars

(* The upload ends, whatever fails. *)
UploadEnds == <>(main = "done")

(* "Do our best to attempt to upload all the files": an attempt uploads the *)
(* file, not an empty one.                                                  *)
NothingEmpty == \A f \in File : store[f] # "empty"

=============================================================================

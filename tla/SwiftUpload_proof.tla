-------------------------- MODULE SwiftUpload_proof --------------------------
(***************************************************************************)
(* Proofs about SwiftUpload for any number of files and threads.           *)
(***************************************************************************)
EXTENDS SwiftUpload, FiniteSetTheorems, TLAPS

(* A thread that has ended found the queue empty, one that died found the   *)
(* time over, and main joins only when every thread has been started.       *)
ThreadsOK ==
    /\ \A t \in Thread : pc[t] = "ended" => queue = {}
    /\ \A t \in Thread : pc[t] = "died" => expired
    /\ \A t \in Thread : t > threads => pc[t] = "new"
    /\ main = "done" => \A t \in 1..threads : pc[t] \in {"ended", "died"}
    /\ \A f \in File : outcome[f] = "late" => expired

Inv == TypeOK /\ OneAtATime /\ ThreadsOK

(* There is a thread for each file, up to a limit. *)
LEMMA ThreadCount == Init => threads \in 1..MaxFileCount
<1> SUFFICES ASSUME Init PROVE threads \in 1..MaxFileCount
  OBVIOUS
<1>1. queue \subseteq File
  BY DEF Init
<1>2. IsFiniteSet(File)
  BY UploadAssumption, FS_Interval DEF File
<1>3. Cardinality(queue) \in Nat
  BY <1>1, <1>2, FS_Subset, FS_CardinalityType
<1>4. threads = Smaller(MaxFileCount, Larger(Cardinality(queue), 1))
  BY DEF Init
<1> HIDE DEF Init
<1>5. Larger(Cardinality(queue), 1) \in Nat \ {0}
  BY <1>3 DEF Larger
<1>6. QED BY <1>4, <1>5, UploadAssumption DEF Smaller

(* The invariant holds at the start. *)
LEMMA InitInv == Init => Inv
<1> SUFFICES ASSUME Init PROVE Inv
  OBVIOUS
<1>1. PICK large \in SUBSET File :
        /\ queue = File \ large
        /\ outcome = [f \in File |-> IF f \in large THEN "skipped" ELSE "queued"]
  BY DEF Init
<1>2. threads \in 1..MaxFileCount
  BY ThreadCount
<1>3. /\ main = "start" /\ pc = [t \in Thread |-> "new"] /\ file = [t \in Thread |-> 0]
      /\ attempt = [t \in Thread |-> 0] /\ unread = [t \in Thread |-> FALSE]
      /\ expired = FALSE /\ store = [f \in File |-> "absent"]
  BY DEF Init
<1>4. 0 \notin File
  BY DEF File
<1>5. TypeOK
  <2>1. queue \subseteq File /\ outcome \in [File -> {"queued", "skipped", "posted", "refused",
                                                     "failed", "unreadable", "late"}]
    BY <1>1
  <2>2. main \in {"start", "join", "done"} /\ threads \in 1..MaxFileCount
    BY <1>2, <1>3
  <2>3. pc \in [Thread -> {"new", "get", "expiry", "open", "post", "ended", "died"}]
    BY <1>3
  <2>4. file \in [Thread -> File \cup {0}] /\ attempt \in [Thread -> 0..2]
    BY <1>3
  <2>5. unread \in [Thread -> BOOLEAN]
    BY <1>3
  <2>6. expired \in BOOLEAN
    BY <1>3
  <2>7. store \in [File -> {"absent", "whole", "empty"}]
    BY <1>3
  <2>8. \A t \in Thread : file[t] # 0 <=> pc[t] \in {"expiry", "open", "post"}
    BY <1>3
  <2>9. QED BY <2>1, <2>2, <2>3, <2>4, <2>5, <2>6, <2>7, <2>8 DEF TypeOK
<1>6. OneAtATime
  BY <1>1, <1>3, <1>4 DEF OneAtATime
<1>7. ThreadsOK
  BY <1>1, <1>3 DEF ThreadsOK
<1>8. QED BY <1>5, <1>6, <1>7 DEF Inv

(* What the end of the work on a file does to the invariant, whatever the   *)
(* end is and wherever the thread goes on.                                  *)
LEMMA EndsInv ==
  ASSUME Inv, NEW t \in Thread, pc[t] \in {"expiry", "open", "post"},
         NEW how \in {"posted", "refused", "failed", "unreadable", "late"},
         NEW s \in {"get", "died"}, s = "died" \/ how = "late" => expired,
         Ends(t, how, s), store' \in [File -> {"absent", "whole", "empty"}]
  PROVE  Inv'
<1>t. TypeOK /\ OneAtATime /\ ThreadsOK
  BY DEF Inv
<1>1. /\ outcome' = [outcome EXCEPT ![file[t]] = how]
      /\ file' = [file EXCEPT ![t] = 0] /\ attempt' = [attempt EXCEPT ![t] = 0]
      /\ unread' = [unread EXCEPT ![t] = FALSE] /\ pc' = [pc EXCEPT ![t] = s]
      /\ UNCHANGED <<queue, main, threads, expired>>
  BY DEF Ends
<1>2. file[t] # 0 /\ file[t] \in File
  BY <1>t DEF TypeOK
<1>3. 0 \notin File
  BY DEF File
<1>4. TypeOK'
  BY <1>t, <1>1, <1>2 DEF TypeOK
<1>5. OneAtATime'
  <2>1. \A u \in Thread : file'[u] = IF u = t THEN 0 ELSE file[u]
    BY <1>t, <1>1 DEF TypeOK
  <2>2. \A f \in File : outcome'[f] = IF f = file[t] THEN how ELSE outcome[f]
    BY <1>t, <1>1, <1>2 DEF TypeOK
  <2>3. \A u \in Thread : file'[u] \notin queue'
    BY <1>t, <1>1, <1>3, <2>1 DEF OneAtATime, TypeOK
  <2>4. \A u, v \in Thread : file'[u] = file'[v] /\ file'[u] # 0 => u = v
    BY <1>t, <2>1 DEF OneAtATime
  <2>5. ASSUME NEW f \in File
        PROVE  outcome'[f] = "queued" <=> f \in queue' \/ \E u \in Thread : file'[u] = f
    <3>1. CASE f = file[t]
      <4>1. outcome'[f] # "queued" /\ f \notin queue'
        BY <1>t, <1>1, <2>2, <3>1 DEF OneAtATime
      <4>2. \A u \in Thread : file'[u] # f
        BY <1>t, <1>2, <2>1, <3>1 DEF OneAtATime
      <4>3. QED BY <4>1, <4>2
    <3>2. CASE f # file[t]
      <4>1. \A u \in Thread : file'[u] = f <=> file[u] = f
        BY <1>3, <2>1, <3>2
      <4>2. outcome'[f] = outcome[f] /\ queue' = queue
        BY <1>1, <2>2, <3>2
      <4>3. outcome[f] = "queued" <=> f \in queue \/ \E u \in Thread : file[u] = f
        BY <1>t DEF OneAtATime
      <4>4. QED BY <4>1, <4>2, <4>3
    <3>3. QED BY <3>1, <3>2
  <2>6. QED BY <2>3, <2>4, <2>5 DEF OneAtATime
<1>6. ThreadsOK'
  <2>1. pc[t] # "new" /\ pc[t] \notin {"ended", "died"} /\ t \in 1..threads
    BY <1>t DEF ThreadsOK, TypeOK, Thread
  <2>2. main # "done"
    BY <1>t, <2>1 DEF ThreadsOK
  <2>3. \A u \in Thread : pc'[u] = IF u = t THEN s ELSE pc[u]
    BY <1>t, <1>1 DEF TypeOK
  <2>4. \A f \in File : outcome'[f] = IF f = file[t] THEN how ELSE outcome[f]
    BY <1>t, <1>1, <1>2 DEF TypeOK
  <2>5. ~(t > threads)
    BY <1>t, <2>1 DEF ThreadsOK
  <2>6. QED BY <1>t, <1>1, <2>2, <2>3, <2>4, <2>5 DEF ThreadsOK
<1>7. QED BY <1>4, <1>5, <1>6 DEF Inv

(* The other steps of a thread stay with its file: only pc, the attempt and *)
(* the open file change.                                                    *)
LEMMA StaysInv ==
  ASSUME Inv, NEW t \in Thread, pc[t] \in {"expiry", "open", "post"},
         NEW s \in {"open", "post"}, pc' = [pc EXCEPT ![t] = s] ,
         attempt' \in [Thread -> 0..2], unread' \in [Thread -> BOOLEAN],
         store' \in [File -> {"absent", "whole", "empty"}],
         UNCHANGED <<queue, main, threads, file, expired, outcome>>
  PROVE  Inv'
<1>t. TypeOK /\ OneAtATime /\ ThreadsOK
  BY DEF Inv
<1>1. \A u \in Thread : pc'[u] = IF u = t THEN s ELSE pc[u]
  BY <1>t DEF TypeOK
<1>2. TypeOK'
  BY <1>t, <1>1 DEF TypeOK
<1>3. OneAtATime'
  BY <1>t DEF OneAtATime
<1>4. ThreadsOK'
  BY <1>t, <1>1 DEF ThreadsOK, Thread, TypeOK
<1>5. QED BY <1>2, <1>3, <1>4 DEF Inv

(* Get either takes the first file of the queue, or ends the thread.        *)
LEMMA GetInv ==
  ASSUME Inv, NEW t \in Thread, Get(t)
  PROVE  Inv'
<1>t. TypeOK /\ OneAtATime /\ ThreadsOK
  BY DEF Inv
<1>u. /\ pc[t] = "get" /\ file[t] = 0
      /\ UNCHANGED <<main, threads, attempt, unread, expired, store, outcome>>
  BY <1>t DEF Get, TypeOK
<1>n. 0 \notin File
  BY DEF File
<1>b. t \in 1..threads
  BY <1>t, <1>u DEF ThreadsOK, TypeOK, Thread
<1>m. main # "done"
  BY <1>t, <1>u, <1>b DEF ThreadsOK
<1>1. CASE queue = {} /\ pc' = [pc EXCEPT ![t] = "ended"] /\ UNCHANGED <<queue, file>>
  <2>1. \A u \in Thread : pc'[u] = IF u = t THEN "ended" ELSE pc[u]
    BY <1>t, <1>1 DEF TypeOK
  <2>2. TypeOK'
    BY <1>t, <1>u, <1>1, <2>1 DEF TypeOK
  <2>3. OneAtATime'
    BY <1>t, <1>u, <1>1 DEF OneAtATime
  <2>4. ThreadsOK'
    BY <1>t, <1>u, <1>b, <1>m, <1>1, <2>1 DEF ThreadsOK, Thread, TypeOK
  <2>5. QED BY <2>2, <2>3, <2>4 DEF Inv
<1>2. ASSUME pc' = [pc EXCEPT ![t] = "expiry"],
             NEW f \in queue, file' = [file EXCEPT ![t] = f], queue' = queue \ {f}
      PROVE  Inv'
  <2>1. \A u \in Thread : pc'[u] = IF u = t THEN "expiry" ELSE pc[u]
    BY <1>t, <1>2 DEF TypeOK
  <2>2. \A u \in Thread : file'[u] = IF u = t THEN f ELSE file[u]
    BY <1>t, <1>2 DEF TypeOK
  <2>3. f \in File /\ f # 0
    BY <1>t, <1>2, <1>n DEF TypeOK
  <2>4. TypeOK'
    BY <1>t, <1>u, <1>2, <2>1, <2>2, <2>3 DEF TypeOK
  <2>5. OneAtATime'
    <3>1. \A u \in Thread : file[u] # f
      BY <1>t DEF OneAtATime
    <3>2. \A u \in Thread : file'[u] \notin queue'
      BY <1>t, <1>2, <2>2 DEF OneAtATime
    <3>3. \A u, v \in Thread : file'[u] = file'[v] /\ file'[u] # 0 => u = v
      BY <1>t, <2>2, <3>1 DEF OneAtATime
    <3>4. ASSUME NEW g \in File
          PROVE  outcome'[g] = "queued" <=> g \in queue' \/ \E u \in Thread : file'[u] = g
      <4>1. outcome[g] = "queued" <=> g \in queue \/ \E u \in Thread : file[u] = g
        BY <1>t DEF OneAtATime
      <4>2. (\E u \in Thread : file'[u] = g) <=> (g = f \/ \E u \in Thread : file[u] = g)
        BY <1>u, <1>n, <2>2
      <4>3. QED BY <1>u, <1>2, <4>1, <4>2
    <3>5. QED BY <3>2, <3>3, <3>4 DEF OneAtATime
  <2>6. ThreadsOK'
    BY <1>t, <1>u, <1>b, <1>m, <1>2, <2>1 DEF ThreadsOK, Thread, TypeOK
  <2>7. QED BY <2>4, <2>5, <2>6 DEF Inv
<1>3. QED BY <1>1, <1>2 DEF Get

(* Every step of the main program keeps it, *)
LEMMA MainInv ==
  ASSUME Inv, NEW t \in Thread, StartThread(t) \/ Join
  PROVE  Inv'
<1>t. TypeOK /\ OneAtATime /\ ThreadsOK
  BY DEF Inv
<1>1. CASE StartThread(t)
  <2>1. \A u \in Thread : pc'[u] = IF u = t THEN "get" ELSE pc[u]
    BY <1>t, <1>1 DEF TypeOK, StartThread
  <2>2. /\ t <= threads /\ pc[t] = "new" /\ main' \in {"join", "start"}
        /\ UNCHANGED <<queue, threads, file, attempt, unread, expired, store, outcome>>
    BY <1>1 DEF StartThread
  <2>3. TypeOK'
    BY <1>t, <1>1, <2>1, <2>2 DEF TypeOK, StartThread
  <2>4. OneAtATime'
    BY <1>t, <2>2 DEF OneAtATime
  <2>5. ThreadsOK'
    BY <1>t, <2>1, <2>2 DEF ThreadsOK, Thread, TypeOK
  <2>6. QED BY <2>3, <2>4, <2>5 DEF Inv
<1>2. CASE Join
  <2>1. /\ \A u \in 1..threads : pc[u] \in {"ended", "died"}
        /\ main' = "done"
        /\ UNCHANGED <<queue, threads, pc, file, attempt, unread, expired, store, outcome>>
    BY <1>2 DEF Join, threadVars
  <2>2. TypeOK'
    BY <1>t, <2>1 DEF TypeOK
  <2>3. OneAtATime'
    BY <1>t, <2>1 DEF OneAtATime
  <2>4. ThreadsOK'
    BY <1>t, <2>1 DEF ThreadsOK
  <2>5. QED BY <2>2, <2>3, <2>4 DEF Inv
<1>3. QED BY <1>1, <1>2

(* every answer of swift, *)
LEMMA RespondInv ==
  ASSUME Inv, NEW t \in Thread, Respond(t) \/ Raise(t) \/ ReadFails(t)
  PROVE  Inv'
<1>t. TypeOK /\ OneAtATime /\ ThreadsOK
  BY DEF Inv
<1>1. pc[t] = "post" /\ file[t] \in File /\ attempt[t] \in 0..2
  BY <1>t DEF Respond, Raise, ReadFails, TypeOK
<1>2. store' \in [File -> {"absent", "whole", "empty"}]
  BY <1>t, <1>1 DEF Respond, Raise, ReadFails, Stores, Content, TypeOK
<1>4. ASSUME NEW how \in {"posted", "refused", "failed", "unreadable"}, Ends(t, how, "get")
      PROVE  Inv'
  BY <1>1, <1>2, <1>4, EndsInv
<1>5. ASSUME attempt[t] < 2, attempt' = [attempt EXCEPT ![t] = @ + 1],
             unread' = [unread EXCEPT ![t] = FALSE],
             UNCHANGED <<queue, main, threads, pc, file, expired, outcome>>
      PROVE  Inv'
  <2>1. attempt' \in [Thread -> 0..2]
    BY <1>t, <1>1, <1>5 DEF TypeOK
  <2>2. unread' \in [Thread -> BOOLEAN]
    BY <1>t, <1>5 DEF TypeOK
  <2>3. pc' = [pc EXCEPT ![t] = "post"]
    BY <1>t, <1>1, <1>5 DEF TypeOK
  <2>4. QED BY <1>1, <1>2, <1>5, <2>1, <2>2, <2>3, StaysInv
<1>6. CASE Respond(t)
  BY <1>4, <1>6 DEF Respond
<1>7. CASE Raise(t)
  BY <1>1, <1>4, <1>5, <1>7 DEF Raise
<1>8. CASE ReadFails(t)
  BY <1>4, <1>8 DEF ReadFails
<1>9. QED BY <1>6, <1>7, <1>8

(* and so every step. *)
LEMMA StepInv == Inv /\ [Next]_vars => Inv'
<1> SUFFICES ASSUME Inv, [Next]_vars PROVE Inv'
  OBVIOUS
<1>t. TypeOK /\ OneAtATime /\ ThreadsOK
  BY DEF Inv
<1>1. ASSUME NEW t \in Thread, CheckExpiry(t) PROVE Inv'
  <2>1. CASE expired /\ Ends(t, "late", "died")
    BY <1>t, <1>1, <2>1, EndsInv DEF CheckExpiry, TypeOK
  <2>2. CASE /\ ~expired /\ pc' = [pc EXCEPT ![t] = "open"]
             /\ UNCHANGED <<queue, main, threads, file, attempt, unread, expired, outcome>>
    BY <1>t, <1>1, <2>2, StaysInv DEF CheckExpiry, TypeOK
  <2>3. QED BY <1>1, <2>1, <2>2 DEF CheckExpiry
<1>2. ASSUME NEW t \in Thread, Open(t) PROVE Inv'
  <2>1. CASE Ends(t, "unreadable", "get")
    BY <1>t, <1>2, <2>1, EndsInv DEF Open, TypeOK
  <2>2. CASE /\ pc' = [pc EXCEPT ![t] = "post"] /\ unread' = [unread EXCEPT ![t] = TRUE]
             /\ UNCHANGED <<queue, main, threads, file, attempt, expired, outcome>>
    <3>1. unread' \in [Thread -> BOOLEAN]
      BY <1>t, <2>2 DEF TypeOK
    <3>2. QED BY <1>t, <1>2, <2>2, <3>1, StaysInv DEF Open, TypeOK
  <2>3. QED BY <1>2, <2>1, <2>2 DEF Open
<1>3. ASSUME NEW t \in Thread, ThreadStep(t) PROVE Inv'
  BY <1>1, <1>2, <1>3, GetInv, RespondInv DEF ThreadStep
<1>4. ASSUME Join PROVE Inv'
  <2>1. 1 \in Thread
    BY UploadAssumption DEF Thread
  <2>2. QED BY <1>4, <2>1, MainInv
<1>5. ASSUME Expire PROVE Inv'
  <2>1. /\ expired' = TRUE
        /\ UNCHANGED <<queue, main, threads, pc, file, attempt, unread, store, outcome>>
    BY <1>5 DEF Expire, threadVars
  <2>2. TypeOK'
    BY <1>t, <2>1 DEF TypeOK
  <2>3. OneAtATime'
    BY <1>t, <2>1 DEF OneAtATime
  <2>4. ThreadsOK'
    BY <1>t, <2>1 DEF ThreadsOK
  <2>5. QED BY <2>2, <2>3, <2>4 DEF Inv
<1>6. ASSUME UNCHANGED vars PROVE Inv'
  <2>1. UNCHANGED <<queue, main, threads, pc, file, attempt, unread, expired, store, outcome>>
    BY <1>6 DEF vars, threadVars
  <2>2. TypeOK'
    BY <1>t, <2>1 DEF TypeOK
  <2>3. OneAtATime'
    BY <1>t, <2>1 DEF OneAtATime
  <2>4. ThreadsOK'
    BY <1>t, <2>1 DEF ThreadsOK
  <2>5. QED BY <2>2, <2>3, <2>4 DEF Inv
<1>7. QED BY <1>3, <1>4, <1>5, <1>6, MainInv DEF Next

(* The types of all variables: threads stays within the signature's limit   *)
(* and an attempt within the three.                                         *)
THEOREM UploadTypeCorrect == Spec => []TypeOK
<1>1. Inv => TypeOK
  BY DEF Inv
<1>2. QED BY InitInv, StepInv, <1>1, PTL DEF Spec

(* No file is with two threads, on the queue and with a thread, or nowhere. *)
THEOREM FilesInOnePlace == Spec => []OneAtATime
<1>1. Inv => OneAtATime
  BY DEF Inv
<1>2. QED BY InitInv, StepInv, <1>1, PTL DEF Spec

(* When main has joined its threads, nothing was left on the queue unless   *)
(* the signature expired: each thread, and there is one, ended at an empty  *)
(* queue or died late.                                                      *)
THEOREM AllTried == Spec => []AllTriedUnlessLate
<1>1. Inv => AllTriedUnlessLate
  <2> SUFFICES ASSUME Inv, main = "done" PROVE AllTriedUnlessLate
    BY DEF AllTriedUnlessLate
  <2>t. TypeOK /\ OneAtATime /\ ThreadsOK
    BY DEF Inv
  <2>1. \A t \in 1..threads : pc[t] \in {"ended", "died"}
    BY <2>t DEF ThreadsOK
  <2>2. 1..threads \subseteq Thread /\ 1 \in 1..threads
    BY <2>t, UploadAssumption DEF TypeOK, Thread
  <2>3. CASE \E t \in 1..threads : pc[t] = "ended"
    <3>1. queue = {}
      BY <2>t, <2>2, <2>3 DEF ThreadsOK
    <3>2. \A t \in Thread : file[t] = 0
      BY <2>t, <2>1 DEF ThreadsOK, TypeOK, Thread
    <3>3. 0 \notin File
      BY DEF File
    <3>4. \A f \in File : outcome[f] # "queued"
      BY <2>t, <3>1, <3>2, <3>3 DEF OneAtATime
    <3>5. CASE \E f \in File : outcome[f] = "late"
      BY <2>t, <3>1, <3>5 DEF ThreadsOK, AllTriedUnlessLate
    <3>6. QED BY <3>4, <3>5 DEF AllTriedUnlessLate
  <2>4. CASE \A t \in 1..threads : pc[t] = "died"
    BY <2>t, <2>2, <2>4 DEF ThreadsOK, AllTriedUnlessLate
  <2>5. QED BY <2>1, <2>3, <2>4
<1>2. QED BY InitInv, StepInv, <1>1, PTL DEF Spec

(* Swift keeps what it has of a file whose work has ended: a thread stores  *)
(* and ends only the file it holds, and that file is still "queued".        *)
THEOREM FinishedIsFinal == Spec => NotTouchedAgain
<1>1. ASSUME Inv, [Next]_vars, NEW f \in File, outcome[f] # "queued"
      PROVE  UNCHANGED <<store[f], outcome[f]>>
  <2>t. TypeOK /\ OneAtATime
    BY <1>1 DEF Inv
  <2>1. \A t \in Thread : file[t] # f
    BY <1>1, <2>t DEF OneAtATime
  <2>2. ASSUME NEW t \in Thread, NEW how, NEW s, Ends(t, how, s)
        PROVE  outcome'[f] = outcome[f]
    BY <2>t, <2>1, <2>2 DEF Ends, TypeOK
  <2>3. ASSUME NEW t \in Thread, Stores(t) PROVE store'[f] = store[f]
    BY <2>t, <2>1, <2>3 DEF Stores, TypeOK
  <2>4. ASSUME NEW t \in Thread, ThreadStep(t) PROVE UNCHANGED <<store[f], outcome[f]>>
    <3>1. CASE Get(t)
      BY <3>1 DEF Get
    <3>2. CASE CheckExpiry(t)
      BY <2>2, <3>2 DEF CheckExpiry
    <3>3. CASE Open(t)
      BY <2>2, <3>3 DEF Open
    <3>4. CASE Respond(t)
      BY <2>2, <2>3, <3>4 DEF Respond
    <3>5. CASE Raise(t)
      BY <2>2, <2>3, <3>5 DEF Raise
    <3>6. CASE ReadFails(t)
      BY <2>2, <3>6 DEF ReadFails
    <3>7. QED BY <2>4, <3>1, <3>2, <3>3, <3>4, <3>5, <3>6 DEF ThreadStep
  <2>5. ASSUME NEW t \in Thread, StartThread(t) PROVE UNCHANGED <<store[f], outcome[f]>>
    BY <2>5 DEF StartThread
  <2>6. QED BY <1>1, <2>4, <2>5 DEF Next, Join, Expire, vars
<1>2. Inv /\ [Next]_vars => [\A f \in File : outcome[f] # "queued" => UNCHANGED <<store[f], outcome[f]>>]_vars
  BY <1>1
<1>3. QED BY InitInv, StepInv, <1>2, PTL DEF Spec, NotTouchedAgain

-----------------------------------------------------------------------------
(* THE UPLOAD COMES TO AN END: what is left to do for the files, for the    *)
(* threads and for the main program are finite sets, of which every step    *)
(* but the expiry takes something away; and there is always a next step.    *)

(* What is left for a file that a thread has: its expiry is to be checked,  *)
(* it is to be opened, and posted up to three times.                        *)
Rest(p, a) == CASE p = "expiry" -> 5 [] p = "open" -> 4 [] p = "post" -> 3 - a [] OTHER -> 0

FileWork == {w \in File \X (1..6) :
                w[1] \in queue \/ \E t \in Thread : file[t] = w[1] /\ w[2] <= Rest(pc[t], attempt[t])}

(* A thread is to end, and before that to be started. *)
ThreadWork == {w \in Thread \X (1..2) :
                  pc[w[1]] \notin {"ended", "died"} /\ (w[2] = 2 => pc[w[1]] = "new")}

MainWork == {w \in {"join"} : main # "done"}

Less == /\ FileWork' \subseteq FileWork /\ ThreadWork' \subseteq ThreadWork /\ MainWork' \subseteq MainWork
        /\ FileWork' # FileWork \/ ThreadWork' # ThreadWork \/ MainWork' # MainWork

(* The threads are started up to the last. *)
StartOK == /\ main = "start" => pc[threads] = "new"
           /\ main # "start" => \A t \in 1..threads : pc[t] # "new"

(* Until main is done a thread is at work, where nothing can keep it, or    *)
(* one is to be started, or all have ended and are joined.                  *)
NotStuck ==
    \/ main = "done"
    \/ \E t \in 1..threads : pc[t] \in {"get", "expiry", "open", "post"}
    \/ main = "start" /\ \E t \in 1..threads : pc[t] = "new"
    \/ main = "join" /\ \A t \in 1..threads : pc[t] \in {"ended", "died"}

(* All the work there can be is finite. *)
LEMMA WorkIsFinite == IsFiniteSet(FileWork) /\ IsFiniteSet(ThreadWork) /\ IsFiniteSet(MainWork)
<1>1. IsFiniteSet(File) /\ IsFiniteSet(Thread)
  BY UploadAssumption, FS_Interval DEF File, Thread
<1>2. IsFiniteSet(1..6) /\ IsFiniteSet(1..2)
  <2>1. 1 \in Int /\ 2 \in Int /\ 6 \in Int
    OBVIOUS
  <2> QED BY <2>1, FS_Interval, Zenon
<1>3. IsFiniteSet(File \X (1..6)) /\ IsFiniteSet(Thread \X (1..2))
  BY <1>1, <1>2, FS_Product
<1>4. FileWork \subseteq File \X (1..6) /\ ThreadWork \subseteq Thread \X (1..2)
  BY DEF FileWork, ThreadWork
<1>5. MainWork \subseteq {"join"}
  BY DEF MainWork
<1>6. IsFiniteSet({"join"})
  BY FS_Singleton
<1> QED BY <1>3, <1>4, <1>5, <1>6, FS_Subset

(* A thread that gets on with its file, or is rid of it. *)
LEMMA FileAdvances ==
    ASSUME Inv, Inv', NEW t \in Thread, file[t] # 0, file'[t] \in {0, file[t]},
           Rest(pc'[t], attempt'[t]) < Rest(pc[t], attempt[t]), pc'[t] # "new",
           \A u \in Thread \ {t} : pc'[u] = pc[u] /\ file'[u] = file[u] /\ attempt'[u] = attempt[u],
           UNCHANGED <<queue, main>>
    PROVE  Less
<1>t. TypeOK /\ OneAtATime /\ TypeOK'
  BY DEF Inv
<1> DEFINE f == file[t]
           r == Rest(pc[t], attempt[t])
           q == Rest(pc'[t], attempt'[t])
<1>1. f \in File /\ f \notin queue /\ \A u \in Thread \ {t} : file[u] # f
  BY <1>t DEF TypeOK, OneAtATime
<1>2. pc[t] \in {"expiry", "open", "post"} /\ r \in 1..5
  BY <1>t DEF TypeOK, Rest
<1>3. q < r
  OBVIOUS
<1>4. <<f, r>> \in FileWork
  BY <1>1, <1>2 DEF FileWork
<1>5. <<f, r>> \notin FileWork'
  <2> SUFFICES ASSUME <<f, r>> \in FileWork' PROVE FALSE
    OBVIOUS
  <2>1. f \notin queue'
    BY <1>1
  <2>2. PICK u \in Thread : file'[u] = f /\ r <= Rest(pc'[u], attempt'[u])
    BY <2>1 DEF FileWork
  <2>3. u = t
    BY <1>1, <2>2
  <2>4. r <= q
    BY <2>2, <2>3
  <2>5. q \in Int
    BY <1>t DEF TypeOK, Rest
  <2> QED BY <1>2, <1>3, <2>4, <2>5
<1>6. FileWork' \subseteq FileWork
  <2> SUFFICES ASSUME NEW w \in FileWork' PROVE w \in FileWork
    OBVIOUS
  <2>1. w \in File \X (1..6) /\ w[1] \in File /\ w[2] \in 1..6
    BY DEF FileWork
  <2>2. CASE w[1] \in queue'
    BY <2>1, <2>2 DEF FileWork
  <2>3. CASE \E u \in Thread : file'[u] = w[1] /\ w[2] <= Rest(pc'[u], attempt'[u])
    <3>1. PICK u \in Thread : file'[u] = w[1] /\ w[2] <= Rest(pc'[u], attempt'[u])
      BY <2>3
    <3>2. CASE u = t
      <4>1. w[1] = f /\ w[2] <= q
        BY <1>1, <2>1, <3>1, <3>2 DEF File
      <4>2. q \in Int
        BY <1>t DEF TypeOK, Rest
      <4>3. w[2] <= r
        BY <1>2, <1>3, <2>1, <4>1, <4>2
      <4> QED BY <2>1, <4>1, <4>3 DEF FileWork
    <3>3. CASE u # t
      BY <2>1, <3>1, <3>3 DEF FileWork
    <3> QED BY <3>2, <3>3
  <2> QED BY <2>2, <2>3 DEF FileWork
<1>7. ThreadWork' \subseteq ThreadWork
  BY <1>2 DEF ThreadWork
<1>8. MainWork' = MainWork
  BY DEF MainWork
<1> QED BY <1>4, <1>5, <1>6, <1>7, <1>8 DEF Less

(* A thread that is started or ends at an empty queue leaves the files.     *)
LEMMA ThreadAdvances ==
    ASSUME Inv, NEW t \in Thread, NEW s \in {"get", "ended"},
           s = "get" => pc[t] = "new", s = "ended" => pc[t] = "get", pc' = [pc EXCEPT ![t] = s],
           UNCHANGED <<queue, file, attempt>>, main' = "done" <=> main = "done"
    PROVE  Less
<1>t. TypeOK
  BY DEF Inv
<1>1. \A u \in Thread : pc'[u] = IF u = t THEN s ELSE pc[u]
  BY <1>t DEF TypeOK
<1>2. \A u \in Thread : Rest(pc'[u], attempt'[u]) = Rest(pc[u], attempt[u])
  BY <1>1 DEF Rest
<1>3. FileWork' = FileWork
  BY <1>2 DEF FileWork
<1>4. ThreadWork' \subseteq ThreadWork
  BY <1>1 DEF ThreadWork
<1>5. ThreadWork' # ThreadWork
  <2>1. CASE pc[t] = "new"
    <3>1. <<t, 2>> \in ThreadWork /\ <<t, 2>> \notin ThreadWork'
      BY <1>1, <2>1 DEF ThreadWork
    <3> QED BY <3>1
  <2>2. CASE pc[t] = "get"
    <3>1. <<t, 1>> \in ThreadWork /\ <<t, 1>> \notin ThreadWork'
      BY <1>1, <2>2 DEF ThreadWork
    <3> QED BY <3>1
  <2> QED BY <2>1, <2>2
<1>6. MainWork' = MainWork
  BY DEF MainWork
<1> QED BY <1>3, <1>4, <1>5, <1>6 DEF Less

(* A thread takes the first file, or ends. *)
LEMMA GetAdvances == ASSUME Inv, Inv', NEW t \in Thread, Get(t) PROVE Less
<1>t. TypeOK /\ TypeOK'
  BY DEF Inv
<1>1. pc[t] = "get" /\ UNCHANGED <<main, attempt>>
  BY DEF Get
<1>2. CASE queue = {} /\ pc' = [pc EXCEPT ![t] = "ended"] /\ UNCHANGED <<queue, file>>
  <2> DEFINE s == "ended"
  <2>1. s \in {"get", "ended"} /\ (s = "get" => pc[t] = "new") /\ (s = "ended" => pc[t] = "get")
    BY <1>1
  <2>2. pc' = [pc EXCEPT ![t] = s] /\ UNCHANGED <<queue, file, attempt>> /\ (main' = "done" <=> main = "done")
    BY <1>1, <1>2
  <2> HIDE DEF s
  <2> QED BY <2>1, <2>2, ThreadAdvances
<1>3. CASE /\ pc' = [pc EXCEPT ![t] = "expiry"]
           /\ \E f \in queue : /\ First(f)
                               /\ file' = [file EXCEPT ![t] = f]
                               /\ queue' = queue \ {f}
  <2>1. PICK f \in queue : file' = [file EXCEPT ![t] = f] /\ queue' = queue \ {f}
    BY <1>3
  <2>2. \A u \in Thread : /\ pc'[u] = IF u = t THEN "expiry" ELSE pc[u]
                          /\ file'[u] = IF u = t THEN f ELSE file[u]
    BY <1>t, <1>3, <2>1 DEF TypeOK
  <2>3. f \in File
    BY <1>t DEF TypeOK
  <2>4. \A u \in Thread : Rest(pc'[u], attempt'[u]) <= 5
    BY <1>t DEF TypeOK, Rest
  <2>5. <<f, 6>> \in FileWork
    BY <2>3 DEF FileWork
  <2>6. <<f, 6>> \notin FileWork'
    <3> SUFFICES ASSUME <<f, 6>> \in FileWork' PROVE FALSE
      OBVIOUS
    <3>1. PICK u \in Thread : 6 <= Rest(pc'[u], attempt'[u])
      BY <2>1 DEF FileWork
    <3>2. Rest(pc'[u], attempt'[u]) \in Int
      BY <1>t DEF TypeOK, Rest
    <3> QED BY <2>4, <3>1, <3>2
  <2>7. FileWork' \subseteq FileWork
    <3> SUFFICES ASSUME NEW w \in FileWork' PROVE w \in FileWork
      OBVIOUS
    <3>1. w \in File \X (1..6)
      BY DEF FileWork
    <3>2. CASE w[1] \in queue'
      BY <2>1, <3>1, <3>2 DEF FileWork
    <3>3. CASE \E u \in Thread : file'[u] = w[1] /\ w[2] <= Rest(pc'[u], attempt'[u])
      <4>1. PICK u \in Thread : file'[u] = w[1] /\ w[2] <= Rest(pc'[u], attempt'[u])
        BY <3>3
      <4>2. CASE u = t
        BY <2>2, <3>1, <4>1, <4>2 DEF FileWork
      <4>3. CASE u # t
        BY <1>1, <2>2, <3>1, <4>1, <4>3 DEF FileWork
      <4> QED BY <4>2, <4>3
    <3> QED BY <3>2, <3>3 DEF FileWork
  <2>8. ThreadWork' \subseteq ThreadWork
    BY <1>1, <2>2 DEF ThreadWork
  <2>9. MainWork' = MainWork
    BY <1>1 DEF MainWork
  <2> QED BY <2>5, <2>6, <2>7, <2>8, <2>9 DEF Less
<1> QED BY <1>2, <1>3 DEF Get

(* Every step of a thread is progress, and no thread is to be started again. *)
LEMMA StepAdvances ==
    ASSUME Inv, Inv', NEW t \in Thread, ThreadStep(t)
    PROVE  Less /\ \A u \in Thread : pc'[u] = "new" <=> pc[u] = "new"
<1>t. TypeOK /\ TypeOK'
  BY DEF Inv
<1>1. CASE Get(t)
  <2>1. pc[t] = "get" /\ \E s \in {"ended", "expiry"} : pc' = [pc EXCEPT ![t] = s]
    BY <1>1 DEF Get
  <2>2. \A u \in Thread : pc'[u] = "new" <=> pc[u] = "new"
    BY <1>t, <2>1 DEF TypeOK
  <2> QED BY <1>1, <2>2, GetAdvances
<1>2. ASSUME NEW how, NEW s \in {"get", "died"}, Ends(t, how, s), pc[t] \in {"expiry", "open", "post"}
      PROVE  Less /\ \A u \in Thread : pc'[u] = "new" <=> pc[u] = "new"
  <2>1. /\ pc' = [pc EXCEPT ![t] = s] /\ file' = [file EXCEPT ![t] = 0]
        /\ attempt' = [attempt EXCEPT ![t] = 0] /\ UNCHANGED <<queue, main>>
    BY <1>2 DEF Ends
  <2>2. /\ pc'[t] = s /\ file'[t] = 0 /\ attempt'[t] = 0
        /\ \A u \in Thread \ {t} : pc'[u] = pc[u] /\ file'[u] = file[u] /\ attempt'[u] = attempt[u]
    BY <1>t, <2>1 DEF TypeOK
  <2>3. file[t] # 0 /\ Rest(pc'[t], attempt'[t]) < Rest(pc[t], attempt[t])
    BY <1>t, <1>2, <2>2 DEF TypeOK, Rest
  <2>4. Less
    BY <1>2, <2>1, <2>2, <2>3, FileAdvances
  <2> QED BY <1>2, <2>2, <2>4
<1>3. ASSUME NEW s \in {"open", "post"}, NEW a \in Nat, pc' = [pc EXCEPT ![t] = s],
             attempt' = [attempt EXCEPT ![t] = a],
             pc[t] \in {"expiry", "open", "post"}, pc[t] = "expiry" => s = "open", pc[t] = "open" => s = "post",
             pc[t] = "post" => s = "post" /\ a > attempt[t], UNCHANGED <<file, queue, main>>
      PROVE  Less /\ \A u \in Thread : pc'[u] = "new" <=> pc[u] = "new"
  <2>1. /\ pc'[t] = s /\ attempt'[t] = a
        /\ \A u \in Thread \ {t} : pc'[u] = pc[u] /\ file'[u] = file[u] /\ attempt'[u] = attempt[u]
    BY <1>t, <1>3 DEF TypeOK
  <2>2. pc[t] \in {"expiry", "open", "post"} /\ file[t] # 0
    BY <1>t, <1>3 DEF TypeOK
  <2>3. Rest(pc'[t], attempt'[t]) < Rest(pc[t], attempt[t])
    BY <1>t, <1>3, <2>1 DEF TypeOK, Rest
  <2>4. Less
    BY <1>3, <2>1, <2>2, <2>3, FileAdvances
  <2> QED BY <2>1, <2>2, <2>4
<1>4. attempt[t] \in 0..2 /\ attempt = [attempt EXCEPT ![t] = attempt[t]] /\ pc = [pc EXCEPT ![t] = pc[t]]
  BY <1>t DEF TypeOK
<1>5. CASE CheckExpiry(t)
  <2>1. CASE Ends(t, "late", "died")
    BY <1>2, <1>5, <2>1 DEF CheckExpiry
  <2>2. CASE pc' = [pc EXCEPT ![t] = "open"] /\ UNCHANGED <<queue, main, file, attempt>>
    <3>1. pc[t] = "expiry" /\ attempt' = [attempt EXCEPT ![t] = attempt[t]] /\ attempt[t] \in Nat
      BY <1>4, <1>5, <2>2 DEF CheckExpiry
    <3> QED BY <1>3, <2>2, <3>1
  <2> QED BY <1>5, <2>1, <2>2 DEF CheckExpiry
<1>6. CASE Open(t)
  <2>1. CASE Ends(t, "unreadable", "get")
    BY <1>2, <1>6, <2>1 DEF Open
  <2>2. CASE pc' = [pc EXCEPT ![t] = "post"] /\ UNCHANGED <<queue, main, file, attempt>>
    <3>1. pc[t] = "open" /\ attempt' = [attempt EXCEPT ![t] = attempt[t]] /\ attempt[t] \in Nat
      BY <1>4, <1>6, <2>2 DEF Open
    <3> QED BY <1>3, <2>2, <3>1
  <2> QED BY <1>6, <2>1, <2>2 DEF Open
<1>7. CASE Respond(t)
  BY <1>2, <1>7 DEF Respond
<1>8. CASE Raise(t)
  <2>1. CASE Ends(t, "failed", "get")
    BY <1>2, <1>8, <2>1 DEF Raise
  <2>2. CASE attempt' = [attempt EXCEPT ![t] = @ + 1] /\ UNCHANGED <<queue, main, pc, file>>
    <3>1. pc[t] = "post"
      BY <1>8 DEF Raise
    <3>2. attempt[t] + 1 \in Nat /\ attempt[t] + 1 > attempt[t]
      BY <1>4
    <3>3. attempt' = [attempt EXCEPT ![t] = attempt[t] + 1] /\ pc' = [pc EXCEPT ![t] = "post"]
      BY <1>4, <2>2, <3>1
    <3> QED BY <1>3, <2>2, <3>1, <3>2, <3>3
  <2> QED BY <1>8, <2>1, <2>2 DEF Raise
<1>9. CASE ReadFails(t)
  BY <1>2, <1>9 DEF ReadFails
<1> QED BY <1>1, <1>5, <1>6, <1>7, <1>8, <1>9 DEF ThreadStep

(* So is every other step but the expiry, and none loses a thread that is   *)
(* to be started.                                                           *)
LEMMA NextAdvances ==
    ASSUME Inv, Inv', StartOK, [Next]_vars
    PROVE  /\ StartOK'
           /\ IF expired' = expired THEN vars' = vars \/ Less ELSE UNCHANGED <<FileWork, ThreadWork, MainWork>>
<1>t. TypeOK /\ TypeOK'
  BY DEF Inv
<1>0. threads \in Thread
  BY <1>t DEF TypeOK, Thread
<1>1. ASSUME NEW t \in Thread, StartThread(t) PROVE StartOK' /\ Less /\ expired' = expired
  <2>1. /\ main = "start" /\ t <= threads /\ pc[t] = "new" /\ \A u \in 1..(t - 1) : pc[u] # "new"
        /\ pc' = [pc EXCEPT ![t] = "get"] /\ main' = IF t = threads THEN "join" ELSE main
        /\ UNCHANGED <<queue, threads, file, attempt, expired>>
    BY <1>1 DEF StartThread
  <2>2. \A u \in Thread : pc'[u] = IF u = t THEN "get" ELSE pc[u]
    BY <1>t, <2>1 DEF TypeOK
  <2>5. Less
    <3> DEFINE s == "get"
    <3>1. s \in {"get", "ended"} /\ (s = "get" => pc[t] = "new") /\ (s = "ended" => pc[t] = "get")
      BY <2>1
    <3>2. pc' = [pc EXCEPT ![t] = s] /\ UNCHANGED <<queue, file, attempt>> /\ (main' = "done" <=> main = "done")
      BY <2>1
    <3> HIDE DEF s
    <3> QED BY <3>1, <3>2, ThreadAdvances
  <2>3. CASE t = threads
    <3>1. ASSUME NEW u \in 1..threads PROVE pc'[u] # "new"
      <4>1. u \in Thread /\ (u = t \/ u \in 1..(t - 1))
        BY <1>t, <2>3, <3>1, UploadAssumption DEF TypeOK, Thread
      <4> QED BY <2>1, <2>2, <4>1
    <3> QED BY <2>1, <2>3, <2>5, <3>1 DEF StartOK
  <2>4. CASE t # threads
    <3>1. main' = "start" /\ pc'[threads] = "new"
      BY <1>0, <2>1, <2>2, <2>4 DEF StartOK
    <3> QED BY <2>1, <2>5, <3>1 DEF StartOK
  <2> QED BY <2>3, <2>4
<1>2. ASSUME NEW t \in Thread, ThreadStep(t) PROVE StartOK' /\ Less /\ expired' = expired
  <2>1. UNCHANGED <<main, threads, expired>>
    BY <1>2 DEF ThreadStep, Get, CheckExpiry, Open, Respond, Raise, ReadFails, Ends
  <2>2. \A u \in 1..threads : u \in Thread
    BY <1>t, UploadAssumption DEF TypeOK, Thread
  <2> QED BY <1>0, <1>2, <2>1, <2>2, StepAdvances DEF StartOK
<1>3. CASE Join
  <2>1. main = "join" /\ main' = "done" /\ UNCHANGED <<queue, threads, pc, file, attempt, expired>>
    BY <1>3 DEF Join, threadVars
  <2>2. StartOK'
    BY <2>1 DEF StartOK
  <2>3. UNCHANGED <<FileWork, ThreadWork>>
    BY <2>1 DEF FileWork, ThreadWork
  <2>4. "join" \in MainWork /\ MainWork' = {}
    BY <2>1 DEF MainWork
  <2> QED BY <2>1, <2>2, <2>3, <2>4 DEF Less
<1>4. CASE Expire \/ UNCHANGED vars
  <2>1. UNCHANGED <<queue, main, threads, pc, file, attempt>>
    BY <1>4 DEF Expire, vars, threadVars
  <2>2. StartOK'
    BY <2>1 DEF StartOK
  <2>3. UNCHANGED <<FileWork, ThreadWork, MainWork>>
    BY <2>1 DEF FileWork, ThreadWork, MainWork
  <2>4. CASE Expire
    BY <2>2, <2>3, <2>4 DEF Expire
  <2>5. CASE UNCHANGED vars
    BY <2>2, <2>5 DEF vars
  <2> QED BY <1>4, <2>4, <2>5
<1> QED BY <1>1, <1>2, <1>3, <1>4 DEF Next

(* The main program and the threads get done with any number of files: at   *)
(* any time one of them can go on, and every step uses up some of what is   *)
(* left, which is finite; the expiry, which is no step of theirs, adds      *)
(* nothing.  It is the safety half of UploadEnds.                           *)
THEOREM UploadIsBounded ==
    Spec => /\ []NotStuck
            /\ [](IsFiniteSet(FileWork) /\ IsFiniteSet(ThreadWork) /\ IsFiniteSet(MainWork))
            /\ [][IF expired' = expired THEN Less ELSE UNCHANGED <<FileWork, ThreadWork, MainWork>>]_vars
<1>1. Init => StartOK
  <2> SUFFICES ASSUME Init PROVE StartOK
    OBVIOUS
  <2>1. threads \in Thread /\ main = "start" /\ pc = [t \in Thread |-> "new"]
    BY ThreadCount DEF Init, Thread
  <2> QED BY <2>1 DEF StartOK
<1>2. Inv /\ Inv' /\ StartOK /\ [Next]_vars => StartOK'
  BY NextAdvances
<1>3. Inv /\ Inv' /\ StartOK /\ [Next]_vars =>
          [IF expired' = expired THEN Less ELSE UNCHANGED <<FileWork, ThreadWork, MainWork>>]_vars
  BY NextAdvances
<1>4. Inv /\ StartOK => NotStuck
  <2> SUFFICES ASSUME Inv, StartOK PROVE NotStuck
    OBVIOUS
  <2>1. TypeOK
    BY DEF Inv
  <2>2. threads \in 1..threads /\ 1..threads \subseteq Thread /\ main \in {"start", "join", "done"}
    BY <2>1, UploadAssumption DEF TypeOK, Thread
  <2>3. \A t \in 1..threads : pc[t] \in {"new", "get", "expiry", "open", "post", "ended", "died"}
    BY <2>1, <2>2 DEF TypeOK
  <2> QED BY <2>2, <2>3 DEF NotStuck, StartOK
<1> QED BY InitInv, StepInv, WorkIsFinite, <1>1, <1>2, <1>3, <1>4, PTL DEF Spec

=============================================================================

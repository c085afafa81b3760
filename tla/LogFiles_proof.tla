---------------------------- MODULE LogFiles_proof ----------------------------
(***************************************************************************)
(* Proofs about the two ends of the way of a log file: its fetch by a      *)
(* worker (LogFetch) and the list by which a job uploads it (UploadList).  *)
(***************************************************************************)
EXTENDS LogFetch, UploadList, SequenceFacts,
        FiniteSetTheorems, SequenceTheorems, TLAPS

-----------------------------------------------------------------------------
(* THE FETCH: a log of any length, cut into pieces anywhere, and any speed  *)
(* of its upload.  The order of the pieces and the bound of the wait hold   *)
(* for every limit of the backoff, what depends on the doubling is proved   *)
(* for the limit of the code.                                               *)

(* Of a server that honours Range the worker holds a beginning of the log,  *)
(* and never more of it than there is.                                      *)
IsPart(buf) == Len(buf) <= size /\ \A i \in 1..Len(buf) : buf[i] = i
HoldsPart == ranges => IsPart(raw_buf)

(* The schedule: in the loop, all waits but the one to come add up to one   *)
(* less than that.                                                          *)
Schedule ==
    /\ pc \in {"gz", "plain", "check"} => backoff = 0 /\ waited = 0 /\ ~gzipped
    /\ pc \in {"range", "wait"} =>
          backoff \in 1..(BackoffLimit - 1) /\ waited = backoff - 1 /\ retry /\ ~gzipped
    /\ waited <= 2 * BackoffLimit - 3
    /\ backoff <= 2 * BackoffLimit - 2

FetchInv == TypeOK /\ HoldsPart /\ Schedule

(* What the server has of the log at a time is a sequence of its parts,      *)
(* from the first on.                                                        *)
LEMMA PrefixFacts ==
    ASSUME TypeOK
    PROVE  Prefix(size) \in Seq(1..Full) /\ IsPart(Prefix(size)) /\ Len(Prefix(size)) = size
<1>1. size \in Nat /\ size <= Full /\ Full \in Nat
  BY FetchAssumption DEF TypeOK
<1>2. Prefix(size) \in Seq(1..Full)
  BY <1>1 DEF Prefix
<1>3. Len(Prefix(size)) = size /\ \A i \in 1..size : Prefix(size)[i] = i
  BY <1>1 DEF Prefix
<1> QED BY <1>1, <1>2, <1>3 DEF IsPart

(* An answer to a Range request, put behind what is there already.          *)
LEMMA AnswerFacts ==
    ASSUME FetchInv
    PROVE  /\ raw_buf \o Answer(Len(raw_buf)) \in Seq(1..Full)
           /\ ranges => /\ IsPart(raw_buf \o Answer(Len(raw_buf)))
                        /\ Len(raw_buf \o Answer(Len(raw_buf))) = size
<1> DEFINE n == Len(raw_buf)
           a == Answer(n)
           b == raw_buf \o a
<1>t. /\ raw_buf \in Seq(1..Full) /\ n \in Nat /\ size \in Nat /\ size <= Full /\ Full \in Nat
      /\ ranges \in BOOLEAN
  BY FetchAssumption DEF FetchInv, TypeOK
<1>1. CASE ~ranges
  <2>1. a \in Seq(1..Full)
    BY <1>1, PrefixFacts DEF Answer, FetchInv
  <2> QED BY <1>1, <1>t, <2>1
<1>2. CASE ranges
  <2>1. n <= size /\ \A i \in 1..n : raw_buf[i] = i
    BY <1>2 DEF FetchInv, HoldsPart, IsPart
  <2>2. a = [i \in 1..(size - n) |-> n + i]
    BY <1>2 DEF Answer
  <2> HIDE DEF n
  <2>3. a \in Seq(1..Full) /\ Len(a) = size - n /\ \A i \in 1..(size - n) : a[i] = n + i
    BY <1>t, <2>1, <2>2
  <2> HIDE DEF a
  <2>4. /\ b \in Seq(1..Full) /\ Len(b) = size
        /\ \A i \in 1..Len(b) : b[i] = IF i <= n THEN raw_buf[i] ELSE a[i - n]
    BY <1>t, <2>1, <2>3 DEF n
  <2> HIDE DEF b
  <2>5. \A i \in 1..Len(b) : b[i] = i
    <3> SUFFICES ASSUME NEW i \in 1..Len(b) PROVE b[i] = i
      OBVIOUS
    <3>1. CASE i <= n
      BY <1>t, <2>1, <2>4, <3>1
    <3>2. CASE i > n
      <4>1. i - n \in 1..(size - n)
        BY <1>t, <2>1, <2>4, <3>2
      <4>2. a[i - n] = n + (i - n)
        BY <2>3, <4>1
      <4>3. b[i] = a[i - n]
        BY <2>4, <3>2, <1>t
      <4> QED BY <1>t, <2>4, <4>2, <4>3
    <3> QED BY <1>t, <3>1, <3>2
  <2> QED BY <1>t, <2>4, <2>5 DEF IsPart, a, b, n
<1> QED BY <1>1, <1>2, <1>t

(* Nothing has been read at the start. *)
LEMMA InitFetch == Init => FetchInv
<1> SUFFICES ASSUME Init PROVE FetchInv
  OBVIOUS
<1>1. <<>> \in Seq(1..Full) /\ Len(<<>>) = 0
  OBVIOUS
<1>2. TypeOK
  <2>1. gzipped \in BOOLEAN /\ pending \in BOOLEAN /\ failed \in BOOLEAN /\ mangled \in BOOLEAN
    BY DEF Init
  <2>2. size \in 0..Full /\ completedAt \in -1..(2 * BackoffLimit)
    BY FetchAssumption DEF Init
  <2> QED BY <1>1, <2>1, <2>2, FetchAssumption DEF Init, TypeOK
<1>3. HoldsPart
  BY <1>1, FetchAssumption DEF Init, HoldsPart, IsPart
<1>4. Schedule
  BY FetchAssumption DEF Init, Schedule
<1> QED BY <1>2, <1>3, <1>4 DEF FetchInv

(* The end of an iteration, for the buffer it leaves.                       *)
LEMMA FinallyKeeps ==
    ASSUME FetchInv, pc = "range", NEW buf \in Seq(1..Full), ranges => IsPart(buf),
           Finally(buf), UNCHANGED env, pending' \in BOOLEAN, failed' \in BOOLEAN, mangled' \in BOOLEAN
    PROVE  FetchInv'
<1>t. TypeOK /\ HoldsPart /\ Schedule
  BY DEF FetchInv
<1>1. /\ pc' \in {"decode", "wait"} /\ UNCHANGED <<backoff, waited>> /\ gzipped' \in BOOLEAN
      /\ (raw_buf' = <<>> \/ raw_buf' = buf) /\ (pc' = "wait" => ~gzipped')
  BY <1>t DEF Finally, GiveUp, TypeOK, Schedule
<1>2. <<>> \in Seq(1..Full) /\ Len(<<>>) = 0
  OBVIOUS
<1>3. TypeOK'
  BY <1>t, <1>1, <1>2 DEF TypeOK, env
<1>4. HoldsPart'
  BY <1>t, <1>1, <1>2 DEF TypeOK, HoldsPart, IsPart, env
<1>5. Schedule'
  BY <1>t, <1>1 DEF Schedule, env
<1> QED BY <1>3, <1>4, <1>5 DEF FetchInv

(* Every request and every growth of the log keeps the invariant. *)
LEMMA StepFetch == FetchInv /\ [Next]_vars => FetchInv'
<1> SUFFICES ASSUME FetchInv, [Next]_vars PROVE FetchInv'
  OBVIOUS
<1>t. TypeOK /\ HoldsPart /\ Schedule
  BY DEF FetchInv
<1>e. <<>> \in Seq(1..Full) /\ Len(<<>>) = 0
  OBVIOUS
<1>1. CASE Upload
  <2>1. TypeOK'
    <3>1. size' \in 0..Full
      BY <1>1, <1>t, FetchAssumption DEF Upload, TypeOK
    <3>2. completedAt' \in -1..(2 * BackoffLimit)
      BY <1>1, <1>t, FetchAssumption DEF Upload, TypeOK
    <3> QED BY <1>1, <1>t, <3>1, <3>2 DEF Upload, TypeOK, history
  <2>2. HoldsPart'
    BY <1>1, <1>t, FetchAssumption DEF Upload, TypeOK, HoldsPart, IsPart
  <2>3. Schedule'
    BY <1>1, <1>t DEF Upload, Schedule
  <2> QED BY <2>1, <2>2, <2>3 DEF FetchInv
<1>2. ASSUME UNCHANGED env, UNCHANGED <<backoff, waited>>, pc' \in {"decode", "check", "plain"},
             pc \in {"gz", "plain", "check"}, pending' = pending, failed' \in BOOLEAN, mangled' \in BOOLEAN,
             gzipped' \in BOOLEAN, pc' # "decode" => ~gzipped',
             raw_buf' = Prefix(size) \/ raw_buf' = raw_buf \/ raw_buf' = <<>>
      PROVE  FetchInv'
  <2>1. Prefix(size) \in Seq(1..Full) /\ IsPart(Prefix(size))
    BY <1>t, PrefixFacts
  <2>2. TypeOK'
    BY <1>2, <1>t, <1>e, <2>1 DEF TypeOK, env
  <2>3. HoldsPart'
    BY <1>2, <1>t, <1>e, <2>1, FetchAssumption DEF TypeOK, HoldsPart, IsPart, env
  <2>4. Schedule'
    BY <1>2, <1>t DEF Schedule, env
  <2> QED BY <2>2, <2>3, <2>4 DEF FetchInv
<1>3. CASE GetGz
  BY <1>2, <1>3, <1>t DEF GetGz, Response, GiveUp, history, TypeOK, Schedule
<1>4. CASE GetPlain
  BY <1>2, <1>4, <1>t DEF GetPlain, Response, GiveUp, history, TypeOK, Schedule
<1>5. CASE Check
  <2>1. CASE retry /\ Len(raw_buf) \in MidChar
    BY <1>2, <1>5, <1>t, <2>1 DEF Check, GiveUp, TypeOK
  <2>2. CASE ~(retry /\ Len(raw_buf) \in MidChar) /\ ~(retry /\ ~Complete(raw_buf))
    BY <1>2, <1>5, <1>t, <2>2 DEF Check, history, TypeOK, Schedule
  <2>3. CASE ~(retry /\ Len(raw_buf) \in MidChar) /\ retry /\ ~Complete(raw_buf)
    <3>1. pc = "check" /\ pc' = "range" /\ backoff' = 1 /\ UNCHANGED <<gzipped, raw_buf, pending, waited, history, env>>
      BY <1>5, <2>3 DEF Check
    <3>2. TypeOK'
      BY <1>t, <3>1, FetchAssumption DEF TypeOK, env, history
    <3>3. HoldsPart'
      BY <1>t, <3>1 DEF HoldsPart, IsPart, env
    <3>4. Schedule'
      BY <1>t, <2>3, <3>1, FetchAssumption DEF Schedule, env
    <3> QED BY <3>2, <3>3, <3>4 DEF FetchInv
  <2> QED BY <2>1, <2>2, <2>3
<1>6. CASE Fetch
  <2>1. PICK buf \in {raw_buf, raw_buf \o Answer(Len(raw_buf))} :
          Finally(buf) /\ (pending' = pending \/ pending' = TRUE) /\ (failed' = failed \/ failed' = TRUE)
    BY <1>6 DEF Fetch
  <2>2. buf \in Seq(1..Full) /\ (ranges => IsPart(buf))
    BY <1>t, <2>1, AnswerFacts DEF TypeOK, HoldsPart
  <2>3. pending' \in BOOLEAN /\ failed' \in BOOLEAN
    BY <1>t, <2>1 DEF TypeOK
  <2>4. mangled' \in BOOLEAN
    BY <1>t, <2>1 DEF TypeOK, Finally
  <2> QED BY <1>6, <2>1, <2>2, <2>3, <2>4, FinallyKeeps DEF Fetch
<1>7. CASE Wait
  <2>1. /\ pc = "wait" /\ waited' = waited + backoff /\ backoff' = backoff + backoff
        /\ UNCHANGED <<gzipped, history, env>> /\ pc' \in {"range", "decode"}
        /\ (pc' = "range" => backoff' < BackoffLimit) /\ pending' \in BOOLEAN
        /\ (raw_buf' = raw_buf \/ raw_buf' = <<>>)
    BY <1>7, <1>t DEF Wait, Again, TypeOK
  <2>2. backoff \in 1..(BackoffLimit - 1) /\ waited = backoff - 1 /\ retry /\ ~gzipped
    BY <1>t, <2>1 DEF Schedule
  <2>3. TypeOK'
    <3>1. backoff' \in 0..(2 * BackoffLimit) /\ waited' \in 0..(2 * BackoffLimit)
      BY <2>1, <2>2, FetchAssumption
    <3>2. raw_buf' \in Seq(1..Full)
      BY <1>t, <1>e, <2>1 DEF TypeOK
    <3> QED BY <1>t, <2>1, <3>1, <3>2 DEF TypeOK, env, history
  <2>4. HoldsPart'
    BY <1>t, <1>e, <2>1 DEF TypeOK, HoldsPart, IsPart, env
  <2>5. Schedule'
    BY <1>t, <2>1, <2>2, FetchAssumption DEF Schedule, env
  <2> QED BY <2>3, <2>4, <2>5 DEF FetchInv
<1>8. CASE Decode
  <2>1. /\ pc' = "done" /\ outcome' \in {"lines", "raised"}
        /\ UNCHANGED <<size, ranges, retry, gzipped, raw_buf, backoff, pending, waited, history, completedAt>>
    BY <1>8 DEF Decode
  <2>2. TypeOK'
    BY <1>t, <2>1 DEF TypeOK, history
  <2> QED BY <1>t, <2>1, <2>2 DEF FetchInv, HoldsPart, IsPart, Schedule
<1>9. CASE UNCHANGED vars
  BY <1>9, <1>t DEF vars, history, FetchInv, TypeOK, HoldsPart, IsPart, Schedule
<1> QED BY <1>1, <1>3, <1>4, <1>5, <1>6, <1>7, <1>8, <1>9 DEF Next, Worker

(* The log is in the buffer from its start, without gap or repetition,      *)
(* however requests, errors and the upload interleave.                      *)
THEOREM FetchedWithoutGap == Spec => []NoGapNoRepeat
<1>1. FetchInv => NoGapNoRepeat
  BY DEF FetchInv, TypeOK, HoldsPart, IsPart, NoGapNoRepeat, Prefix
<1> QED BY InitFetch, StepFetch, <1>1, PTL DEF Spec

(* The variables keep their types: no wait and no backoff beyond twice the  *)
(* limit.                                                                   *)
THEOREM FetchTypeCorrect == Spec => []TypeOK
<1>1. FetchInv => TypeOK
  BY DEF FetchInv
<1> QED BY InitFetch, StepFetch, <1>1, PTL DEF Spec

-----------------------------------------------------------------------------
(* The fetch does not go on for ever.  A number that cannot fall below zero *)
(* falls with every step of the worker: outside of the loop with its place  *)
(* in the program, and in the loop because the wait doubles.                *)
StepsLeft ==
    2 * (2 * BackoffLimit - backoff) +
        CASE pc = "gz" -> 6 [] pc = "plain" -> 5 [] pc = "check" -> 4 [] pc = "range" -> 3
          [] pc = "wait" -> 2 [] pc = "decode" -> 1 [] pc = "done" -> 0

(* The number is natural, and not above what it is at the start. *)
LEMMA StepsLeftBound == FetchInv => StepsLeft \in 0..(4 * BackoffLimit + 6)
<1> SUFFICES ASSUME FetchInv PROVE StepsLeft \in 0..(4 * BackoffLimit + 6)
  OBVIOUS
<1>1. BackoffLimit \in Nat /\ backoff \in 0..(2 * BackoffLimit)
  BY FetchAssumption DEF FetchInv, TypeOK
<1>2. pc \in {"gz", "plain", "check", "range", "wait", "decode", "done"}
  BY DEF FetchInv, TypeOK
<1> QED BY <1>1, <1>2 DEF StepsLeft

(* The finally block goes on to the wait or leaves the loop. *)
LEMMA FinallyAdvances ==
    ASSUME FetchInv, NEW buf, pc = "range", Finally(buf)
    PROVE  StepsLeft' < StepsLeft
<1>1. backoff' = backoff /\ pc' \in {"decode", "wait"}
  BY DEF Finally, GiveUp
<1> QED BY <1>1, FetchAssumption DEF FetchInv, TypeOK, StepsLeft

(* Whatever the server answers or Jenkins does, the worker ends its fetch   *)
(* within 4 * BackoffLimit + 6 steps, if it takes them: the safety half of  *)
(* FetchEnds.  An upload leaves the number alone.                           *)
THEOREM FetchIsBounded ==
    Spec => /\ [](StepsLeft \in 0..(4 * BackoffLimit + 6))
            /\ [][IF Worker THEN StepsLeft' < StepsLeft ELSE StepsLeft' = StepsLeft]_vars
<1>1. ASSUME FetchInv, Worker PROVE StepsLeft' < StepsLeft
  <2>t. BackoffLimit \in Nat /\ backoff \in Nat /\ BackoffLimit > 1
    BY <1>1, FetchAssumption DEF FetchInv, TypeOK
  <2>1. CASE GetGz
    BY <2>1, <2>t DEF GetGz, Response, GiveUp, StepsLeft
  <2>2. CASE GetPlain
    BY <2>2, <2>t DEF GetPlain, Response, GiveUp, StepsLeft
  <2>3. CASE Check
    <3>1. backoff = 0
      BY <1>1, <2>3 DEF Check, FetchInv, Schedule
    <3>2. pc = "check" /\ (<<pc', backoff'>> = <<"decode", backoff>> \/ <<pc', backoff'>> = <<"range", 1>>)
      BY <2>3 DEF Check, GiveUp
    <3>3. CASE <<pc', backoff'>> = <<"decode", backoff>>
      BY <3>2, <3>3, <2>t DEF StepsLeft
    <3>4. CASE <<pc', backoff'>> = <<"range", 1>>
      BY <3>1, <3>2, <3>4, <2>t DEF StepsLeft
    <3> QED BY <3>2, <3>3, <3>4
  <2>4. CASE Fetch
    BY <1>1, <2>4, FinallyAdvances DEF Fetch
  <2>5. CASE Wait
    <3>1. backoff >= 1 /\ pc = "wait" /\ backoff' = backoff + backoff /\ pc' \in {"range", "decode"}
      BY <1>1, <2>5 DEF Wait, FetchInv, Schedule
    <3> QED BY <3>1, <2>t DEF StepsLeft
  <2>6. CASE Decode
    BY <2>6, <2>t DEF Decode, StepsLeft
  <2> QED BY <1>1, <2>1, <2>2, <2>3, <2>4, <2>5, <2>6 DEF Worker
<1>2. FetchInv /\ [Next]_vars => [IF Worker THEN StepsLeft' < StepsLeft ELSE StepsLeft' = StepsLeft]_vars
  <2> SUFFICES ASSUME FetchInv, Next
               PROVE  IF Worker THEN StepsLeft' < StepsLeft ELSE StepsLeft' = StepsLeft
    OBVIOUS
  <2>1. CASE Upload
    <3>1. UNCHANGED <<pc, backoff>>
      BY <2>1 DEF Upload
    <3>2. StepsLeft' = StepsLeft
      BY <3>1 DEF StepsLeft
    <3>3. ~Worker
      BY <2>1, <3>1 DEF Upload, Worker, GetGz, GetPlain, Response, Check, Fetch, Wait, Decode, env
    <3> QED BY <3>2, <3>3
  <2> QED BY <2>1, <1>1 DEF Next
<1> QED BY InitFetch, StepFetch, StepsLeftBound, <1>2, PTL DEF Spec

-----------------------------------------------------------------------------
(* What a log with a schedule of its own adds: from here on the limit is    *)
(* the 129 of the code, which the waits of 1, 2, 4 ... 128 ticks exhaust.   *)
CodeLimit == BackoffLimit = 129

(* In the loop the terminator has not been seen, and an exception under way *)
(* comes from a failed request.                                             *)
Looping ==
    /\ pc \in {"range", "wait"} => backoff \in {1, 2, 4, 8, 16, 32, 64, 128} /\ ~Complete(raw_buf)
    /\ pending => failed

(* When the upload ended, in ticks of the worker.                           *)
UploadTimed == completedAt <= waited /\ (completedAt = -1 <=> size < Full)

Good == ranges /\ ~failed /\ ~mangled

(* After a request that was answered, what is missing was not there yet.    *)
CameLater == pc = "wait" /\ Good /\ size = Full => completedAt = waited

(* What a buffer that is not gone through the .gz has been through.         *)
Earned ==
    pc \in {"decode", "done"} /\ Retried =>
        /\ raw_buf = <<>> \/ Complete(raw_buf) \/ waited = 255
        /\ Good => \/ raw_buf = Prefix(Full)
                   \/ waited = 255 /\ (size < Full \/ completedAt >= 127)

Judged == pc = "done" /\ ~gzipped /\ Len(raw_buf) \notin CutChar => outcome = "lines"

KeptInv == FetchInv /\ Looping /\ UploadTimed /\ CameLater /\ Earned /\ Judged

(* A beginning of the log that ends in its terminator is the log.           *)
LEMMA CompletePart ==
    ASSUME TypeOK, NEW buf \in Seq(1..Full), IsPart(buf)
    PROVE  /\ Complete(buf) => buf = Prefix(Full)
           /\ Len(buf) = Full => Complete(buf)
<1>t. size \in Nat /\ size <= Full /\ Full \in Nat \ {0}
  BY FetchAssumption DEF TypeOK
<1>1. CASE Complete(buf)
  <2>1. Len(buf) \in 1..Len(buf)
    BY <1>1 DEF Complete
  <2>2. Len(buf) = Full
    BY <1>1, <2>1 DEF Complete, IsPart
  <2> QED BY <2>2, <1>t DEF IsPart, Prefix, Complete
<1>2. CASE Len(buf) = Full
  BY <1>2, <1>1, <1>t DEF Complete, IsPart
<1> QED BY <1>1, <1>2

(* At the start the attempts left are those of the code, *)
LEMMA InitKept == Init => KeptInv
<1> SUFFICES ASSUME Init PROVE KeptInv
  OBVIOUS
<1>1. FetchInv
  BY InitFetch
<1>2. Looping /\ CameLater /\ Earned /\ Judged
  BY DEF Init, Looping, CameLater, Earned, Judged
<1>3. UploadTimed
  BY FetchAssumption DEF Init, UploadTimed
<1> QED BY <1>1, <1>2, <1>3 DEF KeptInv

(* The step of the finally block, for a buffer that holds all there was     *)
(* when the request was answered.                                           *)
LEMMA FinallyEarns ==
    ASSUME CodeLimit, KeptInv, pc = "range", NEW buf \in Seq(1..Full), ranges => IsPart(buf),
           Finally(buf), UNCHANGED env, pending' \in BOOLEAN, failed' \in BOOLEAN,
           pending' => failed', failed => failed',
           ranges /\ ~failed' => Len(buf) = size
    PROVE  (Looping /\ UploadTimed /\ CameLater /\ Earned /\ Judged)'
<1>t. TypeOK /\ Schedule /\ Looping /\ UploadTimed
  BY DEF KeptInv, FetchInv
<1>1. CASE Len(buf) \in MidChar
  <2>1. pc' = "decode" /\ raw_buf' = <<>> /\ mangled' /\ UNCHANGED <<backoff, waited>>
    BY <1>1 DEF Finally, GiveUp
  <2> QED BY <1>t, <2>1 DEF Looping, UploadTimed, CameLater, Earned, Judged, Good, env
<1>2. CASE Len(buf) \notin MidChar /\ Complete(buf)
  <2>1. pc' = "decode" /\ raw_buf' = buf /\ UNCHANGED <<gzipped, backoff, waited, mangled>>
    BY <1>2 DEF Finally
  <2>2. ranges => buf = Prefix(Full)
    BY <1>t, <1>2, CompletePart
  <2> QED BY <1>t, <1>2, <2>1, <2>2 DEF Looping, UploadTimed, CameLater, Earned, Judged, Good, Prefix, Complete, env
<1>3. CASE Len(buf) \notin MidChar /\ ~Complete(buf)
  <2>1. pc' = "wait" /\ raw_buf' = buf /\ UNCHANGED <<gzipped, backoff, waited, mangled>>
    BY <1>3 DEF Finally
  <2>2. Looping' /\ UploadTimed' /\ Earned' /\ Judged'
    BY <1>t, <1>3, <2>1 DEF Looping, UploadTimed, Earned, Judged, Complete, env
  <2>3. CameLater'
    BY <1>t, <1>3, <2>1, CompletePart DEF CameLater, Good, env
  <2> QED BY <2>2, <2>3
<1> QED BY <1>1, <1>2, <1>3

(* and every request keeps the schedule. *)
LEMMA StepKept == CodeLimit /\ KeptInv /\ [Next]_vars => KeptInv'
<1> SUFFICES ASSUME CodeLimit, KeptInv, [Next]_vars PROVE KeptInv'
  OBVIOUS
<1> DEFINE Rest == Looping /\ UploadTimed /\ CameLater /\ Earned /\ Judged
<1>t. FetchInv /\ TypeOK /\ Schedule /\ HoldsPart /\ Rest
  BY DEF KeptInv, FetchInv
<1>i. FetchInv' /\ TypeOK'
  BY <1>t, StepFetch DEF FetchInv
<1> SUFFICES Rest'
  BY <1>i DEF KeptInv
<1>c. BackoffLimit = 129 /\ Full \in Nat \ {0} /\ size \in Nat /\ size <= Full /\ completedAt \in Int /\ waited \in Nat
  BY <1>t, FetchAssumption DEF CodeLimit, TypeOK
<1>1. CASE Upload
  <2>1. /\ size < Full /\ size' = size + 1 /\ completedAt' = (IF size' = Full THEN waited ELSE completedAt)
        /\ UNCHANGED <<ranges, retry, pc, gzipped, raw_buf, backoff, pending, waited, outcome, failed, mangled>>
    BY <1>1 DEF Upload, history
  <2>2. Looping' /\ Judged'
    BY <1>t, <2>1 DEF Looping, Judged, Complete
  <2>3. UploadTimed'
    BY <1>t, <1>c, <2>1 DEF UploadTimed
  <2>4. CameLater'
    BY <1>t, <1>c, <2>1 DEF CameLater, Good
  <2>5. Earned'
    BY <1>t, <1>c, <2>1 DEF Earned, Good, Retried, Complete, Prefix
  <2> QED BY <2>2, <2>3, <2>4, <2>5
<1>2. CASE GetGz
  BY <1>2, <1>t DEF GetGz, Response, GiveUp, history, env, Looping, UploadTimed, CameLater, Earned, Judged, Good, Retried
<1>3. CASE GetPlain
  BY <1>3, <1>t DEF GetPlain, Response, GiveUp, history, env, Looping, UploadTimed, CameLater, Earned, Judged, Good, Retried
<1>4. CASE Check
  <2>1. ranges /\ Complete(raw_buf) => raw_buf = Prefix(Full)
    BY <1>t, CompletePart DEF TypeOK, HoldsPart
  <2>2. pc = "check" /\ UNCHANGED <<ranges, retry, size, completedAt, outcome, waited, pending, failed>>
    BY <1>4, <1>t DEF Check, GiveUp, history, env
  <2>3. CASE retry /\ Len(raw_buf) \in MidChar
    BY <1>4, <1>t, <2>2, <2>3 DEF Check, GiveUp, Looping, UploadTimed, CameLater, Earned, Judged, Good
  <2>4. CASE ~(retry /\ Len(raw_buf) \in MidChar) /\ retry /\ ~Complete(raw_buf)
    BY <1>4, <1>t, <2>2, <2>4 DEF Check, history, Looping, UploadTimed, CameLater, Earned, Judged, Complete
  <2>5. CASE ~(retry /\ Len(raw_buf) \in MidChar) /\ ~(retry /\ ~Complete(raw_buf))
    <3>1. pc' = "decode" /\ UNCHANGED <<gzipped, raw_buf, backoff, mangled>>
      BY <1>4, <2>5 DEF Check, history
    <3> QED BY <1>t, <2>1, <2>2, <2>5, <3>1 DEF Looping, UploadTimed, CameLater, Earned, Judged, Good, Retried, Complete, Prefix
  <2> QED BY <2>3, <2>4, <2>5
<1>5. CASE Fetch
  <2> DEFINE more == raw_buf \o Answer(Len(raw_buf))
  <2>1. PICK buf \in {raw_buf, more} :
          /\ Finally(buf) /\ UNCHANGED env
          /\ \/ UNCHANGED <<pending, failed>> /\ buf = more
             \/ pending' = TRUE /\ failed' = TRUE
    <3>1. raw_buf \in Seq(1..Full)
      BY <1>t DEF TypeOK
    <3>2. Answer(Len(raw_buf)) = <<>> => more = raw_buf
      BY <3>1
    <3> QED BY <1>5, <3>2 DEF Fetch
  <2>2. buf \in Seq(1..Full) /\ (ranges => IsPart(buf))
    BY <1>t, <2>1, AnswerFacts DEF TypeOK, HoldsPart
  <2>3. pending' \in BOOLEAN /\ failed' \in BOOLEAN
    BY <1>t, <2>1 DEF TypeOK
  <2>4. (pending' => failed') /\ (failed => failed')
    BY <1>t, <2>1 DEF Looping
  <2>5. ranges /\ ~failed' => Len(buf) = size
    BY <1>t, <2>1, AnswerFacts
  <2>6. pc = "range"
    BY <1>5 DEF Fetch
  <2> QED BY <2>1, <2>2, <2>3, <2>4, <2>5, <2>6, FinallyEarns
<1>6. CASE Wait
  <2>1. /\ pc = "wait" /\ waited' = waited + backoff /\ backoff' = backoff + backoff
        /\ UNCHANGED <<gzipped, failed, mangled, size, ranges, retry, outcome, completedAt>>
    BY <1>6 DEF Wait, history, env
  <2>2. backoff \in {1, 2, 4, 8, 16, 32, 64, 128} /\ ~Complete(raw_buf) /\ waited = backoff - 1 /\ (pending => failed)
    BY <1>t, <2>1 DEF Looping, Schedule
  <2>3. UploadTimed'
    BY <1>t, <1>c, <2>1, <2>2 DEF UploadTimed
  <2>4. CASE pending
    <3>1. pc' = "decode" /\ raw_buf' = <<>> /\ pending' = FALSE
      BY <1>6, <2>4 DEF Wait
    <3> QED BY <1>t, <2>1, <2>2, <2>3, <2>4, <3>1 DEF Looping, CameLater, Earned, Judged, Good
  <2>5. CASE ~pending /\ backoff' < 129
    <3>1. pc' = "range" /\ UNCHANGED <<raw_buf, pending>>
      BY <1>6, <1>c, <2>5 DEF Wait, Again
    <3>2. backoff' \in {1, 2, 4, 8, 16, 32, 64, 128}
      BY <2>1, <2>2, <2>5
    <3> QED BY <1>t, <2>1, <2>2, <2>3, <2>5, <3>1, <3>2 DEF Looping, CameLater, Earned, Judged, Complete
  <2>6. CASE ~pending /\ ~(backoff' < 129)
    <3>1. pc' = "decode" /\ UNCHANGED <<raw_buf, pending>>
      BY <1>6, <1>c, <2>6 DEF Wait, Again
    <3>2. waited = 127 /\ waited' = 255
      BY <2>1, <2>2, <2>6
    <3>3. Earned'
      BY <1>t, <1>c, <2>1, <3>1, <3>2 DEF CameLater, Earned, Good
    <3> QED BY <1>t, <2>1, <2>2, <2>3, <2>6, <3>1, <3>3 DEF Looping, CameLater, Judged
  <2> QED BY <2>4, <2>5, <2>6
<1>7. CASE Decode
  <2>1. /\ pc = "decode" /\ pc' = "done"
        /\ (~gzipped /\ Len(raw_buf) \notin CutChar => outcome' = "lines")
        /\ UNCHANGED <<size, ranges, retry, gzipped, raw_buf, backoff, pending, waited, failed, mangled, completedAt>>
    BY <1>7 DEF Decode, history
  <2> QED BY <1>t, <2>1 DEF Looping, UploadTimed, CameLater, Earned, Judged, Good, Retried, Complete, Prefix
<1>8. CASE UNCHANGED vars
  BY <1>8, <1>t DEF vars, history, Looping, UploadTimed, CameLater, Earned, Judged, Good, Retried, Complete, Prefix
<1> QED BY <1>1, <1>2, <1>3, <1>4, <1>5, <1>6, <1>7, <1>8 DEF Next, Worker

(* With the limit of the code, no part of a log is handed on before 255     *)
(* ticks have been waited, none is waited for longer, and a log that was    *)
(* complete before the last request, after 127 ticks, is handed on whole.   *)
THEOREM BackoffScheduleKept == CodeLimit => (Spec => []BackoffIsKept)
<1>1. CodeLimit /\ KeptInv => BackoffIsKept
  <2> SUFFICES ASSUME CodeLimit, KeptInv PROVE BackoffIsKept
    OBVIOUS
  <2>t. TypeOK /\ Schedule /\ Earned /\ Judged /\ UploadTimed /\ BackoffLimit = 129
    BY DEF KeptInv, FetchInv, CodeLimit
  <2>1. PartialOnlyAfterWholeWait
    BY <2>t DEF PartialOnlyAfterWholeWait, Earned, Done, Retried, TypeOK
  <2>2. WaitBounded
    BY <2>t DEF WaitBounded, Schedule
  <2>3. CompleteIfUploadedInTime
    <3> SUFFICES ASSUME pc = "done", Retried, Good, completedAt \in 0..126
                 PROVE  outcome = "lines" /\ raw_buf = Prefix(Full)
      BY <2>t DEF CompleteIfUploadedInTime, Good
    <3>1. raw_buf = Prefix(Full)
      BY <2>t, FetchAssumption DEF Earned, UploadTimed, TypeOK
    <3>2. Len(raw_buf) \notin CutChar
      BY <3>1, FetchAssumption DEF Prefix
    <3> QED BY <2>t, <3>1, <3>2 DEF Judged, Retried
  <2> QED BY <2>1, <2>2, <2>3 DEF BackoffIsKept
<1> SUFFICES ASSUME CodeLimit PROVE Spec => []BackoffIsKept
  OBVIOUS
<1>2. KeptInv /\ [Next]_vars => KeptInv'
  BY StepKept
<1>3. KeptInv => BackoffIsKept
  BY <1>1
<1> QED BY InitKept, <1>2, <1>3, PTL DEF Spec

-----------------------------------------------------------------------------
(* THE UPLOAD LIST: any trees, names, options and links.                    *)

GivenTree ==
    /\ parent \in Trees /\ name \in [Nodes -> FileNames]
    /\ \A m, n \in Nodes : m # n /\ parent[m] = parent[n] /\ parent[m] # NoNode => name[m] # name[n]

(* The path a node has by those of its parents.                             *)
PathBy(path, n) == IF parent[n] = NoNode THEN <<name[n]>> ELSE Append(path[parent[n]], name[n])

(* There is a path for every node, because no directory lies below itself:  *)
(* nodes without one would have one whose parent has one.                   *)
LEMMA PathsExist ==
    ASSUME GivenTree
    PROVE  \E path \in [Nodes -> Seq(FileNames)] : \A n \in Nodes : path[n] = PathBy(path, n)
<1> DEFINE Known(T) == Nodes \ T
           Has(T) == \E path \in [Known(T) -> Seq(FileNames)] : \A n \in Known(T) :
                         parent[n] \in Known(T) \cup {NoNode} /\ path[n] = PathBy(path, n)
           U == {T \in SUBSET Nodes : Has(T)}
<1>t. parent \in [Nodes -> Nodes \cup {NoNode}] /\ NoNode \notin Nodes /\ IsFiniteSet(Nodes)
      /\ name \in [Nodes -> FileNames]
  BY ListAssumption DEF GivenTree
<1>1. Nodes \in U
  <2>1. Known(Nodes) = {}
    OBVIOUS
  <2>2. [x \in {} |-> <<>>] \in [{} -> Seq(FileNames)]
    OBVIOUS
  <2>3. Has(Nodes)
    BY <2>1, <2>2
  <2> QED  BY <2>3
<1>2. U \subseteq SUBSET Nodes
  OBVIOUS
<1>3. PICK T \in U : \A V \in U : V \subseteq T => V = T
  <2> HIDE DEF U
  <2>1. \E T \in U : \A V \in U : V \subseteq T => V = T
    BY ONLY <1>t, <1>1, <1>2, SmallestSet
  <2> QED  BY <2>1
<1>4. PICK path \in [Known(T) -> Seq(FileNames)] : \A n \in Known(T) :
           parent[n] \in Known(T) \cup {NoNode} /\ path[n] = PathBy(path, n)
  OBVIOUS
<1>5. CASE T = {}
  BY <1>4, <1>5
<1>6. ASSUME T # {} PROVE FALSE
  <2>1. PICK n \in T : parent[n] \notin T
    BY <1>6, <1>3, ListAssumption DEF GivenTree
  <2> DEFINE V == T \ {n}
             longer == [x \in Known(V) |-> IF x = n THEN PathBy(path, n) ELSE path[x]]
  <2>2. n \in Nodes /\ Known(V) = Known(T) \cup {n} /\ n \notin Known(T) /\ V \subseteq T /\ V # T
    BY <1>3, <2>1
  <2>3. parent[n] \in Known(T) \cup {NoNode}
    BY <1>t, <2>1, <2>2
  <2>4. PathBy(path, n) \in Seq(FileNames)
    BY <1>t, <1>4, <2>2, <2>3 DEF PathBy
  <2>5. longer \in [Known(V) -> Seq(FileNames)]
    BY <2>2, <2>4, <1>4
  <2>6. \A x \in Known(V) : parent[x] \in Known(T) \cup {NoNode}
    BY <1>4, <2>2, <2>3
  <2>7. \A x \in Known(T) : longer[x] = path[x]
    BY <2>2
  <2>8. longer[n] = PathBy(path, n)
    BY <2>2
  <2> HIDE DEF longer
  <2>9. \A x \in Known(V) : longer[x] = PathBy(longer, x)
    <3> SUFFICES ASSUME NEW x \in Known(V) PROVE longer[x] = PathBy(longer, x)
      OBVIOUS
    <3>1. PathBy(longer, x) = PathBy(path, x)
      BY <2>6, <2>7 DEF PathBy
    <3> QED  BY <3>1, <1>4, <2>2, <2>7, <2>8
  <2>10. Has(V)
    <3> HIDE DEF V
    <3> QED  BY <2>2, <2>5, <2>6, <2>9
  <2>11. V \in U
    BY <2>10, <1>2
  <2> QED  BY <2>11, <2>2, <1>3
<1> QED  BY <1>5, <1>6

(* So that the paths of the model are those.                                *)
LEMMA PathEquation ==
    ASSUME GivenTree
    PROVE  /\ Path \in [Nodes -> Seq(FileNames)]
           /\ \A n \in Nodes : Path[n] = IF parent[n] = NoNode THEN <<name[n]>> ELSE Append(Path[parent[n]], name[n])
<1>1. PICK path \in [Nodes -> Seq(FileNames)] : \A n \in Nodes : path[n] = PathBy(path, n)
  BY PathsExist
<1>2. path = [n \in Nodes |-> IF parent[n] = NoNode THEN <<name[n]>> ELSE Append(path[parent[n]], name[n])]
  BY <1>1 DEF PathBy
<1>3. Path = [n \in Nodes |-> IF parent[n] = NoNode THEN <<name[n]>> ELSE Append(Path[parent[n]], name[n])]
  BY <1>2 DEF Path
<1>4. \A n \in Nodes : Path[n] = IF parent[n] = NoNode THEN <<name[n]>> ELSE Append(Path[parent[n]], name[n])
  BY <1>3, Zenon
<1>t. parent \in [Nodes -> Nodes \cup {NoNode}] /\ name \in [Nodes -> FileNames]
  BY ListAssumption DEF GivenTree
<1> DEFINE S == {n \in Nodes : Path[n] \notin Seq(FileNames)}
<1>5. S = {}
  <2> SUFFICES ASSUME S # {} PROVE FALSE
    OBVIOUS
  <2>1. PICK n \in S : parent[n] \notin S
    BY ListAssumption DEF GivenTree
  <2>2. parent[n] = NoNode \/ Path[parent[n]] \in Seq(FileNames)
    BY <1>t, <2>1
  <2>3. Path[n] = IF parent[n] = NoNode THEN <<name[n]>> ELSE Append(Path[parent[n]], name[n])
    BY <1>4, <2>1, Zenon
  <2>4. name[n] \in FileNames
    BY <1>t, <2>1
  <2>5. Path[n] \in Seq(FileNames)
    BY <2>2, <2>3, <2>4
  <2> QED  BY <2>1, <2>5
<1>6. Path = [n \in Nodes |-> Path[n]]
  BY <1>3
<1>7. Path \in [Nodes -> Seq(FileNames)]
  BY <1>5, <1>6
<1> QED  BY <1>4, <1>7

(* They do not change with what does not change the tree.                   *)
LEMMA PathKept ==
    ASSUME GivenTree, parent' = parent, name' = name
    PROVE  Path' = Path
  BY DEF Path

(* A path is that of the parent and a name, or a name.                      *)
LEMMA PathOf ==
    ASSUME GivenTree, NEW n \in Nodes
    PROVE  /\ Path[n] \in Seq(FileNames) /\ Path[n] # <<>>
           /\ n \in Arguments => Path[n] = <<name[n]>>
           /\ n \notin Arguments =>
                 /\ parent[n] \in Nodes /\ Path[parent[n]] \in Seq(FileNames) /\ Path[parent[n]] # <<>>
                 /\ Path[n] = Append(Path[parent[n]], name[n])
                 /\ Front(Path[n]) = Path[parent[n]] /\ Path[n][1] = Path[parent[n]][1]
<1>t. parent[n] \in Nodes \cup {NoNode} /\ NoNode \notin Nodes /\ \A m \in Nodes : name[m] \in FileNames
  BY ListAssumption DEF GivenTree
<1>1. \A m \in Nodes : Path[m] = IF parent[m] = NoNode THEN <<name[m]>> ELSE Append(Path[parent[m]], name[m])
  BY PathEquation, Zenon
<1>2. \A m \in Nodes : Path[m] \in Seq(FileNames)
  BY PathEquation
<1>3. ASSUME NEW m \in Nodes PROVE Path[m] # <<>>
  <2>1. CASE parent[m] = NoNode
    <3>1. Path[m] = <<name[m]>>
      BY <1>1, <2>1
    <3>2. <<name[m]>> # <<>>
      OBVIOUS
    <3> QED  BY <3>1, <3>2
  <2>2. CASE parent[m] # NoNode
    <3>1. parent[m] \in Nodes
      BY <2>2, ListAssumption DEF GivenTree
    <3>2. Path[m] = Append(Path[parent[m]], name[m]) /\ Path[parent[m]] \in Seq(FileNames)
      BY <1>1, <1>2, <2>2, <3>1
    <3> QED  BY <3>2
  <2> QED  BY <2>1, <2>2
<1>4. CASE parent[n] = NoNode
  <2>1. n \in Arguments /\ Path[n] = <<name[n]>>
    BY <1>1, <1>4 DEF Arguments
  <2> QED  BY <2>1, <1>2, <1>3
<1>5. CASE parent[n] # NoNode
  <2> DEFINE p == Path[parent[n]]
             x == name[n]
  <2>1. n \notin Arguments /\ parent[n] \in Nodes /\ p \in Seq(FileNames) /\ p # <<>> /\ x \in FileNames
    BY <1>t, <1>2, <1>3, <1>5 DEF Arguments
  <2>2. Path[n] = Append(p, x)
    BY <1>1, <1>5
  <2> HIDE DEF p, x
  <2>3. Append(p, x)[1] = p[1]
    BY <2>1
  <2>4. Front(Append(p, x)) = p
    <3>1. Len(Append(p, x)) = Len(p) + 1 /\ Len(p) \in Nat
      BY <2>1
    <3>2. SubSeq(Append(p, x), 1, Len(p)) = p
      BY <2>1
    <3> QED  BY <3>1, <3>2 DEF Front
  <2> USE DEF p, x
  <2> QED  BY <2>1, <2>2, <2>3, <2>4, <1>2, <1>3
<1> QED  BY <1>4, <1>5

(* Sequences that agree with one element more agree without.                *)
LEMMA SameAppend ==
    ASSUME NEW S, NEW p \in Seq(S), NEW q \in Seq(S), NEW x, NEW y, Append(p, x) = Append(q, y)
    PROVE  p = q /\ x = y
<1>1. Len(Append(p, x)) = Len(p) + 1 /\ Len(Append(q, y)) = Len(q) + 1 /\ Len(p) \in Nat /\ Len(q) \in Nat
  OBVIOUS
<1>2. Len(p) = Len(q)
  BY <1>1
<1>3. \A i \in 1..Len(p) : Append(p, x)[i] = p[i] /\ Append(q, y)[i] = q[i]
  BY <1>2
<1>4. Append(p, x)[Len(p) + 1] = x /\ Append(q, y)[Len(q) + 1] = y
  OBVIOUS
<1> QED  BY <1>2, <1>3, <1>4

(* A name below a directory is not that of an argument.                     *)
LEMMA LongerThanOne ==
    ASSUME NEW S, NEW p \in Seq(S), p # <<>>, NEW x, NEW y
    PROVE  Append(p, x) # <<y>>
<1>1. Len(Append(p, x)) = Len(p) + 1 /\ Len(p) \in Nat \ {0}
  OBVIOUS
<1>2. Len(<<y>>) = 1
  OBVIOUS
<1> QED  BY <1>1, <1>2

(* Two arguments of different directories have one name.                    *)
TwoArguments(x) == \E r, s \in Arguments : r # s /\ name[r] = x /\ name[s] = x

(* Two nodes of one path are below, or are, two such arguments.             *)
LEMMA PathsDiffer ==
    ASSUME GivenTree, NEW m \in Nodes, NEW n \in Nodes, m # n, Path[m] = Path[n]
    PROVE  TwoArguments(Path[m][1])
<1> DEFINE Twin(k) == \E l \in Nodes : k # l /\ Path[k] = Path[l] /\ ~TwoArguments(Path[k][1])
           S == {k \in Nodes : Twin(k)}
<1> SUFFICES ASSUME S # {} PROVE FALSE
  OBVIOUS
<1>1. PICK k \in S : parent[k] \notin S
  BY ListAssumption DEF GivenTree
<1>2. PICK l \in Nodes : k # l /\ Path[k] = Path[l] /\ ~TwoArguments(Path[k][1])
  OBVIOUS
<1>t. k \in Nodes /\ \A j \in Nodes : name[j] \in FileNames
  BY DEF GivenTree
<1>3. CASE k \in Arguments
  <2>1. Path[k] = <<name[k]>>
    BY <1>3, <1>t, PathOf
  <2>2. l \in Arguments
    <3> SUFFICES ASSUME l \notin Arguments PROVE FALSE
      OBVIOUS
    <3> DEFINE p == Path[parent[l]]
    <3>1. p \in Seq(FileNames) /\ p # <<>> /\ Append(p, name[l]) = <<name[k]>>
      BY <1>2, <2>1, PathOf
    <3> HIDE DEF p
    <3> QED  BY <3>1, LongerThanOne
  <2>3. Path[l] = <<name[l]>>
    BY <2>2, PathOf
  <2>4. name[l] = name[k] /\ Path[k][1] = name[k]
    <3>1. <<name[k]>> = <<name[l]>> /\ <<name[k]>>[1] = name[k] /\ <<name[l]>>[1] = name[l]
      BY <1>2, <2>1, <2>3
    <3> QED  BY <3>1, <2>1
  <2> QED  BY <1>2, <1>3, <2>2, <2>4 DEF TwoArguments
<1>4. CASE k \notin Arguments
  <2> DEFINE p == Path[parent[k]]
  <2>1. p \in Seq(FileNames) /\ p # <<>> /\ Path[k] = Append(p, name[k]) /\ Path[k][1] = p[1] /\ parent[k] \in Nodes
    BY <1>t, <1>4, PathOf
  <2>2. l \notin Arguments
    <3> SUFFICES ASSUME l \in Arguments PROVE FALSE
      OBVIOUS
    <3>1. Append(p, name[k]) = <<name[l]>>
      BY <1>2, <2>1, PathOf
    <3> HIDE DEF p
    <3> QED  BY <2>1, <3>1, LongerThanOne
  <2> DEFINE q == Path[parent[l]]
  <2>3. q \in Seq(FileNames) /\ Path[l] = Append(q, name[l]) /\ parent[l] \in Nodes
    BY <2>2, PathOf
  <2>4. p = q /\ name[k] = name[l]
    <3>1. Append(p, name[k]) = Append(q, name[l])
      BY <1>2, <2>1, <2>3
    <3> DEFINE x == name[k]
               y == name[l]
    <3>2. p \in Seq(FileNames) /\ q \in Seq(FileNames) /\ Append(p, x) = Append(q, y)
      BY <2>1, <2>3, <3>1
    <3> HIDE DEF p, q, x, y
    <3>3. p = q /\ x = y
      BY <3>2, SameAppend
    <3> QED  BY <3>3 DEF x, y
  <2>5. parent[k] # parent[l]
    BY <1>2, <1>t, <1>4, <2>4 DEF GivenTree, Arguments
  <2>6. ~TwoArguments(p[1])
    BY <1>2, <2>1
  <2> HIDE DEF p, q
  <2>7. Twin(parent[k])
    BY <2>1, <2>3, <2>4, <2>5, <2>6 DEF p, q
  <2> QED  BY <2>1, <2>7, <1>1
<1> QED  BY <1>3, <1>4

RootPage == Index(<<>>, NoNode)
PageOf(d) == Index(Path[d], d)

(* The arguments build_file_list has not looked at yet.                     *)
Ahead == paths \cup (Nodes \cap {arg})

ListTypes ==
    /\ GivenTree
    /\ kind \in [Nodes -> {"file", "dir", "linked", "broken", "gone"}]
    /\ \A n \in Nodes \ Arguments : kind[parent[n]] = "dir"
    /\ Ahead \subseteq Arguments /\ walk \subseteq {n \in Nodes : IsDir(n)}
    /\ \A f \in fileList : (\E n \in Nodes : f = File(n) \/ f = PageOf(n)) \/ f = RootPage

(* Some directories have been visited: those above them too, and none is    *)
(* left that still has to be.  What is on the list comes from them.         *)
Paged(t) == \E f \in fileList : f.object = IndexOf(t)
Visited(W) ==
    /\ W \subseteq Nodes /\ W \cap (walk \cup Ahead) = {} /\ walk \cap Ahead = {}
    /\ \A n \in W \cup walk : n \in Arguments \/ parent[n] \in W
    /\ \A n \in Nodes : File(n) \in fileList => n \in Arguments \/ parent[n] \in W
    /\ \A d \in Nodes : PageOf(d) \in fileList =>
          d \in W /\ \A n \in Nodes : parent[n] = d /\ File(n) \in fileList => name[n] # IndexName
    /\ \A d \in W : DirIndexes => Paged(Path[d])

(* A link leads somewhere, or will when the walk has come there.            *)
Leads(t) ==
    \/ t = <<>>
    \/ \E n \in Nodes : Path[n] = t /\ File(n) \in fileList
    \/ Linked(t) \/ Vanished(t)
    \/ Folder(t) /\ t # <<>> /\ (DirIndexes => Paged(t))
LinkGood(t) == Leads(t) \/ \E n \in walk : Path[n] = t
LinksGood == \A page \in DOMAIN links : \A t \in links[page] : LinkGood(t)
ArgumentsGood == \A n \in Arguments \ Ahead : LinkGood(Path[n])

(* The files that the root index shows are on the list, or have vanished,   *)
(* but for the one in hand; and it shows all arguments that are on it.      *)
SeenOK ==
    /\ arg \in Nodes \cup {NoNode} /\ arg \notin paths /\ rootFiles \subseteq Arguments
    /\ arg # NoNode => walk = {} /\ kind[arg] # "broken" /\ (kind[arg] = "file" => arg \in rootFiles)
    /\ \A n \in rootFiles : File(n) \in fileList \/ kind[n] = "gone" \/ (n = arg /\ kind[n] = "file")
    /\ \A n \in Arguments : File(n) \in fileList => n \in rootFiles

RootOK ==
    /\ RootPage \in fileList =>
          listing # "list" /\ \A n \in Arguments : File(n) \in fileList => name[n] # IndexName
    /\ listing \in {"queue", "post"} =>
          walk = {} /\ (RootIndex => Paged(<<>>) \/ Vanished(IndexOf(<<>>)))
QueueOK == queue \subseteq fileList

ListInv == ListTypes /\ (\E W : Visited(W)) /\ LinksGood /\ ArgumentsGood /\ SeenOK /\ RootOK /\ QueueOK

(* The fields of what is on the list. *)
LEMMA Fields ==
    /\ \A n : File(n).object = Path[n] /\ File(n).node = n /\ File(n).index = FALSE
    /\ \A d : PageOf(d).object = IndexOf(Path[d]) /\ PageOf(d).node = d /\ PageOf(d).index = TRUE
    /\ RootPage.object = IndexOf(<<>>) /\ RootPage.node = NoNode /\ RootPage.index = TRUE
    /\ \A n, d : File(n) # PageOf(d) /\ File(n) # RootPage
    /\ \A n, d : File(n) = File(d) => n = d
    /\ \A n, d : PageOf(n) = PageOf(d) => n = d
    /\ \A d \in Nodes : PageOf(d) # RootPage
  BY ListAssumption DEF File, PageOf, RootPage, Index

(* Nothing is on the list at the start. *)
LEMMA ListStart == ListInit => ListInv
<1> SUFFICES ASSUME ListInit PROVE ListInv
  OBVIOUS
<1>1. Ahead = Arguments
  BY ListAssumption DEF ListInit, Ahead
<1>2. ListTypes
  BY <1>1 DEF ListInit, ListTypes, GivenTree, Arguments
<1>3. Visited({})
  BY DEF ListInit, Visited
<1>4. DOMAIN links = {} /\ Arguments \ Ahead = {} /\ fileList = {} /\ queue = {} /\ listing = "list"
  BY <1>1 DEF ListInit
<1>5. SeenOK
  BY ListAssumption DEF ListInit, SeenOK, Arguments
<1> QED  BY <1>2, <1>3, <1>4, <1>5 DEF ListInv, LinksGood, ArgumentsGood, RootOK, QueueOK

(* The paths, names and options stay, and so does all that is said of them. *)
LEMMA GivenKept ==
    ASSUME ListTypes, UNCHANGED givenFiles
    PROVE  /\ Path' = Path /\ parent' = parent /\ name' = name /\ Arguments' = Arguments
           /\ DirIndexes' = DirIndexes /\ RootIndex' = RootIndex /\ RootPage' = RootPage /\ GivenTree'
           /\ large' = large
           /\ \A n : File(n)' = File(n) /\ PageOf(n)' = PageOf(n)
<1>1. parent' = parent /\ name' = name /\ large' = large /\ args' = args
  BY DEF givenFiles
<1>2. Path' = Path
  BY <1>1, PathKept DEF ListTypes
<1> QED  BY <1>1, <1>2 DEF ListTypes, Arguments, DirIndexes, RootIndex, RootPage, GivenTree, File, PageOf, Index

(* A link that leads somewhere does so while the list grows.               *)
LEMMA LeadsStays ==
    ASSUME ListTypes, UNCHANGED givenFiles, fileList \subseteq fileList',
           \A n \in Nodes : IsDir(n) => IsDir(n)',
           \A n \in Nodes : kind[n] \in {"linked", "gone"} => kind'[n] = kind[n],
           NEW t, Leads(t)
    PROVE  Leads(t)'
<1>1. /\ Path' = Path /\ parent' = parent /\ DirIndexes' = DirIndexes /\ Arguments' = Arguments
      /\ \A n : File(n)' = File(n)
  BY GivenKept
<1>2. CASE t = <<>>
  BY <1>2 DEF Leads
<1>3. CASE \E n \in Nodes : Path[n] = t /\ File(n) \in fileList
  BY <1>1, <1>3 DEF Leads
<1>4. CASE Linked(t) \/ Vanished(t)
  BY <1>1, <1>4 DEF Leads, Linked, Vanished, Arguments
<1>5. CASE Folder(t) /\ t # <<>> /\ (DirIndexes => Paged(t))
  <2>1. Folder(t)'
    BY <1>1, <1>5 DEF Folder
  <2>2. Paged(t) => Paged(t)'
    BY DEF Paged
  <2> QED  BY <1>1, <1>5, <2>1, <2>2 DEF Leads
<1> QED  BY <1>2, <1>3, <1>4, <1>5 DEF Leads

(* What leaves the list and the walk alone leaves all of that alone, even   *)
(* when a file goes.                                                        *)
LEMMA ListStands ==
    ASSUME ListInv, UNCHANGED <<givenFiles, walk, fileList, links>>, Ahead' = Ahead,
           kind' \in [Nodes -> {"file", "dir", "linked", "broken", "gone"}],
           \A n \in Nodes : kind[n] # "file" => kind'[n] = kind[n]
    PROVE  ListTypes' /\ (\E W : Visited(W))' /\ LinksGood' /\ ArgumentsGood'
<1>t. ListTypes
  BY DEF ListInv
<1>1. /\ Path' = Path /\ parent' = parent /\ name' = name /\ Arguments' = Arguments
      /\ DirIndexes' = DirIndexes /\ RootPage' = RootPage /\ GivenTree'
      /\ \A n : File(n)' = File(n) /\ PageOf(n)' = PageOf(n)
  BY <1>t, GivenKept
<1>2. \A n \in Nodes : IsDir(n) => IsDir(n)'
  BY DEF IsDir
<1>3. \A n \in Nodes : kind[n] \in {"linked", "gone"} => kind'[n] = kind[n]
  OBVIOUS
<1>4. ListTypes'
  <2>1. \A n \in Nodes \ Arguments : kind'[parent[n]] = "dir"
    BY <1>t, ListAssumption DEF ListTypes, GivenTree, Arguments
  <2>2. walk' \subseteq {n \in Nodes : IsDir(n)'}
    BY <1>t, <1>2 DEF ListTypes
  <2> QED  BY <1>t, <1>1, <2>1, <2>2 DEF ListTypes
<1>5. (\E W : Visited(W))'
  <2>1. PICK W : Visited(W)
    BY DEF ListInv
  <2>2. \A t : Paged(t)' <=> Paged(t)
    BY DEF Paged
  <2>3. \A d \in W : DirIndexes => Paged(Path[d])
    BY <2>1 DEF Visited
  <2>4. \A d \in W : DirIndexes' => \E f \in fileList' : f.object = IndexOf(Path'[d])
    BY <1>1, <2>3 DEF Paged
  <2>5. Visited(W)'
    BY <1>1, <2>1, <2>4 DEF Visited, Paged
  <2> QED  BY <2>5
<1>6. ASSUME NEW t, LinkGood(t) PROVE LinkGood(t)'
  <2>1. CASE Leads(t)
    <3>1. Leads(t)'
      BY <1>t, <1>2, <1>3, <2>1, LeadsStays
    <3> QED  BY <3>1 DEF LinkGood
  <2>2. CASE \E n \in walk : Path[n] = t
    BY <1>1, <2>2 DEF LinkGood
  <2> QED  BY <1>6, <2>1, <2>2 DEF LinkGood
<1>7. LinksGood'
  BY <1>6 DEF ListInv, LinksGood
<1>8. ArgumentsGood'
  <2> SUFFICES ASSUME NEW n \in Arguments \ Ahead PROVE \A t : t = Path[n] => LinkGood(t)'
    BY <1>1 DEF ArgumentsGood
  <2> QED  BY <1>6 DEF ListInv, ArgumentsGood
<1> QED  BY <1>4, <1>5, <1>7, <1>8

(* What is said of the root index and of the queue stands as well.          *)
LEMMA RootStands ==
    ASSUME ListInv, UNCHANGED <<givenFiles, walkVars, fileList>>,
           kind' \in [Nodes -> {"file", "dir", "linked", "broken", "gone"}],
           \A n \in Nodes : kind'[n] = kind[n] \/ (kind[n] = "file" /\ kind'[n] = "gone"),
           listing' \in {listing, "died"} \/ (listing = "queue" /\ listing' = "post"),
           queue' \subseteq fileList
    PROVE  Ahead' = Ahead /\ SeenOK' /\ RootOK' /\ QueueOK'
<1>1. /\ Path' = Path /\ parent' = parent /\ name' = name /\ Arguments' = Arguments
      /\ RootIndex' = RootIndex /\ RootPage' = RootPage /\ \A n : File(n)' = File(n)
  BY GivenKept DEF ListInv
<1>2. UNCHANGED <<paths, arg, rootFiles, walk, fileList>>
  BY DEF walkVars
<1>3. Ahead' = Ahead
  BY <1>2 DEF Ahead
<1>4. SeenOK'
  <2>1. rootFiles \subseteq Nodes
    BY DEF ListInv, SeenOK, Arguments
  <2> QED  BY <1>1, <1>2, <2>1 DEF ListInv, SeenOK
<1>5. RootOK'
  <2>1. Paged(<<>>)' <=> Paged(<<>>)
    BY <1>2 DEF Paged
  <2>2. \A t : Vanished(t) => Vanished(t)'
    BY <1>1 DEF Vanished, Arguments
  <2>3. IndexOf(<<>>)' = IndexOf(<<>>)
    BY DEF IndexOf
  <2>4. Vanished(IndexOf(<<>>)) => Vanished(IndexOf(<<>>))'
    BY <2>2, <2>3
  <2> QED  BY <1>1, <1>2, <2>1, <2>4 DEF ListInv, RootOK
<1>6. QueueOK'
  BY <1>2 DEF QueueOK
<1> QED  BY <1>3, <1>4, <1>5, <1>6

(* A file that vanishes. *)
LEMMA VanishKeeps == ListInv /\ Vanish => ListInv'
<1> SUFFICES ASSUME ListInv, Vanish PROVE ListInv'
  OBVIOUS
<1>1. UNCHANGED <<givenFiles, listing, walkVars, walk, fileList, links, queue>>
  BY DEF Vanish, walkVars
<1>2. PICK n \in Nodes : kind[n] = "file" /\ kind' = [kind EXCEPT ![n] = "gone"]
  BY DEF Vanish
<1>3. kind' \in [Nodes -> {"file", "dir", "linked", "broken", "gone"}]
      /\ \A m \in Nodes : kind'[m] = kind[m] \/ (kind[m] = "file" /\ kind'[m] = "gone")
  BY <1>2 DEF ListInv, ListTypes
<1>4. Ahead' = Ahead /\ SeenOK' /\ RootOK' /\ QueueOK'
  <2>1. queue' \subseteq fileList /\ listing' \in {listing, "died"}
    BY <1>1 DEF ListInv, QueueOK
  <2> QED  BY <1>1, <1>3, <2>1, RootStands
<1>5. ListTypes' /\ (\E W : Visited(W))' /\ LinksGood' /\ ArgumentsGood'
  BY <1>1, <1>3, <1>4, ListStands
<1> QED  BY <1>4, <1>5 DEF ListInv

(* An error ends the program with nothing posted. *)
LEMMA ErrorKeeps ==
    ASSUME ListInv, OSError, UNCHANGED <<givenFiles, kind>>
    PROVE  ListInv'
<1>1. UNCHANGED <<givenFiles, walkVars, walk, fileList, links, queue>> /\ listing' = "died"
  BY DEF OSError, walkVars
<1>2. Ahead' = Ahead /\ SeenOK' /\ RootOK' /\ QueueOK'
  <2>1. queue' \subseteq fileList /\ listing' \in {listing, "died"}
    BY <1>1 DEF ListInv, QueueOK
  <2> QED  BY <1>1, <2>1, RootStands DEF ListInv, ListTypes
<1>3. ListTypes' /\ (\E W : Visited(W))' /\ LinksGood' /\ ArgumentsGood'
  BY <1>1, <1>2, ListStands DEF ListInv, ListTypes
<1> QED  BY <1>2, <1>3 DEF ListInv

(* What is posted is on the list. *)
LEMMA QueueKeeps == ListInv /\ SwiftFormPostQueue => ListInv'
<1> SUFFICES ASSUME ListInv, SwiftFormPostQueue PROVE ListInv'
  OBVIOUS
<1>1. CASE OSError /\ UNCHANGED <<givenFiles, kind>>
  BY <1>1, ErrorKeeps
<1>2. CASE /\ queue' \subseteq fileList /\ listing' = "post" /\ listing = "queue"
           /\ UNCHANGED <<givenFiles, kind, walkVars, fileList, links>>
  <2>1. walk' = walk
    BY <1>2 DEF walkVars
  <2>2. Ahead' = Ahead /\ SeenOK' /\ RootOK' /\ QueueOK'
    BY <1>2, RootStands DEF ListInv, ListTypes
  <2>3. ListTypes' /\ (\E W : Visited(W))' /\ LinksGood' /\ ArgumentsGood'
    BY <1>2, <2>1, <2>2, ListStands DEF ListInv, ListTypes
  <2> QED  BY <2>2, <2>3 DEF ListInv
<1> QED  BY <1>1, <1>2 DEF SwiftFormPostQueue

(* An argument comes into hand: it is still to be listed.                   *)
LEMMA ArgumentKeeps == ListInv /\ Argument => ListInv'
<1> SUFFICES ASSUME ListInv, Argument PROVE ListInv'
  OBVIOUS
<1>1. CASE OSError /\ UNCHANGED <<givenFiles, kind>>
  BY <1>1, ErrorKeeps
<1>2. CASE \E n \in paths :
           /\ ~Unreadable({n}) /\ paths' = paths \ {n} /\ arg' = n /\ rootFiles' = rootFiles \cup FilesOf({n})
           /\ UNCHANGED <<listing, walk, fileList, links, queue, givenFiles, kind>> /\ arg = NoNode /\ walk = {}
  <2>t. ListTypes
    BY DEF ListInv
  <2>1. PICK n \in paths :
           /\ ~Unreadable({n}) /\ paths' = paths \ {n} /\ arg' = n /\ rootFiles' = rootFiles \cup FilesOf({n})
           /\ UNCHANGED <<listing, walk, fileList, links, queue, givenFiles, kind>> /\ arg = NoNode /\ walk = {}
    BY <1>2
  <2>2. n \in Arguments /\ n \in Nodes
    BY <2>t DEF ListTypes, Arguments, Ahead
  <2>3. /\ name' = name /\ Arguments' = Arguments
        /\ RootIndex' = RootIndex /\ RootPage' = RootPage /\ \A m : File(m)' = File(m)
    BY <2>t, <2>1, GivenKept
  <2>4. Ahead' = Ahead
    <3>1. Nodes \cap {arg} = {}
      BY <2>1, ListAssumption
    <3> QED  BY <2>1, <2>2, <3>1 DEF Ahead
  <2>5. ListTypes' /\ (\E W : Visited(W))' /\ LinksGood' /\ ArgumentsGood'
    BY <2>1, <2>4, ListStands DEF ListInv, ListTypes
  <2>6. SeenOK'
    <3>1. kind[n] # "broken" /\ kind[n] # "gone" /\ FilesOf({n}) \subseteq {n} /\ (kind[n] = "file" => n \in FilesOf({n}))
          /\ \A m \in FilesOf({n}) : kind[m] = "file"
      BY <2>1 DEF Unreadable, FilesOf
    <3>2. n # NoNode
      BY <2>2, ListAssumption
    <3>3. \A m \in rootFiles : File(m) \in fileList \/ kind[m] = "gone"
      BY <2>1, <2>2, ListAssumption DEF ListInv, SeenOK, Arguments
    <3>4. \A m \in Arguments : File(m) \in fileList => m \in rootFiles
      BY DEF ListInv, SeenOK
    <3>5. rootFiles \subseteq Arguments
      BY DEF ListInv, SeenOK
    <3> QED  BY <2>1, <2>2, <2>3, <3>1, <3>2, <3>3, <3>4, <3>5 DEF SeenOK
  <2>7. RootOK' /\ QueueOK'
    <3>1. Paged(<<>>)' <=> Paged(<<>>)
      BY <2>1 DEF Paged
    <3>2. listing = "list" /\ listing' = "list"
      BY <2>1 DEF Argument
    <3> QED  BY <2>1, <2>3, <3>1, <3>2 DEF ListInv, RootOK, QueueOK
  <2> QED  BY <2>5, <2>6, <2>7 DEF ListInv
<1> QED  BY <1>1, <1>2 DEF Argument

(* It goes on the list if it is a file, is to be walked if it is a          *)
(* directory, and leaves a dead link if it has vanished.                    *)
LEMMA BuildKeeps == ListInv /\ BuildFileList => ListInv'
<1> SUFFICES ASSUME ListInv, BuildFileList PROVE ListInv'
  OBVIOUS
<1>1. CASE OSError /\ UNCHANGED <<givenFiles, kind>>
  BY <1>1, ErrorKeeps
<1>2. CASE /\ arg' = NoNode /\ walk' = {n \in {arg} : IsDir(n)}
           /\ Adds(FilesOf({arg}), {})
           /\ UNCHANGED <<listing, paths, rootFiles, links, queue, givenFiles, kind>>
           /\ listing = "list" /\ arg # NoNode
  <2>t. ListTypes
    BY DEF ListInv
  <2> DEFINE n == arg
  <2>2. n \in Arguments /\ n \in Nodes /\ n \notin paths
    BY <2>t, <1>2 DEF ListInv, SeenOK, ListTypes, Ahead
  <2>1. /\ Ahead' = Ahead \ {n} /\ n \in Ahead /\ walk = {} /\ listing = "list"
        /\ UNCHANGED <<listing, links, queue, givenFiles, kind, rootFiles>>
    <3>1. Nodes \cap {arg'} = {} /\ Nodes \cap {arg} = {n}
      BY <1>2, <2>2, ListAssumption
    <3> QED  BY <1>2, <2>2, <3>1 DEF ListInv, SeenOK, Ahead
  <2>3. /\ Path' = Path /\ parent' = parent /\ name' = name /\ Arguments' = Arguments
        /\ DirIndexes' = DirIndexes /\ RootIndex' = RootIndex /\ RootPage' = RootPage /\ GivenTree'
        /\ \A m : File(m)' = File(m) /\ PageOf(m)' = PageOf(m)
    BY <2>t, <2>1, GivenKept
  <2>4. \A m : IsDir(m)' <=> IsDir(m)
    BY <2>1 DEF IsDir
  <2>5. /\ IsDir(n) => walk' = {n} /\ fileList' = fileList
        /\ ~IsDir(n) => walk' = {}
        /\ kind[n] = "file" => fileList' = fileList \cup {File(n)}
        /\ kind[n] # "file" => fileList' = fileList
    <3>1. kind[n] = "file" => FilesOf({n}) = {n}
      BY DEF FilesOf
    <3>2. kind[n] # "file" => FilesOf({n}) = {}
      BY DEF FilesOf
    <3>3. IsDir(n) => kind[n] # "file"
      BY DEF IsDir
    <3> QED  BY <1>2, <2>2, <3>1, <3>2, <3>3 DEF Adds
  <2>6. walk' \subseteq {n} /\ fileList \subseteq fileList' /\ fileList' \subseteq fileList \cup {File(n)}
    BY <2>5
  <2>0. IsDir(n) \/ kind[n] = "file" \/ kind[n] = "gone"
    BY <2>t, <1>2, <2>2 DEF ListInv, SeenOK, ListTypes, IsDir
  <2> HIDE DEF n
  <2>7. ListTypes'
    <3>1. Ahead' \subseteq Arguments' /\ walk' \subseteq {m \in Nodes : IsDir(m)'}
      BY <2>t, <2>1, <2>2, <2>3, <2>4, <2>5 DEF ListTypes
    <3>2. \A f \in fileList' : (\E m \in Nodes : f = File(m)' \/ f = PageOf(m)') \/ f = RootPage'
      BY <2>t, <2>2, <2>3, <2>6 DEF ListTypes
    <3> QED  BY <2>t, <2>1, <2>3, <3>1, <3>2 DEF ListTypes
  <2>8. (\E W : Visited(W))'
    <3>1. PICK W : Visited(W)
      BY DEF ListInv
    <3>2. \A d \in W : DirIndexes' => \E f \in fileList' : f.object = IndexOf(Path'[d])
      BY <2>3, <2>6, <3>1 DEF Paged, Visited
    <3>3. \A d \in Nodes : PageOf(d) \in fileList' => PageOf(d) \in fileList
      BY <2>6, Fields
    <3>4. \A m \in Nodes : File(m) \in fileList' => File(m) \in fileList \/ m = n
      BY <2>6, Fields
    <3>5. \A d \in Nodes : parent[n] # d
      BY <2>2, ListAssumption DEF Arguments
    <3>6. /\ W \cap (walk' \cup Ahead') = {} /\ walk' \cap Ahead' = {}
          /\ \A m \in W \cup walk' : m \in Arguments \/ parent[m] \in W
          /\ \A m \in Nodes : File(m) \in fileList' => m \in Arguments \/ parent[m] \in W
      BY <2>1, <2>2, <2>6, <3>1, <3>4 DEF Visited
    <3>7. \A d \in Nodes : PageOf(d) \in fileList' =>
          d \in W /\ \A m \in Nodes : parent[m] = d /\ File(m) \in fileList' => name[m] # IndexName
      BY <3>1, <3>3, <3>4, <3>5 DEF Visited
    <3>8. Visited(W)'
      BY <2>3, <3>1, <3>2, <3>6, <3>7 DEF Visited, Paged
    <3> QED  BY <3>8
  <2>9. ASSUME NEW t, LinkGood(t) PROVE LinkGood(t)'
    <3>1. Leads(t)
      BY <2>1, <2>9 DEF LinkGood
    <3>2. Leads(t)'
      BY <2>t, <2>1, <2>4, <2>6, <3>1, LeadsStays
    <3> QED  BY <3>2 DEF LinkGood
  <2>10. LinksGood'
    BY <2>1, <2>9 DEF ListInv, LinksGood
  <2>11. ArgumentsGood'
    <3> SUFFICES ASSUME NEW m \in Arguments \ Ahead' PROVE \A t : t = Path[m] => LinkGood(t)'
      BY <2>3 DEF ArgumentsGood
    <3>1. CASE m = n /\ IsDir(n)
      BY <2>3, <2>5, <3>1 DEF LinkGood
    <3>2. CASE m = n /\ kind[n] = "file"
      BY <2>2, <2>3, <2>5, <3>2 DEF LinkGood, Leads
    <3>3. CASE m = n /\ kind[n] = "gone"
      <4>1. kind'[n] = "gone" /\ n \in Arguments' /\ Path'[n] = Path[n]
        BY <2>1, <2>2, <2>3, <3>3
      <4> QED  BY <3>3, <4>1 DEF LinkGood, Leads, Vanished
    <3>4. CASE m # n
      BY <2>1, <2>9, <3>4 DEF ListInv, ArgumentsGood
    <3> QED  BY <2>0, <3>1, <3>2, <3>3, <3>4
  <2>12. SeenOK'
    <3>1. \A m \in rootFiles : File(m) \in fileList' \/ kind[m] = "gone"
      BY <2>5, <2>6 DEF ListInv, SeenOK, n
    <3>2. \A m \in Arguments : File(m) \in fileList' => m \in rootFiles
      <4>1. kind[n] = "file" => n \in rootFiles
        BY <1>2 DEF ListInv, SeenOK, n
      <4> QED  BY <2>5, <4>1, Fields DEF ListInv, SeenOK
    <3>3. arg' = NoNode /\ paths' = paths /\ NoNode \notin paths /\ rootFiles' \subseteq Arguments
      BY <1>2, <2>t, ListAssumption DEF ListInv, SeenOK, ListTypes, Ahead, Arguments
    <3> QED  BY <2>1, <2>3, <3>1, <3>2, <3>3 DEF SeenOK
  <2>13. RootOK' /\ QueueOK'
    <3>1. RootPage \notin fileList'
      BY <2>1, <2>6, Fields DEF ListInv, RootOK
    <3> QED  BY <2>1, <2>3, <2>6, <3>1 DEF ListInv, RootOK, QueueOK
  <2> QED  BY <2>7, <2>8, <2>10, <2>11, <2>12, <2>13 DEF ListInv
<1> QED  BY <1>1, <1>2 DEF BuildFileList

(* A page is made unless one of its files is one: either way there is one.  *)
LEMMA PageIsMade ==
    ASSUME NEW path, NEW d, NEW targets, NEW shown, NEW files \in SUBSET Nodes,
           MakeIndexFile(path, d, targets, shown, files)
    PROVE  /\ \/ (\E n \in shown : name[n] = IndexName) /\ fileList' = fileList \cup {File(m) : m \in files}
              \/ /\ \A n \in shown : name[n] # IndexName
                 /\ fileList' = fileList \cup {File(m) : m \in files} \cup {Index(path, d)}
           /\ DOMAIN links' \subseteq DOMAIN links \cup {IndexOf(path)}
           /\ \A page \in DOMAIN links' : links'[page] = targets \/ (page \in DOMAIN links /\ links'[page] = links[page])
<1>1. CASE \E n \in shown : name[n] = IndexName
  BY <1>1 DEF MakeIndexFile, Adds
<1>2. CASE ~\E n \in shown : name[n] = IndexName
  <2>1. fileList' = fileList \cup {File(m) : m \in files} \cup {Index(path, d)}
    BY <1>2 DEF MakeIndexFile, Adds
  <2>2. LinksOf(IndexOf(path), targets)
    BY <1>2 DEF MakeIndexFile
  <2>3. /\ DOMAIN links' \subseteq DOMAIN links \cup {IndexOf(path)}
        /\ \A page \in DOMAIN links' : links'[page] = targets \/ (page \in DOMAIN links /\ links'[page] = links[page])
    BY <2>2 DEF LinksOf
  <2> QED  BY <1>2, <2>1, <2>3
<1> QED  BY <1>1, <1>2

(* The page of the arguments. *)
LEMMA RootKeeps == ListInv /\ MakeRootIndex => ListInv'
<1> SUFFICES ASSUME ListInv, MakeRootIndex PROVE ListInv'
  OBVIOUS
<1> DEFINE targets == {Path[n] : n \in Arguments}
<1>t. ListTypes
  BY DEF ListInv
<1>0. /\ listing = "list" /\ paths = {} /\ arg = NoNode /\ walk = {} /\ listing' = "queue"
      /\ UNCHANGED <<givenFiles, kind, paths, arg, rootFiles, walk, queue>>
  BY DEF MakeRootIndex, walkVars
<1>a. Ahead = {} /\ Ahead' = {}
  BY <1>0, ListAssumption DEF Ahead
<1>s. \A n \in rootFiles : n \in Arguments /\ n \in Nodes /\ (File(n) \in fileList \/ kind[n] = "gone")
  BY <1>0, ListAssumption DEF ListInv, SeenOK, Arguments
<1>1. /\ Path' = Path /\ parent' = parent /\ name' = name /\ Arguments' = Arguments
      /\ DirIndexes' = DirIndexes /\ RootIndex' = RootIndex /\ RootPage' = RootPage /\ GivenTree'
      /\ \A m : File(m)' = File(m) /\ PageOf(m)' = PageOf(m)
  BY <1>t, <1>0, GivenKept
<1>2. \A m : IsDir(m)' <=> IsDir(m)
  BY <1>0 DEF IsDir
<1>3. CASE RootIndex
  <2>1. MakeIndexFile(<<>>, NoNode, targets, rootFiles, {})
    BY <1>3 DEF MakeRootIndex
  <2>2. /\ \/ (\E n \in rootFiles : name[n] = IndexName) /\ fileList' = fileList \cup {File(m) : m \in {}}
           \/ /\ \A n \in rootFiles : name[n] # IndexName
              /\ fileList' = fileList \cup {File(m) : m \in {}} \cup {RootPage}
        /\ \A page \in DOMAIN links' : links'[page] = targets \/ (page \in DOMAIN links /\ links'[page] = links[page])
    <3> DEFINE files == {}
    <3>1. files \in SUBSET Nodes
      OBVIOUS
    <3> HIDE DEF files, targets
    <3>2. MakeIndexFile(<<>>, NoNode, targets, rootFiles, files)
      BY <2>1 DEF files
    <3> QED  BY <3>1, <3>2, PageIsMade DEF RootPage, files
  <2>3. \/ (\E n \in rootFiles : name[n] = IndexName) /\ fileList' = fileList
        \/ (\A n \in rootFiles : name[n] # IndexName) /\ fileList' = fileList \cup {RootPage}
    BY <2>2
  <2>4. \A t : Paged(t) => Paged(t)'
    BY <2>3 DEF Paged
  <2>5. Paged(<<>>)' \/ Vanished(IndexOf(<<>>))'
    <3>1. CASE RootPage \in fileList'
      BY <3>1, Fields DEF Paged
    <3>2. CASE RootPage \notin fileList'
      <4>1. PICK n \in rootFiles : name[n] = IndexName
        BY <2>3, <3>2
      <4>2. Path[n] = <<IndexName>>
        BY <1>t, <1>s, <4>1, PathOf DEF ListTypes
      <4>3. Path[n] = IndexOf(<<>>)
        BY <4>2 DEF IndexOf
      <4>4. CASE File(n) \in fileList
        BY <2>3, <4>3, <4>4, Fields DEF Paged
      <4>5. CASE kind[n] = "gone"
        <5>1. n \in Arguments' /\ kind'[n] = "gone" /\ Path'[n] = IndexOf(<<>>)
          BY <1>0, <1>1, <1>s, <4>3, <4>5
        <5> QED  BY <5>1 DEF Vanished, IndexOf
      <4> QED  BY <1>s, <4>4, <4>5
    <3> QED  BY <3>1, <3>2
  <2>6. RootPage \in fileList' => \A n \in Arguments : File(n) \in fileList' => name[n] # IndexName
    <3>1. RootPage \notin fileList
      BY <1>0 DEF ListInv, RootOK
    <3>2. \A n \in Arguments : File(n) \in fileList' => n \in rootFiles
      BY <2>3, Fields DEF ListInv, SeenOK
    <3> QED  BY <2>3, <3>1, <3>2
  <2>7. RootOK'
    BY <1>0, <1>1, <2>5, <2>6 DEF RootOK
  <2>8. fileList \subseteq fileList' /\ fileList' \subseteq fileList \cup {RootPage}
    BY <2>3
  <2>9. ListTypes'
    BY <1>t, <1>0, <1>1, <1>2, <1>a, <2>8 DEF ListTypes
  <2>10. (\E W : Visited(W))'
    <3>1. PICK W : Visited(W)
      BY DEF ListInv
    <3>2. \A d \in W : DirIndexes' => \E f \in fileList' : f.object = IndexOf(Path'[d])
      BY <1>1, <2>8, <3>1 DEF Paged, Visited
    <3>3. \A d \in Nodes : PageOf(d) \in fileList' => PageOf(d) \in fileList
      BY <2>8, Fields
    <3>4. \A m \in Nodes : File(m) \in fileList' => File(m) \in fileList
      BY <2>8, Fields
    <3>5. Visited(W)'
      BY <1>0, <1>1, <1>a, <3>1, <3>2, <3>3, <3>4 DEF Visited, Paged
    <3> QED  BY <3>5
  <2>11. ASSUME NEW t, LinkGood(t) PROVE LinkGood(t)'
    <3>1. Leads(t)
      BY <1>0, <2>11 DEF LinkGood
    <3>2. Leads(t)'
      BY <1>t, <1>0, <1>2, <2>8, <3>1, LeadsStays
    <3> QED  BY <3>2 DEF LinkGood
  <2>12. \A n \in Arguments : \A t : t = Path[n] => LinkGood(t)'
    BY <1>a, <2>11 DEF ListInv, ArgumentsGood
  <2>13. ArgumentsGood'
    BY <1>1, <2>12 DEF ArgumentsGood
  <2>14. LinksGood'
    <3> SUFFICES ASSUME NEW page \in DOMAIN links', NEW t \in links'[page] PROVE LinkGood(t)'
      BY DEF LinksGood
    <3>1. CASE links'[page] = targets
      BY <2>12, <3>1
    <3>2. CASE page \in DOMAIN links /\ links'[page] = links[page]
      BY <2>11, <3>2 DEF ListInv, LinksGood
    <3> QED  BY <2>2, <3>1, <3>2
  <2>15. QueueOK'
    BY <1>0, <2>8 DEF ListInv, QueueOK
  <2>16. SeenOK'
    <3>1. \A n \in Arguments : File(n) \in fileList' => n \in rootFiles
      BY <2>8, Fields DEF ListInv, SeenOK
    <3> QED  BY <1>0, <1>1, <1>s, <2>8, <3>1 DEF ListInv, SeenOK
  <2> QED  BY <2>7, <2>9, <2>10, <2>13, <2>14, <2>15, <2>16 DEF ListInv
<1>4. CASE ~RootIndex
  <2>1. UNCHANGED <<fileList, links>>
    BY <1>4 DEF MakeRootIndex
  <2>2. ListTypes' /\ (\E W : Visited(W))' /\ LinksGood' /\ ArgumentsGood'
    BY <1>0, <1>a, <2>1, ListStands DEF ListInv, ListTypes
  <2>3. RootPage \notin fileList
    BY <1>0 DEF ListInv, RootOK
  <2>4. RootOK' /\ QueueOK'
    BY <1>0, <1>1, <1>4, <2>1, <2>3 DEF ListInv, RootOK, QueueOK
  <2>5. SeenOK'
    BY <1>0, <1>1, <1>s, <2>1 DEF ListInv, SeenOK
  <2> QED  BY <2>2, <2>4, <2>5 DEF ListInv
<1> QED  BY <1>3, <1>4

(* The front of a name is the root.                                         *)
LEMMA FrontOfOne == \A x : Front(<<x>>) = <<>>
<1> SUFFICES ASSUME NEW x PROVE Front(<<x>>) = <<>>
  OBVIOUS
<1>1. Len(<<x>>) - 1 = 0
  OBVIOUS
<1>2. Front(<<x>>) = SubSeq(<<x>>, 1, 0)
  BY <1>1 DEF Front
<1>3. SubSeq(<<x>>, 1, 0) = <<>>
  OBVIOUS
<1> QED  BY <1>2, <1>3

(* A directory that is visited: its files go on the list with its page, and *)
(* what is below it is to be visited.                                       *)
LEMMA WalkKeeps == ListInv /\ WalkDir => ListInv'
<1> SUFFICES ASSUME ListInv, WalkDir PROVE ListInv'
  OBVIOUS
<1>1. CASE OSError /\ UNCHANGED <<givenFiles, kind>>
  BY <1>1, ErrorKeeps
<1>2. CASE \E d \in walk :
         /\ ~Unreadable(In(d)) /\ walk' = (walk \ {d}) \cup {n \in In(d) : kind[n] = "dir"}
         /\ IF DirIndexes
            THEN MakeIndexFile(Path[d], d, ParentLink(d) \cup {Path[n] : n \in In(d)}, FilesOf(In(d)), FilesOf(In(d)))
            ELSE Adds(FilesOf(In(d)), {}) /\ UNCHANGED links
         /\ UNCHANGED <<listing, paths, arg, rootFiles, queue, givenFiles, kind>> /\ listing = "list"
  <2>t. ListTypes
    BY DEF ListInv
  <2>1. PICK d \in walk :
         /\ ~Unreadable(In(d)) /\ walk' = (walk \ {d}) \cup {n \in In(d) : kind[n] = "dir"}
         /\ IF DirIndexes
            THEN MakeIndexFile(Path[d], d, ParentLink(d) \cup {Path[n] : n \in In(d)}, FilesOf(In(d)), FilesOf(In(d)))
            ELSE Adds(FilesOf(In(d)), {}) /\ UNCHANGED links
         /\ UNCHANGED <<listing, paths, arg, rootFiles, queue, givenFiles, kind>> /\ listing = "list"
    BY <1>2
  <2> DEFINE files == FilesOf(In(d))
             targets == ParentLink(d) \cup {Path[n] : n \in In(d)}
             below == {n \in In(d) : kind[n] = "dir"}
  <2>2. d \in Nodes /\ IsDir(d) /\ files \in SUBSET Nodes
    BY <2>t DEF ListTypes, In, FilesOf
  <2>3. /\ Path' = Path /\ parent' = parent /\ name' = name /\ Arguments' = Arguments
        /\ DirIndexes' = DirIndexes /\ RootIndex' = RootIndex /\ RootPage' = RootPage /\ GivenTree'
        /\ \A m : File(m)' = File(m) /\ PageOf(m)' = PageOf(m)
    BY <2>t, <2>1, GivenKept
  <2>4. \A m : IsDir(m)' <=> IsDir(m)
    BY <2>1 DEF IsDir
  <2>a. Ahead' = Ahead
    BY <2>1 DEF Ahead
  <2>5. PICK W : Visited(W)
    BY DEF ListInv
  <2>6. d \notin W /\ d \notin Ahead /\ PageOf(d) \notin fileList
    BY <2>2, <2>5 DEF Visited
  <2>7. \A n \in Nodes : parent[n] = d =>
           n \notin W /\ n \notin walk /\ n # d /\ n \notin Ahead /\ n \notin Arguments /\ File(n) \notin fileList
    <3>1. \A n \in Nodes : parent[n] = d => n \notin Arguments
      BY <2>2, ListAssumption DEF Arguments
    <3> QED  BY <3>1, <2>t, <2>5, <2>6 DEF Visited, ListTypes
  <2>8. /\ walk' = (walk \ {d}) \cup below
        /\ \A n \in below : n \in Nodes /\ parent[n] = d /\ kind[n] = "dir"
        /\ \A n \in files : n \in Nodes /\ parent[n] = d /\ kind[n] = "file"
        /\ \A n \in In(d) : n \in files \/ n \in below \/ (n \in Nodes /\ parent[n] = d /\ kind[n] = "linked")
    BY <2>t, <2>1 DEF In, FilesOf, Unreadable, ListTypes
  <2>9. /\ DirIndexes =>
           /\ \/ (\E n \in files : name[n] = IndexName) /\ fileList' = fileList \cup {File(m) : m \in files}
              \/ /\ \A n \in files : name[n] # IndexName
                 /\ fileList' = fileList \cup {File(m) : m \in files} \cup {PageOf(d)}
           /\ \A page \in DOMAIN links' : links'[page] = targets \/ (page \in DOMAIN links /\ links'[page] = links[page])
        /\ ~DirIndexes => fileList' = fileList \cup {File(m) : m \in files} /\ links' = links
    <3>1. CASE DirIndexes
      <4>1. MakeIndexFile(Path[d], d, targets, files, files)
        BY <2>1, <3>1
      <4> DEFINE path == Path[d]
      <4> HIDE DEF files, targets, path
      <4>2. MakeIndexFile(path, d, targets, files, files)
        BY <4>1 DEF path
      <4>3. PageOf(d) = Index(path, d)
        BY DEF PageOf, path
      <4> QED  BY <2>2, <3>1, <4>2, <4>3, PageIsMade
    <3>2. CASE ~DirIndexes
      BY <2>1, <3>2 DEF Adds
    <3> QED  BY <3>1, <3>2
  <2> HIDE DEF files, below, targets
  <2>10. /\ fileList \subseteq fileList' /\ fileList' \subseteq fileList \cup {File(m) : m \in files} \cup {PageOf(d)}
         /\ \A m \in files : File(m) \in fileList'
    BY <2>9
  <2>11. \A m : File(m) \in fileList' => File(m) \in fileList \/ m \in files
    BY <2>10, Fields
  <2>12. \A k : PageOf(k) \in fileList' => PageOf(k) \in fileList \/ (k = d /\ \A n \in files : name[n] # IndexName)
    <3> SUFFICES ASSUME NEW k, PageOf(k) \in fileList', PageOf(k) \notin fileList
                 PROVE  k = d /\ \A n \in files : name[n] # IndexName
      OBVIOUS
    <3>1. \A m : PageOf(k) # File(m)
      BY Fields
    <3>2. PageOf(k) \in {PageOf(d)} /\ \A n \in files : name[n] # IndexName
      BY <2>9, <3>1
    <3> QED  BY <3>2, Fields
  <2>13. DirIndexes => \E f \in fileList' : f.object = IndexOf(Path[d])
    <3> SUFFICES ASSUME DirIndexes PROVE \E f \in fileList' : f.object = IndexOf(Path[d])
      OBVIOUS
    <3>1. CASE PageOf(d) \in fileList'
      BY <3>1, Fields
    <3>2. CASE PageOf(d) \notin fileList'
      <4>1. PICK n \in files : name[n] = IndexName
        BY <2>9, <3>2
      <4>2. Path[n] = Append(Path[d], IndexName)
        <5>1. n \in Nodes /\ parent[n] = d /\ n \notin Arguments
          BY <2>7, <2>8
        <5> QED  BY <2>t, <4>1, <5>1, PathOf DEF ListTypes
      <4>3. File(n) \in fileList' /\ File(n).object = IndexOf(Path[d])
        BY <2>10, <4>2, Fields DEF IndexOf
      <4> QED  BY <4>3
    <3> QED  BY <3>1, <3>2
  <2>14. \A t : Paged(t) => Paged(t)'
    BY <2>10 DEF Paged
  <2>15. ListTypes'
    <3>1. \A f \in fileList' : (\E m \in Nodes : f = File(m)' \/ f = PageOf(m)') \/ f = RootPage'
      BY <2>t, <2>2, <2>3, <2>8, <2>10 DEF ListTypes
    <3>2. walk' \subseteq {m \in Nodes : IsDir(m)'}
      BY <2>t, <2>4, <2>8 DEF ListTypes, IsDir
    <3> QED  BY <2>t, <2>1, <2>3, <2>a, <3>1, <3>2 DEF ListTypes
  <2>16. (\E V : Visited(V))'
    <3> DEFINE V == W \cup {d}
    <3>1. V \subseteq Nodes /\ V \cap (walk' \cup Ahead') = {} /\ walk' \cap Ahead' = {}
      BY <2>1, <2>a, <2>2, <2>5, <2>6, <2>7, <2>8 DEF Visited
    <3>2. \A n \in V \cup walk' : n \in Arguments \/ parent[n] \in V
      BY <2>5, <2>8 DEF Visited
    <3>3. \A n \in Nodes : File(n) \in fileList' => n \in Arguments \/ parent[n] \in V
      BY <2>5, <2>8, <2>11 DEF Visited
    <3>4. ASSUME NEW k \in Nodes, PageOf(k) \in fileList'
          PROVE  k \in V /\ \A n \in Nodes : parent[n] = k /\ File(n) \in fileList' => name[n] # IndexName
      <4>1. CASE PageOf(k) \in fileList
        <5>1. k \in W /\ k # d /\ \A n \in Nodes : parent[n] = k /\ File(n) \in fileList => name[n] # IndexName
          BY <2>5, <2>6, <4>1 DEF Visited
        <5> QED  BY <5>1, <2>8, <2>11
      <4>2. CASE k = d /\ \A n \in files : name[n] # IndexName
        BY <4>2, <2>7, <2>11
      <4> QED  BY <3>4, <4>1, <4>2, <2>12
    <3>5. \A k \in V : DirIndexes' => \E f \in fileList' : f.object = IndexOf(Path'[k])
      BY <2>3, <2>5, <2>10, <2>13 DEF Visited, Paged
    <3> HIDE DEF V
    <3>6. Visited(V)'
      BY <2>3, <3>1, <3>2, <3>3, <3>4, <3>5 DEF Visited, Paged
    <3> QED  BY <3>6
  <2>17. ASSUME NEW t, Leads(t) PROVE Leads(t)'
    BY <2>t, <2>1, <2>4, <2>10, <2>17, LeadsStays
  <2>18. ASSUME NEW t, t = Path[d] PROVE Leads(t)'
    <3>1. t # <<>>
      BY <2>t, <2>2, <2>18, PathOf DEF ListTypes
    <3>2. Folder(t)'
      BY <2>2, <2>3, <2>4, <2>18 DEF Folder
    <3>3. DirIndexes' => Paged(t)'
      BY <2>3, <2>13, <2>18 DEF Paged
    <3> QED  BY <3>1, <3>2, <3>3 DEF Leads
  <2>19. ASSUME NEW t, LinkGood(t) PROVE LinkGood(t)'
    <3>1. CASE Leads(t)
      BY <2>17, <3>1 DEF LinkGood
    <3>2. CASE \E n \in walk : n # d /\ Path[n] = t
      BY <2>3, <2>8, <3>2 DEF LinkGood
    <3>3. CASE t = Path[d]
      BY <2>18, <3>3 DEF LinkGood
    <3> QED  BY <2>19, <3>1, <3>2, <3>3 DEF LinkGood
  <2>20. ASSUME NEW t \in targets PROVE LinkGood(t)'
    <3>1. CASE \E n \in In(d) : t = Path[n]
      <4>1. PICK n \in In(d) : t = Path[n]
        BY <3>1
      <4>2. CASE n \in files
        BY <2>3, <2>8, <2>10, <4>1, <4>2 DEF LinkGood, Leads
      <4>3. CASE n \in below
        BY <2>3, <2>8, <4>1, <4>3 DEF LinkGood
      <4>4. CASE n \in Nodes /\ parent[n] = d /\ kind[n] = "linked"
        <5>1. parent[n] # NoNode
          BY <2>2, <4>4, ListAssumption
        <5> QED  BY <2>1, <2>3, <4>1, <4>4, <5>1 DEF LinkGood, Leads, Linked
      <4> QED  BY <2>8, <4>2, <4>3, <4>4
    <3>2. CASE t = Front(Path[d])
      <4>1. CASE d \in Arguments
        <5>1. Path[d] = <<name[d]>>
          BY <2>t, <2>2, <4>1, PathOf DEF ListTypes
        <5>2. t = <<>>
          BY <3>2, <5>1, FrontOfOne
        <5> QED  BY <5>2 DEF LinkGood, Leads
      <4>2. CASE d \notin Arguments
        <5>1. t = Path[parent[d]] /\ t # <<>> /\ parent[d] \in Nodes /\ kind[parent[d]] = "dir"
          BY <2>t, <2>2, <3>2, <4>2, PathOf DEF ListTypes
        <5>2. parent[d] \in W
          BY <2>5, <4>2 DEF Visited
        <5>3. Folder(t)
          BY <5>1 DEF Folder, IsDir
        <5>4. DirIndexes => Paged(t)
          BY <2>5, <5>1, <5>2 DEF Visited
        <5>5. Leads(t)
          BY <5>1, <5>3, <5>4 DEF Leads
        <5> QED  BY <5>5, <2>17 DEF LinkGood
      <4> QED  BY <4>1, <4>2
    <3> QED  BY <2>20, <3>1, <3>2 DEF targets, ParentLink
  <2>21. LinksGood'
    <3> SUFFICES ASSUME NEW page \in DOMAIN links', NEW t \in links'[page] PROVE LinkGood(t)'
      BY DEF LinksGood
    <3>1. CASE links'[page] = targets
      BY <2>20, <3>1
    <3>2. CASE page \in DOMAIN links /\ links'[page] = links[page]
      BY <2>19, <3>2 DEF ListInv, LinksGood
    <3> QED  BY <2>9, <3>1, <3>2
  <2>22. ArgumentsGood'
    <3> SUFFICES ASSUME NEW n \in Arguments \ Ahead PROVE \A t : t = Path[n] => LinkGood(t)'
      BY <2>a, <2>3 DEF ArgumentsGood
    <3> QED  BY <2>19 DEF ListInv, ArgumentsGood
  <2>23. RootOK' /\ QueueOK'
    <3>1. RootPage \notin fileList'
      BY <2>1, <2>2, <2>10, Fields DEF ListInv, RootOK
    <3> QED  BY <2>1, <2>3, <2>10, <3>1 DEF ListInv, RootOK, QueueOK
  <2>24. SeenOK'
    <3>1. \A n \in Arguments : File(n) \in fileList' => n \in rootFiles
      BY <2>7, <2>8, <2>11 DEF ListInv, SeenOK
    <3>2. arg = NoNode
      BY <2>1 DEF ListInv, SeenOK
    <3> QED  BY <2>1, <2>3, <2>10, <3>1, <3>2, ListAssumption DEF ListInv, SeenOK, Arguments
  <2> QED  BY <2>15, <2>16, <2>21, <2>22, <2>23, <2>24 DEF ListInv
<1> QED  BY <1>1, <1>2 DEF WalkDir

(* One step keeps all of that.                                              *)
LEMMA ListKept == ListInv /\ [ListNext]_listVars => ListInv'
<1> SUFFICES ASSUME ListInv, [ListNext]_listVars PROVE ListInv'
  OBVIOUS
<1>1. CASE UNCHANGED listVars
  <2>1. UNCHANGED <<givenFiles, kind, listing, walkVars, walk, fileList, links, queue>>
    BY <1>1 DEF listVars, walkVars
  <2>2. Ahead' = Ahead /\ SeenOK' /\ RootOK' /\ QueueOK'
    <3>1. queue' \subseteq fileList /\ listing' \in {listing, "died"}
      BY <2>1 DEF ListInv, QueueOK
    <3> QED  BY <2>1, <3>1, RootStands DEF ListInv, ListTypes
  <2>3. ListTypes' /\ (\E W : Visited(W))' /\ LinksGood' /\ ArgumentsGood'
    BY <2>1, <2>2, ListStands DEF ListInv, ListTypes
  <2> QED  BY <2>2, <2>3 DEF ListInv
<1>2. CASE ListNext
  BY <1>2, ArgumentKeeps, BuildKeeps, WalkKeeps, RootKeeps, QueueKeeps, VanishKeeps DEF ListNext
<1> QED  BY <1>1, <1>2

(* When the list is posted, every link leads somewhere, or to what is too   *)
(* large or has vanished.                                                   *)
LEMMA LinksLead == ListInv => LinksResolve
<1> SUFFICES ASSUME ListInv, listing = "post", NEW page \in DOMAIN links, NEW t \in links[page]
             PROVE  Settled(t) \/ Linked(t) \/ (Folder(t) /\ (HasPage(t) => Settled(IndexOf(t))))
  BY DEF LinksResolve
<1>1. walk = {} /\ (RootIndex => Paged(<<>>) \/ Vanished(IndexOf(<<>>)))
  BY DEF ListInv, RootOK
<1>2. \A f \in fileList : Settled(f.object)
  BY DEF Settled, Posts, TooLarge
<1>3. Leads(t)
  BY <1>1 DEF ListInv, LinksGood, LinkGood
<1>4. CASE t = <<>>
  <2>1. Folder(t) /\ (HasPage(t) => Paged(t) \/ Vanished(IndexOf(t)))
    BY <1>1, <1>4 DEF Folder, HasPage
  <2> QED  BY <1>2, <2>1 DEF Paged, Settled
<1>5. CASE \E n \in Nodes : Path[n] = t /\ File(n) \in fileList
  BY <1>2, <1>5, Fields
<1>6. CASE Linked(t) \/ Vanished(t)
  BY <1>6 DEF Settled
<1>7. CASE Folder(t) /\ t # <<>> /\ (DirIndexes => Paged(t))
  BY <1>2, <1>7 DEF HasPage, Paged
<1> QED  BY <1>3, <1>4, <1>5, <1>6, <1>7 DEF Leads

(* The path to a page below a directory is longer than one name and begins  *)
(* as that of the directory does.                                           *)
LEMMA PagePath ==
    ASSUME GivenTree, NEW d \in Nodes
    PROVE  /\ IndexOf(Path[d])[1] = Path[d][1] /\ IndexOf(Path[d]) # IndexOf(<<>>)
           /\ \A x : IndexOf(Path[d]) # <<x>>
<1> DEFINE p == Path[d]
<1>1. p \in Seq(FileNames) /\ p # <<>>
  BY PathOf
<1> HIDE DEF p
<1>2. Len(Append(p, IndexName)) = Len(p) + 1 /\ Len(p) \in Nat \ {0} /\ Append(p, IndexName)[1] = p[1]
  BY <1>1
<1>3. \A x : Len(<<x>>) = 1
  OBVIOUS
<1>4. Append(<<>>, IndexName) = <<IndexName>>
  OBVIOUS
<1>5. \A x : Append(p, IndexName) # <<x>>
  BY <1>2, <1>3
<1> QED  BY <1>2, <1>4, <1>5 DEF p, IndexOf

(* A file and the page of a directory are of one object under two arguments *)
(* of one name alone: a page that is given is not made.                     *)
LEMMA FileAndPage ==
    ASSUME ListInv, NEW m \in Nodes, NEW d \in Nodes,
           File(m) \in fileList, PageOf(d) \in fileList, Path[m] = IndexOf(Path[d])
    PROVE  TwoArguments(Path[m][1])
<1>t. GivenTree
  BY DEF ListInv, ListTypes
<1>1. m \notin Arguments
  <2>1. m \in Arguments => Path[m] = <<name[m]>>
    BY <1>t, PathOf
  <2>2. Path[m] # <<name[m]>>
    BY <1>t, PagePath
  <2> QED  BY <2>1, <2>2
<1>2. parent[m] \in Nodes /\ Path[m] = Append(Path[parent[m]], name[m]) /\ Path[m][1] = Path[parent[m]][1]
  BY <1>t, <1>1, PathOf
<1>3. Path[parent[m]] = Path[d] /\ name[m] = IndexName
  <2> DEFINE p == Path[parent[m]]
             q == Path[d]
  <2>1. p \in Seq(FileNames) /\ q \in Seq(FileNames) /\ Append(p, name[m]) = Append(q, IndexName)
    BY <1>t, <1>2, PathOf DEF IndexOf
  <2> HIDE DEF p, q
  <2>2. p = q /\ name[m] = IndexName
    BY <2>1, SameAppend
  <2> QED  BY <2>2 DEF p, q
<1>4. parent[m] # d
  BY <1>3 DEF ListInv, Visited
<1> QED  BY <1>t, <1>2, <1>3, <1>4, PathsDiffer

(* So are any two things on the list, and the page of the arguments is of   *)
(* no other object.                                                         *)
LEMMA OneObject ==
    ASSUME ListInv, NEW f \in fileList, NEW g \in fileList, f # g, f.object = g.object
    PROVE  TwoArguments(f.object[1]) /\ f # RootPage
<1>t. GivenTree
  BY DEF ListInv, ListTypes
<1> DEFINE Made(h) == \E d \in Nodes : h = PageOf(d)
           Given(h) == \E n \in Nodes : h = File(n)
<1>1. \A h \in fileList : Made(h) \/ Given(h) \/ h = RootPage
  BY DEF ListInv, ListTypes
<1>2. CASE Given(f) /\ Given(g)
  <2>1. PICK m \in Nodes, n \in Nodes : f = File(m) /\ g = File(n)
    BY <1>2
  <2>2. m # n /\ Path[m] = Path[n] /\ f.object = Path[m] /\ f # RootPage
    BY <2>1, Fields
  <2> QED  BY <1>t, <2>2, PathsDiffer
<1>3. CASE Made(f) /\ Made(g)
  <2>1. PICK d \in Nodes, e \in Nodes : f = PageOf(d) /\ g = PageOf(e)
    BY <1>3
  <2>2. d # e /\ IndexOf(Path[d]) = IndexOf(Path[e]) /\ f.object = IndexOf(Path[d]) /\ f # RootPage
    BY <2>1, Fields
  <2>3. Path[d] = Path[e]
    <3> DEFINE p == Path[d]
               q == Path[e]
    <3>1. p \in Seq(FileNames) /\ q \in Seq(FileNames) /\ Append(p, IndexName) = Append(q, IndexName)
      BY <1>t, <2>2, PathOf DEF IndexOf
    <3> HIDE DEF p, q
    <3>2. p = q
      BY <3>1, SameAppend
    <3> QED  BY <3>2 DEF p, q
  <2>4. TwoArguments(Path[d][1])
    BY <1>t, <2>2, <2>3, PathsDiffer
  <2> QED  BY <1>t, <2>2, <2>4, PagePath
<1>4. ASSUME NEW h \in fileList, NEW k \in fileList, Given(h), Made(k), h.object = k.object
      PROVE  TwoArguments(h.object[1]) /\ h # RootPage /\ k # RootPage
  <2>1. PICK m \in Nodes, d \in Nodes : h = File(m) /\ k = PageOf(d)
    BY <1>4
  <2>2. Path[m] = IndexOf(Path[d]) /\ h.object = Path[m] /\ h # RootPage /\ k # RootPage
    BY <1>4, <2>1, Fields
  <2>3. TwoArguments(Path[m][1])
    BY <2>1, <2>2, FileAndPage
  <2> QED  BY <2>2, <2>3
<1>5. ASSUME NEW h \in fileList, RootPage \in fileList, Given(h) PROVE h.object # RootPage.object
  <2>1. PICK m \in Nodes : h = File(m)
    BY <1>5
  <2> SUFFICES ASSUME Path[m] = <<IndexName>> PROVE FALSE
    <3>1. RootPage.object = <<IndexName>>
      <4>1. Append(<<>>, IndexName) = <<IndexName>>
        OBVIOUS
      <4> QED  BY <4>1, Fields DEF IndexOf
    <3> QED  BY <2>1, <3>1, Fields
  <2>2. CASE m \in Arguments
    <3>1. <<name[m]>> = <<IndexName>>
      BY <1>t, <2>2, PathOf
    <3>2. name[m] = IndexName
      BY <3>1
    <3> QED  BY <1>5, <2>1, <2>2, <3>2 DEF ListInv, RootOK
  <2>3. CASE m \notin Arguments
    <3> DEFINE p == Path[parent[m]]
               x == name[m]
    <3>1. p \in Seq(FileNames) /\ p # <<>> /\ Append(p, x) = <<IndexName>>
      BY <1>t, <2>3, PathOf
    <3> HIDE DEF p, x
    <3> QED  BY <3>1, LongerThanOne
  <2> QED  BY <2>2, <2>3
<1>6. ASSUME NEW h, Made(h) PROVE h.object # RootPage.object
  BY <1>t, <1>6, PagePath, Fields
<1> HIDE DEF Made, Given
<1>7. CASE f = RootPage \/ g = RootPage
  BY <1>1, <1>5, <1>6, <1>7
<1>8. CASE Given(f) /\ Made(g)
  BY <1>4, <1>8
<1>9. CASE Made(f) /\ Given(g)
  BY <1>4, <1>9
<1> QED  BY <1>1, <1>2, <1>3, <1>7, <1>8, <1>9

(* So nothing is posted twice under one name, except of two such arguments. *)
LEMMA ObjectsAreDistinct == ListInv => ObjectsDistinct
<1> SUFFICES ASSUME ListInv, NEW f \in queue, NEW g \in queue, f # g, f.object = g.object
             PROVE  Cardinality(ArgumentOf(f)) > 1
  BY DEF ObjectsDistinct
<1>1. f \in fileList /\ g \in fileList
  BY DEF ListInv, QueueOK
<1>2. TwoArguments(f.object[1]) /\ f # RootPage
  BY <1>1, OneObject
<1>3. ~(f.index /\ f.node = NoNode)
  BY <1>1, <1>2, Fields, ListAssumption DEF ListInv, ListTypes
<1> DEFINE A == {n \in Arguments : name[n] = f.object[1]}
<1>4. ArgumentOf(f) = A
  BY <1>3 DEF ArgumentOf
<1>5. PICK r \in A, s \in A : r # s
  BY <1>2 DEF TwoArguments
<1>6. IsFiniteSet(A)
  <2>1. A \subseteq Nodes
    BY DEF Arguments
  <2> QED  BY <2>1, ListAssumption, FS_Subset
<1> HIDE DEF A
<1>7. IsFiniteSet({r, s}) /\ {r, s} \subseteq A /\ Cardinality({r, s}) = 2
  <2>1. Cardinality({r}) = 1 /\ IsFiniteSet({r})
    BY FS_Singleton
  <2>2. {r, s} = {r} \cup {s} /\ s \notin {r}
    BY <1>5
  <2>3. Cardinality({r} \cup {s}) = Cardinality({r}) + 1 /\ IsFiniteSet({r} \cup {s})
    <3> DEFINE T == {r}
    <3>1. IsFiniteSet(T) /\ s \notin T
      BY <2>1, <2>2
    <3> HIDE DEF T
    <3>2. Cardinality(T \cup {s}) = Cardinality(T) + 1 /\ IsFiniteSet(T \cup {s})
      BY <3>1, FS_AddElement
    <3> QED  BY <3>2 DEF T
  <2> QED  BY <1>5, <2>1, <2>2, <2>3
<1>8. Cardinality(A) >= 2 /\ Cardinality(A) \in Nat
  BY <1>6, <1>7, FS_Subset, FS_CardinalityType
<1> QED  BY <1>4, <1>8

(* What is posted can be browsed: every link of a page leads to a file that *)
(* is posted, is too large, or is an argument that vanished, or to a folder *)
(* with its page, whatever else vanishes while the list is made; and no     *)
(* object is posted twice unless two arguments have one name.  For any      *)
(* trees, names, options and links.                                         *)
THEOREM PagesFitTogether == ListSpec => []PagesFit
<1>1. ListInit => ListInv
  BY ListStart
<1>2. ListInv /\ [ListNext]_listVars => ListInv'
  BY ListKept
<1>3. ListInv => PagesFit
  BY LinksLead, ObjectsAreDistinct DEF PagesFit
<1> QED  BY <1>1, <1>2, <1>3, PTL DEF ListSpec

=============================================================================

------------------------------ MODULE LogFetch ------------------------------
(***************************************************************************)
(* LogRetriever._retrieve_log and _get_log_data of the log worker: the     *)
(* fetch of one console log while Jenkins is still uploading it.           *)
(*                                                                         *)
(* The log is a sequence of Full pieces, the last of which ends in the     *)
(* terminator '\n</pre>\n'.  The worker asks for the .gz, falls back on    *)
(* the plain file, and, when it is told to retry, asks for the bytes it    *)
(* does not have yet after waits of 1, 2, 4 ... ticks.  raw_buf is the     *)
(* sequence of the pieces it holds, so that a piece read twice or skipped  *)
(* shows.                                                                  *)
(***************************************************************************)
EXTENDS Integers, Sequences

CONSTANTS Full,           \* pieces of the finished log
          BackoffLimit,   \* 129 in the code
          MidChar,        \* lengths whose last 8 bytes start inside a character
          CutChar         \* lengths that end inside a character

ASSUME FetchAssumption == /\ Full \in Nat \ {0}
                          /\ BackoffLimit \in Nat \ {0, 1}
                          /\ MidChar \subseteq 1..(Full - 1)
                          /\ CutChar \subseteq 1..(Full - 1)

VARIABLES size,       \* pieces Jenkins has uploaded
          ranges,     \* does the file server honour Range requests
          retry,      \* the 'retry' argument of the job
          pc,         \* next request or wait of the worker
          gzipped, raw_buf, backoff,
          pending,    \* an exception is on its way through the finally block
          waited,     \* ticks spent in semi_busy_wait
          outcome,    \* how _retrieve_log ended: with the lines of raw_buf or raising
          failed,     \* history: a request failed (other than with 416)
          mangled,    \* history: a decode of a tail raised
          completedAt \* history: waited when the upload ended, or -1

vars == <<size, ranges, retry, pc, gzipped, raw_buf, backoff, pending, waited,
          outcome, failed, mangled, completedAt>>
history == <<failed, mangled>>

Prefix(n) == [i \in 1..n |-> i]
Complete(buf) == buf # <<>> /\ buf[Len(buf)] = Full

TypeOK == /\ size \in 0..Full
          /\ ranges \in BOOLEAN /\ retry \in BOOLEAN
          /\ pc \in {"gz", "plain", "check", "range", "wait", "decode", "done"}
          /\ gzipped \in BOOLEAN /\ pending \in BOOLEAN
          /\ raw_buf \in Seq(1..Full)
          /\ backoff \in 0..(2 * BackoffLimit)
          /\ waited \in 0..(2 * BackoffLimit)
          /\ outcome \in {"none", "lines", "raised"}
          /\ failed \in BOOLEAN /\ mangled \in BOOLEAN
          /\ completedAt \in -1..(2 * BackoffLimit)

Init == /\ size \in 0..Full
        /\ ranges \in BOOLEAN /\ retry \in BOOLEAN
        /\ pc = "gz"
        /\ gzipped = FALSE /\ pending = FALSE
        /\ raw_buf = <<>> /\ backoff = 0 /\ waited = 0
        /\ outcome = "none"
        /\ failed = FALSE /\ mangled = FALSE
        /\ completedAt = IF size = Full THEN 0 ELSE -1

(* Jenkins uploads another piece: asynchronously, at any moment. *)
Upload == /\ size < Full
          /\ size' = size + 1
          /\ completedAt' = IF size' = Full THEN waited ELSE completedAt
          /\ UNCHANGED <<ranges, retry, pc, gzipped, raw_buf, backoff, pending,
                         waited, outcome, history>>

(* _get_log_data left with an exception: _retrieve_log logs it and carries  *)
(* on with the empty buffer it started from.                                *)
GiveUp == /\ pc' = "decode"
          /\ raw_buf' = <<>> /\ gzipped' = FALSE
          /\ UNCHANGED <<backoff, waited>>

env == <<size, ranges, retry, outcome, completedAt>>

(* The answer of either request: compressed content is taken as it is,      *)
(* other content is judged by Check.                                        *)
Response ==
    /\ raw_buf' = Prefix(size)
    /\ \/ gzipped' = TRUE /\ pc' = "decode"
       \/ pc' = "check" /\ UNCHANGED gzipped
    /\ UNCHANGED <<backoff, pending, waited, history>>

(* The request for the .gz: an URLError leads to the plain request and any  *)
(* other error ends the fetch.                                              *)
GetGz ==
    /\ pc = "gz"
    /\ \/ Response
       \/ /\ pc' = "plain"
          /\ UNCHANGED <<gzipped, raw_buf, backoff, pending, waited, history>>
       \/ GiveUp /\ failed' = TRUE /\ UNCHANGED <<pending, mangled>>
    /\ UNCHANGED env

(* The request for the plain file; an error ends the fetch. *)
GetPlain ==
    /\ pc = "plain"
    /\ \/ Response
       \/ GiveUp /\ failed' = TRUE /\ UNCHANGED <<pending, mangled>>
    /\ UNCHANGED env

(* The condition in front of the retry loop.  The tail is decoded only for  *)
(* a log that may be retried; decoding raises when the last 8 bytes start   *)
(* in the middle of a character.                                            *)
Check ==
    /\ pc = "check"
    /\ IF retry /\ Len(raw_buf) \in MidChar
       THEN GiveUp /\ mangled' = TRUE /\ UNCHANGED <<pending, failed>>
       ELSE /\ IF retry /\ ~Complete(raw_buf)
               THEN pc' = "range" /\ backoff' = 1
               ELSE pc' = "decode" /\ UNCHANGED backoff
            /\ UNCHANGED <<gzipped, raw_buf, pending, waited, history>>
    /\ UNCHANGED env

(* A plausible mistake: the number of the last byte instead of the count.   *)
AnswerOverlapping(contentLen) ==
    [i \in 1..(size - contentLen) |-> IF contentLen = 0 THEN i ELSE contentLen + i - 1]

(* What the file server sends for "bytes=content_len-". *)
Answer(contentLen) ==
    IF ranges THEN [i \in 1..(size - contentLen) |-> contentLen + i]
              ELSE Prefix(size)

(* A plausible mistake: nothing new, no wait. *)
FinallyEager(buf) ==
    /\ raw_buf' = buf
    /\ pc' = IF Complete(buf) THEN "decode"
             ELSE IF buf = raw_buf THEN "range" ELSE "wait"
    /\ UNCHANGED <<gzipped, backoff, waited, mangled>>

(* The finally block of one iteration, for the buffer the request left:     *)
(* decode the tail, stop when the terminator has arrived, else go to wait.  *)
Finally(buf) ==
    IF Len(buf) \in MidChar
    THEN GiveUp /\ mangled' = TRUE
    ELSE /\ raw_buf' = buf
         /\ pc' = IF Complete(buf) THEN "decode" ELSE "wait"
         /\ UNCHANGED <<gzipped, backoff, waited, mangled>>

(* One attempt to fetch the rest: new bytes, a 416 because there are none,  *)
(* or an error that is raised again and passes through the finally block.   *)
Fetch ==
    /\ pc = "range"
    /\ \/ /\ Answer(Len(raw_buf)) # <<>>
          /\ Finally(raw_buf \o Answer(Len(raw_buf)))
          /\ UNCHANGED <<pending, failed>>
       \/ /\ Answer(Len(raw_buf)) = <<>>
          /\ Finally(raw_buf)
          /\ UNCHANGED <<pending, failed>>
       \/ /\ Finally(raw_buf)
          /\ pending' = TRUE /\ failed' = TRUE
    /\ UNCHANGED env

(* A plausible mistake in the bound of the loop. *)
AgainOneLess(b) == b < BackoffLimit - 1

(* Another iteration is worth it. *)
Again(b) == b < BackoffLimit

(* The wait at the end of the finally block; the exception, if there is     *)
(* one, goes on only now.                                                   *)
Wait ==
    /\ pc = "wait"
    /\ waited' = waited + backoff
    /\ backoff' = backoff + backoff
    /\ IF pending
       THEN pc' = "decode" /\ raw_buf' = <<>> /\ pending' = FALSE
       ELSE /\ pc' = IF Again(backoff') THEN "range" ELSE "decode"
            /\ UNCHANGED <<raw_buf, pending>>
    /\ UNCHANGED <<gzipped, history, env>>

(* _retrieve_log decompresses and decodes the buffer.  Neither is guarded:  *)
(* a truncated .gz or a buffer cut inside a character raises out of it.     *)
Decode ==
    /\ pc = "decode"
    /\ pc' = "done"
    /\ \/ outcome' = IF ~gzipped /\ Len(raw_buf) \in CutChar
                     THEN "raised" ELSE "lines"
       \/ gzipped /\ outcome' = "raised"
    /\ UNCHANGED <<size, ranges, retry, gzipped, raw_buf, backoff, pending,
                   waited, history, completedAt>>

Worker == GetGz \/ GetPlain \/ Check \/ Fetch \/ Wait \/ Decode
Next == Upload \/ Worker

(* The worker's thread keeps running and the server answers every request.  *)
(* Nothing makes Jenkins finish the upload.                                 *)
Spec == Init /\ [][Next]_vars /\ WF_vars(Worker)
-----------------------------------------------------------------------------

Done == pc = "done" /\ outcome = "lines"
Retried == retry /\ ~gzipped

(* However the requests interleave with the upload, the worker holds the    *)
(* log from its start without gap or repetition, provided that the server   *)
(* honours Range: the code never looks at the status of the answer.         *)
NoGapNoRepeat == ranges => raw_buf = Prefix(Len(raw_buf))

(* A log handed on that is neither empty nor complete was waited for with   *)
(* the whole backoff schedule: 255 ticks with the code's limit of 129.      *)
(* Errors and undecodable tails cannot shorten the wait for a part of a     *)
(* log: they turn it into an empty one.                                     *)
PartialOnlyAfterWholeWait ==
    Done /\ Retried /\ raw_buf # <<>> /\ ~Complete(raw_buf)
        => waited >= 2 * BackoffLimit - 3

(* The schedule is bounded: 1 + 2 + ... + 128 = 255. *)
WaitBounded == waited <= 2 * BackoffLimit - 3

(* A log whose upload ended before the last request was due (after 127 of   *)
(* the 255 ticks) is handed on complete, if no request failed and no tail   *)
(* or end of the buffer cut a character in two.  The comment at the loop    *)
(* promises it for the whole 255 ticks, but the last wait is not followed   *)
(* by a request.                                                            *)
CompleteIfUploadedInTime ==
    /\ pc = "done" /\ Retried /\ ranges /\ ~failed /\ ~mangled
    /\ completedAt \in 0..(BackoffLimit - 3)
    => outcome = "lines" /\ raw_buf = Prefix(Full)

(* The backoff schedule is kept: no log is given up before its end, none is *)
(* waited for longer, and one that was there in time is taken whole.        *)
BackoffIsKept == PartialOnlyAfterWholeWait /\ WaitBounded /\ CompleteIfUploadedInTime

(* The fetch ends whatever Jenkins and the server do, short of not          *)
(* answering: every iteration waits, and the waits double.                  *)
FetchEnds == <>(pc = "done")

=============================================================================

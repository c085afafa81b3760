---------------------------- MODULE SubunitWorker ----------------------------
(***************************************************************************)
(* subunit-gearman-worker: takes push-subunit jobs from gearman, reads the *)
(* subunit stream a job names and stores it in the subunit2sql database.   *)
(*                                                                         *)
(* As in LogWorker a retriever thread answers the job once the stream is   *)
(* on a queue, and the main thread empties the queue.  Unlike there, the   *)
(* main thread survives every error: it logs it and takes the next stream. *)
(* geard and the database are the environment.                             *)
(***************************************************************************)
EXTENDS Integers, Sequences, Functions

CONSTANTS Jobs, NoJob,
          QueueSize,   \* Queue.Queue(131072)
          MaxRuns,     \* bound: how often geard hands out one job
          MaxStops     \* bound: how often the worker is stopped from outside

ASSUME SubunitAssumption ==
    /\ NoJob \notin Jobs
    /\ QueueSize \in Nat \ {0} /\ MaxRuns \in Nat /\ MaxStops \in Nat

VARIABLES
    gearState, gearRuns, \* geard: state of a job, how often it was handed out
    answers,   \* history: the answers sent for every run of a job
    rpc,       \* retriever thread: where it is in _handle_event
    job, run,  \*   the job it works on, and which of its runs that is
    linked,    \*   the connection the job came by still stands
    stream,    \*   subunit_io: is it a stream
    subunitq,  \* the queue
    hand,      \* processor: the event it took off the queue
    up,        \* is the process running
    stored,    \* [job, run] of every stream in the database
    failed,    \* history: [job, run] of every stream whose storing raised
    lost,      \* history: events that died with the process
    outcome,   \* history: what the retrieval for [job, run] came to
    stops

gearVars == <<gearState, gearRuns, answers>>
retrieverVars == <<rpc, job, run, linked, stream, outcome>>
processorVars == <<hand, stored, failed>>
vars == <<gearVars, retrieverVars, subunitq, processorVars, up, lost, stops>>

Runs == Jobs \X (1..MaxRuns)
Event == [key : Runs, whole : BOOLEAN]

GearTypeOK ==
    /\ gearState \in [Jobs -> {"queued", "assigned", "complete", "exception", "failed"}]
    /\ gearRuns \in [Jobs -> 0..MaxRuns]
    /\ answers \in [Runs -> Seq({"complete", "exception"})]

RetrieverTypeOK ==
    /\ rpc \in {"idle", "retrieve", "missing", "put", "complete", "exception"}
    /\ job \in Jobs \cup {NoJob} /\ run \in 0..MaxRuns
    /\ rpc = "idle" <=> job = NoJob
    /\ linked \in BOOLEAN /\ stream \in BOOLEAN
    /\ outcome \in [Runs -> {"none", "aborted", "error", "stream", "missing"}]

EventTypeOK ==
    /\ subunitq \in Seq(Event) /\ Len(subunitq) <= QueueSize
    /\ hand \in Seq(Event) /\ Len(hand) <= 1
    /\ lost \subseteq Event
    /\ stored \subseteq Runs /\ failed \subseteq Runs

TypeOK == /\ GearTypeOK /\ RetrieverTypeOK /\ EventTypeOK
          /\ up \in BOOLEAN /\ stops \in 0..MaxStops

Init ==
    /\ gearState = [j \in Jobs |-> "queued"] /\ gearRuns = [j \in Jobs |-> 0]
    /\ answers = [r \in Runs |-> <<>>]
    /\ rpc = "idle" /\ job = NoJob /\ run = 0 /\ linked = FALSE /\ stream = FALSE
    /\ subunitq = <<>> /\ hand = <<>> /\ up = TRUE
    /\ outcome = [r \in Runs |-> "none"]
    /\ stored = {} /\ failed = {} /\ lost = {}
    /\ stops = 0

Key == <<job, run>>

-----------------------------------------------------------------------------
(* THE RETRIEVER THREAD *)

GetJob ==
    /\ up /\ rpc = "idle"
    /\ \E j \in Jobs :
         /\ gearState[j] = "queued" /\ gearRuns[j] < MaxRuns
         /\ gearState' = [gearState EXCEPT ![j] = "assigned"]
         /\ gearRuns' = [gearRuns EXCEPT ![j] = @ + 1]
         /\ job' = j /\ run' = gearRuns[j] + 1
    /\ linked' = TRUE /\ rpc' = "retrieve"
    /\ UNCHANGED <<answers, stream, outcome, subunitq, processorVars, up, lost, stops>>

(* An aborted build is answered at once; malformed arguments and a stream   *)
(* that cannot be decompressed raise; every error of the requests makes the *)
(* result None.                                                             *)
Comes(o) == outcome' = [outcome EXCEPT ![Key] = o]

Retrieve ==
    /\ rpc = "retrieve"
    /\ \/ rpc' = "complete" /\ Comes("aborted") /\ UNCHANGED stream
       \/ rpc' = "exception" /\ Comes("error") /\ UNCHANGED stream
       \/ rpc' = "put" /\ Comes("stream") /\ stream' = TRUE
       \/ rpc' = "missing" /\ Comes("missing") /\ stream' = FALSE
    /\ UNCHANGED <<gearVars, job, run, linked, subunitq, processorVars, up, lost, stops>>

(* What geard makes of an answer: it ends the job, and geard ignores the    *)
(* answer for a job that has ended or that came by another connection.      *)
Answer(a) ==
    /\ answers' = [answers EXCEPT ![Key] = Append(@, a)]
    /\ gearState' = IF linked /\ gearState[job] = "assigned"
                    THEN [gearState EXCEPT ![job] = a] ELSE gearState
    /\ UNCHANGED gearRuns

Raises == ~linked /\ rpc' = "exception" /\ UNCHANGED gearVars

(* sendWorkException('Unable to retrieve subunit stream') and on.           *)
AnswerMissing ==
    /\ rpc = "missing"
    /\ \/ Answer("exception") /\ rpc' = "put"
       \/ Raises
    /\ UNCHANGED <<job, run, linked, stream, outcome, subunitq, processorVars, up, lost, stops>>

(* A plausible mistake: a full queue drops the stream. *)
PutOrDrop ==
    /\ rpc = "put"
    /\ subunitq' = IF Len(subunitq) < QueueSize
                   THEN Append(subunitq, [key |-> Key, whole |-> stream]) ELSE subunitq
    /\ rpc' = "complete"
    /\ UNCHANGED <<gearVars, job, run, linked, stream, outcome, processorVars, up, lost, stops>>

(* subunitq.put(out_event) blocks while the queue is full. *)
Put ==
    /\ rpc = "put" /\ Len(subunitq) < QueueSize
    /\ subunitq' = Append(subunitq, [key |-> Key, whole |-> stream])
    /\ rpc' = "complete"
    /\ UNCHANGED <<gearVars, job, run, linked, stream, outcome, processorVars, up, lost, stops>>

Return == /\ rpc' = "idle" /\ job' = NoJob /\ run' = 0 /\ linked' = FALSE
          /\ UNCHANGED <<stream, outcome, subunitq, processorVars, up, lost, stops>>

(* A plausible mistake: the error handler follows an answered job. *)
WorkCompleteFallsThrough ==
    /\ rpc = "complete" /\ Answer("complete") /\ rpc' = "exception"
    /\ UNCHANGED <<job, run, linked, stream, outcome, subunitq, processorVars, up, lost, stops>>

WorkComplete ==
    /\ rpc = "complete"
    /\ \/ Answer("complete") /\ Return
       \/ /\ Raises
          /\ UNCHANGED <<job, run, linked, stream, outcome, subunitq, processorVars, up, lost, stops>>

(* What it raises is logged by run(): the connection is lost, or the text   *)
(* of the error is not one that encode() takes.                             *)
WorkException ==
    /\ rpc = "exception"
    /\ \/ Answer("exception")
       \/ UNCHANGED gearVars
    /\ Return

RetrieverStep == \/ GetJob \/ Retrieve \/ AnswerMissing \/ Put \/ WorkComplete \/ WorkException

-----------------------------------------------------------------------------
(* THE PROCESSOR, the main thread *)

(* A plausible mistake: the event stays on the queue until it is stored. *)
TakePeeks ==
    /\ hand = <<>> /\ subunitq # <<>>
    /\ hand' = <<Head(subunitq)>>
    /\ UNCHANGED <<gearVars, retrieverVars, subunitq, stored, failed, up, lost, stops>>

Take ==
    /\ hand = <<>> /\ subunitq # <<>>
    /\ hand' = <<Head(subunitq)>> /\ subunitq' = Tail(subunitq)
    /\ UNCHANGED <<gearVars, retrieverVars, stored, failed, up, lost, stops>>

(* A plausible mistake: an error ends the loop, not the turn. *)
StoreStops ==
    /\ hand # <<>>
    /\ hand[1].whole
    /\ stored' = stored \cup {hand[1].key} /\ hand' = <<>>
    /\ UNCHANGED <<gearVars, retrieverVars, failed, subunitq, up, lost, stops>>

(* handle_subunit_event: a None cannot be parsed, and parsing a stream or   *)
(* writing to the database may raise; main() logs the error and goes on.    *)
Store ==
    /\ hand # <<>>
    /\ \/ /\ hand[1].whole
          /\ stored' = stored \cup {hand[1].key} /\ UNCHANGED failed
       \/ failed' = failed \cup {hand[1].key} /\ UNCHANGED stored
    /\ hand' = <<>>
    /\ UNCHANGED <<gearVars, retrieverVars, subunitq, up, lost, stops>>

ProcessorStep == Take \/ Store

-----------------------------------------------------------------------------
(* THE ENVIRONMENT *)

(* geard notices that the worker is gone: the job fails or is queued again. *)
Disconnect ==
    /\ IF linked /\ gearState[job] = "assigned"
       THEN \E s \in {"failed", "queued"} : gearState' = [gearState EXCEPT ![job] = s]
       ELSE UNCHANGED gearState
    /\ linked' = FALSE
    /\ UNCHANGED <<gearRuns, answers>>

LoseGeard ==
    /\ linked /\ Disconnect
    /\ UNCHANGED <<rpc, job, run, stream, outcome, subunitq, processorVars, up, lost, stops>>

Stop ==
    /\ up /\ stops < MaxStops
    /\ Disconnect
    /\ up' = FALSE /\ stops' = stops + 1
    /\ rpc' = "idle" /\ job' = NoJob /\ run' = 0
    /\ lost' = lost \cup Range(subunitq) \cup Range(hand)
    /\ subunitq' = <<>> /\ hand' = <<>>
    /\ UNCHANGED <<stream, outcome, stored, failed>>

Start ==
    /\ ~up /\ up' = TRUE
    /\ UNCHANGED <<gearVars, retrieverVars, subunitq, processorVars, lost, stops>>

Next == RetrieverStep \/ ProcessorStep \/ LoseGeard \/ Stop \/ Start

(* Both threads are scheduled. *)
Fairness == WF_vars(RetrieverStep) /\ WF_vars(ProcessorStep)

Spec == Init /\ [][Next]_vars /\ Fairness

-----------------------------------------------------------------------------
(* PROPERTIES *)

Pending == Range(subunitq) \cup Range(hand)
Traced(r) == \/ r \in stored \cup failed
             \/ \E e \in Pending \cup lost : e.key = r

(* "Unable to retrieve subunit stream" is the exception geard is sent when  *)
(* there is no stream; a job is answered once.                              *)
OneAnswer == \A r \in Runs : Len(answers[r]) <= 1

(* What does hold: a job is answered again only if its stream could not be  *)
(* retrieved, and then the first answer, the one geard keeps, is the        *)
(* exception.                                                               *)
FirstAnswerStands ==
    \A r \in Runs : Len(answers[r]) > 1
        => outcome[r] = "missing" /\ Len(answers[r]) = 2 /\ answers[r][1] = "exception"

(* geard counts a job as complete only if its build was aborted or its      *)
(* stream was taken over: it is stored, queued, or was given up with an     *)
(* error in the log or with the process.                                    *)
CompleteIsTraced ==
    \A j \in Jobs : gearState[j] = "complete"
        => LET r == <<j, gearRuns[j]>> IN
           outcome[r] = "aborted" \/ (outcome[r] = "stream" /\ Traced(r))

(* No stream is stored but those the worker has retrieved whole, and none   *)
(* that was stored or given up is still around to be stored again.          *)
StoredOnce ==
    \A r \in stored : /\ outcome[r] = "stream" /\ r \notin failed
                      /\ \A e \in Pending \cup lost : e.key # r

(* Neither a full queue nor an error of the database keeps a job from being *)
(* answered: the other thread goes on emptying the queue.                   *)
JobsAreAnswered == rpc = "retrieve" ~> rpc = "idle"

-----------------------------------------------------------------------------
(* THE PROMISE KEPT *)

(* Where the stream of a run is: what is in the database is delivered, what *)
(* was given up with an error or died with the process is dropped, what the *)
(* worker still has is held.  A None that stands for a missing stream is    *)
(* none of these.                                                           *)
Among(r, events) == \E e \in events : e.key = r /\ e.whole

StageOf(r) ==
    CASE r \in stored -> "delivered"
      [] r \notin stored /\ ((outcome[r] = "stream" /\ r \in failed) \/ Among(r, lost)) -> "dropped"
      [] r \notin stored \cup failed /\ ~Among(r, lost) /\ Among(r, Pending) -> "held"
      [] OTHER -> "waiting"

Promised == {r \in Runs : outcome[r] = "stream" /\ "complete" \in Range(answers[r])}

Worker == INSTANCE Handover WITH Item <- Runs,
                                 stage <- [r \in Runs |-> StageOf(r)], promised <- Promised

(* The worker implements Handover: every stream is taken over once, goes to *)
(* the database or down and never both, and WorkComplete promises only      *)
(* streams that were taken over.                                            *)
ImplementsHandover == Worker!Spec

=============================================================================

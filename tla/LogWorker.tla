----------------------------- MODULE LogWorker -----------------------------
(***************************************************************************)
(* log-gearman-worker: workers that take jobs from gearman, read the log   *)
(* the job names, score its lines with CRM114 and send them to logstash.   *)
(*                                                                         *)
(* Every worker process has two threads.  The retriever takes a job, reads *)
(* the log (LogFetch models that step), runs every line through the filter *)
(* subprocess and puts it on a bounded queue; it answers the job when the  *)
(* last line is on the queue.  The main thread, here the processor, takes  *)
(* lines off the queue and writes them to a TCP socket.  When logstash     *)
(* fails it waits 90 seconds, connects and sends once more, and a second   *)
(* failure ends the process, daemon thread, queue and all.                 *)
(*                                                                         *)
(* geard, CRM114, the TCP connection and logstash are the environment.     *)
(***************************************************************************)
EXTENDS Integers, Sequences, Functions

CONSTANTS Jobs, Workers, NoJob,
          MaxLines,     \* lines of the longest log
          QueueSize,    \* Queue.Queue(131072)
          WireSize,     \* lines that fit into the socket buffers
          UseCRM,       \* crm114-script and crm114-data are configured
          MaxRuns,      \* bound: how often geard hands out one job
          MaxOutages,   \* bound: how often logstash dies
          MaxStops      \* bound: how often a worker is stopped from outside

ASSUME WorkerAssumption ==
    /\ NoJob \notin Jobs
    /\ MaxLines \in Nat /\ MaxRuns \in Nat /\ MaxOutages \in Nat /\ MaxStops \in Nat
    /\ QueueSize \in Nat \ {0} /\ WireSize \in Nat \ {0}
    /\ UseCRM \in BOOLEAN

VARIABLES
    gearState, gearRuns, \* geard: state of a job, how often it was handed out
    completed,  \* history: [job, run, total] of every WorkComplete geard received
    rpc,        \* retriever thread: where it is in _handle_event
    job, run,   \*   the job it works on, and which of the job's runs that is
    linked,     \*   the connection the job came by still stands
    total, next, \*  len(log_lines), and the line the loop is at
    active, crm, \*  is the filter in `filters'; its subprocess
    logq,       \* the logqueue
    ppc, hand,  \* processor: where it is, and the line it took off the queue
    sock, wire, \*   its socket, and what is sent but not yet read by logstash
    outage,     \*   history: logstash was down since the processor's last wait
    logstash,   \* is logstash up
    received,   \* lines logstash has read
    lost,       \* history: lines that died with a process or a connection
    outages, stops

gearVars == <<gearState, gearRuns, completed>>
taskVars == <<job, run, linked>>
loopVars == <<total, next>>
filterVars == <<active, crm>>
retrieverVars == <<rpc, taskVars, loopVars, filterVars>>
procVars == <<ppc, hand, sock, wire, outage>>
sinkVars == <<logstash, received, lost, outages>>
vars == <<gearVars, retrieverVars, logq, procVars, sinkVars, stops>>

-----------------------------------------------------------------------------
(* A line of a log.  run tells the executions of a job that was handed out *)
(* again from each other; scored is the presence of the error_pr field.    *)
Line == [job : Jobs, run : 1..MaxRuns, n : 1..MaxLines, scored : BOOLEAN]

GearTypeOK ==
    /\ gearState \in [Jobs -> {"queued", "assigned", "complete", "exception", "failed"}]
    /\ gearRuns \in [Jobs -> 0..MaxRuns]
    /\ completed \subseteq [job : Jobs, run : 1..MaxRuns, total : 0..MaxLines]

RetrieverTypeOK ==
    /\ rpc \in [Workers -> {"idle", "fetch", "filter", "line", "put", "putScored", "abort",
                            "reap", "reapAbort", "complete", "exception", "off"}]
    /\ job \in [Workers -> Jobs \cup {NoJob}] /\ run \in [Workers -> 0..MaxRuns]
    /\ linked \in [Workers -> BOOLEAN]
    /\ total \in [Workers -> 0..MaxLines] /\ next \in [Workers -> 1..(MaxLines + 1)]
    /\ active \in [Workers -> BOOLEAN]
    /\ crm \in [Workers -> {"none", "running", "closing", "exited"}]

QueueTypeOK ==
    /\ logq \in [Workers -> Seq(Line)]
    /\ \A w \in Workers : Len(logq[w]) <= QueueSize

ProcessorTypeOK ==
    /\ ppc \in [Workers -> {"get", "send", "wait", "reconnect", "resend", "off", "gaveup"}]
    /\ hand \in [Workers -> Seq(Line)]
    /\ \A w \in Workers : Len(hand[w]) = IF ppc[w] \in {"get", "off", "gaveup"} THEN 0 ELSE 1
    /\ sock \in [Workers -> {"none", "open", "stale", "broken"}]
    /\ wire \in [Workers -> Seq(Line)]
    /\ outage \in [Workers -> BOOLEAN]

SinkTypeOK ==
    /\ logstash \in BOOLEAN
    /\ received \subseteq Line /\ lost \subseteq Line
    /\ outages \in 0..MaxOutages /\ stops \in 0..MaxStops

TypeOK == GearTypeOK /\ RetrieverTypeOK /\ QueueTypeOK /\ ProcessorTypeOK /\ SinkTypeOK

Init ==
    /\ gearState = [j \in Jobs |-> "queued"] /\ gearRuns = [j \in Jobs |-> 0]
    /\ completed = {}
    /\ rpc = [w \in Workers |-> "idle"]
    /\ job = [w \in Workers |-> NoJob] /\ run = [w \in Workers |-> 0]
    /\ linked = [w \in Workers |-> FALSE]
    /\ total = [w \in Workers |-> 0] /\ next = [w \in Workers |-> 1]
    /\ active = [w \in Workers |-> FALSE] /\ crm = [w \in Workers |-> "none"]
    /\ logq = [w \in Workers |-> <<>>]
    /\ ppc = [w \in Workers |-> "get"] /\ hand = [w \in Workers |-> <<>>]
    /\ sock = [w \in Workers |-> "none"] /\ wire = [w \in Workers |-> <<>>]
    /\ outage = [w \in Workers |-> FALSE]
    /\ logstash = TRUE
    /\ received = {} /\ lost = {}
    /\ outages = 0 /\ stops = 0

-----------------------------------------------------------------------------
(* THE RETRIEVER THREAD *)

Goto(w, pc) == rpc' = [rpc EXCEPT ![w] = pc]
RetrieverOnly == UNCHANGED <<procVars, sinkVars, stops>>

(* getJob() *)
GetJob(w) ==
    /\ rpc[w] = "idle"
    /\ \E j \in Jobs :
         /\ gearState[j] = "queued" /\ gearRuns[j] < MaxRuns
         /\ gearState' = [gearState EXCEPT ![j] = "assigned"]
         /\ gearRuns' = [gearRuns EXCEPT ![j] = @ + 1]
         /\ job' = [job EXCEPT ![w] = j]
         /\ run' = [run EXCEPT ![w] = gearRuns[j] + 1]
    /\ linked' = [linked EXCEPT ![w] = TRUE]
    /\ Goto(w, "fetch")
    /\ UNCHANGED <<completed, loopVars, filterVars, logq>> /\ RetrieverOnly

(* Reading the arguments and the log.  An aborted build is answered at      *)
(* once, malformed arguments and an undecodable log raise, an unreachable   *)
(* log has no lines and an unfinished one only some.                        *)
Fetch(w) ==
    /\ rpc[w] = "fetch"
    /\ \/ Goto(w, "complete") /\ UNCHANGED total
       \/ Goto(w, "exception") /\ UNCHANGED total
       \/ Goto(w, "filter") /\ \E n \in 0..MaxLines : total' = [total EXCEPT ![w] = n]
    /\ UNCHANGED <<gearVars, taskVars, next, filterVars, logq>> /\ RetrieverOnly

(* f.create(fields): no filter is configured, or the build neither succeeded *)
(* nor failed and the filter does nothing; or the subprocess starts; or      *)
(* starting it raises.                                                       *)
CreateFilter(w) ==
    /\ rpc[w] = "filter"
    /\ \/ Goto(w, "line") /\ UNCHANGED filterVars
       \/ /\ UseCRM /\ Goto(w, "line")
          /\ active' = [active EXCEPT ![w] = TRUE]
          /\ crm' = [crm EXCEPT ![w] = "running"]
       \/ UseCRM /\ Goto(w, "abort") /\ UNCHANGED filterVars
    /\ UNCHANGED <<gearVars, taskVars, loopVars, logq>> /\ RetrieverOnly

(* A plausible mistake: a filter that failed once is tried again. *)
ProcessKeepsFilter(w) ==
    /\ rpc[w] = "line" /\ next[w] <= total[w]
    /\ \/ Goto(w, "put")
       \/ active[w] /\ Goto(w, "putScored")
    /\ UNCHANGED <<gearVars, taskVars, loopVars, filterVars, logq>> /\ RetrieverOnly

(* f.process(out_event): the score arrives; or the filter answers nothing   *)
(* for 20 seconds and is killed, or has died, and a FilterException drops   *)
(* it for the rest of the log; or writing to it or reading its score raises *)
(* something else, which leaves the loop.                                   *)
Process(w) ==
    /\ rpc[w] = "line" /\ next[w] <= total[w]
    /\ \/ ~active[w] /\ Goto(w, "put") /\ UNCHANGED filterVars
       \/ active[w] /\ crm[w] = "running" /\ Goto(w, "putScored") /\ UNCHANGED filterVars
       \/ /\ active[w] /\ Goto(w, "put")
          /\ active' = [active EXCEPT ![w] = FALSE]
          /\ crm' = [crm EXCEPT ![w] = "exited"]
       \/ active[w] /\ Goto(w, "abort") /\ UNCHANGED filterVars
    /\ UNCHANGED <<gearVars, taskVars, loopVars, logq>> /\ RetrieverOnly

OutEvent(w) == [job |-> job[w], run |-> run[w], n |-> next[w], scored |-> rpc[w] = "putScored"]

(* logq.put(out_event) blocks while the queue is full. *)
Put(w) ==
    /\ rpc[w] \in {"put", "putScored"} /\ Len(logq[w]) < QueueSize
    /\ logq' = [logq EXCEPT ![w] = Append(@, OutEvent(w))]
    /\ next' = [next EXCEPT ![w] = @ + 1]
    /\ Goto(w, "line")
    /\ UNCHANGED <<gearVars, taskVars, total, filterVars>> /\ RetrieverOnly

LoopIsOver(w) == rpc[w] = "line" /\ next[w] > total[w]

(* The finally block: close() closes the pipes of the filter, which CRM114  *)
(* should take as its order to exit, and waits for the subprocess.          *)
Close(w) ==
    /\ \/ LoopIsOver(w) /\ Goto(w, "reap")
       \/ rpc[w] = "abort" /\ Goto(w, "reapAbort")
    /\ crm' = [crm EXCEPT ![w] = IF @ = "running" THEN "closing" ELSE @]
    /\ UNCHANGED <<gearVars, taskVars, loopVars, active, logq>> /\ RetrieverOnly

(* What wait() gives back when the subprocess has exited. *)
Reaped(w) ==
    /\ crm[w] \in {"none", "exited"}
    /\ crm' = [crm EXCEPT ![w] = "none"]
    /\ active' = [active EXCEPT ![w] = FALSE]
    /\ UNCHANGED <<gearVars, taskVars, loopVars, logq>> /\ RetrieverOnly

(* A plausible mistake: the exception ends in the finally block. *)
ReapSwallows(w) ==
    /\ rpc[w] \in {"reap", "reapAbort"} /\ Goto(w, "complete")
    /\ Reaped(w)

Reap(w) ==
    /\ \/ rpc[w] = "reap" /\ Goto(w, "complete")
       \/ rpc[w] = "reapAbort" /\ Goto(w, "exception")
    /\ Reaped(w)

(* _handle_event returns and run() calls it again. *)
Return(w) ==
    /\ Goto(w, "idle")
    /\ job' = [job EXCEPT ![w] = NoJob]
    /\ run' = [run EXCEPT ![w] = 0]
    /\ linked' = [linked EXCEPT ![w] = FALSE]
    /\ total' = [total EXCEPT ![w] = 0]
    /\ next' = [next EXCEPT ![w] = 1]
    /\ UNCHANGED filterVars

(* geard records the completion of the run. *)
Completes(w) ==
    /\ gearState' = [gearState EXCEPT ![job[w]] = "complete"]
    /\ completed' = completed \cup {[job |-> job[w], run |-> run[w], total |-> total[w]]}

(* A plausible mistake: an answered job runs on into the error handler. *)
WorkCompleteFallsThrough(w) ==
    /\ rpc[w] = "complete" /\ Goto(w, "exception")
    /\ IF linked[w] THEN Completes(w) ELSE UNCHANGED <<gearState, completed>>
    /\ UNCHANGED <<gearRuns, taskVars, loopVars, filterVars, logq>> /\ RetrieverOnly

(* sendWorkComplete(): geard takes the answer; with the connection gone it  *)
(* vanishes, or the call raises and an exception is sent instead.           *)
WorkComplete(w) ==
    /\ rpc[w] = "complete"
    /\ \/ linked[w] /\ Completes(w) /\ Return(w)
       \/ ~linked[w] /\ Return(w) /\ UNCHANGED <<gearState, completed>>
       \/ /\ ~linked[w] /\ Goto(w, "exception")
          /\ UNCHANGED <<gearState, completed, taskVars, loopVars, filterVars>>
    /\ UNCHANGED <<gearRuns, logq>> /\ RetrieverOnly

(* sendWorkException(); what it raises is logged by run().  The text of the *)
(* error may not be one that encode() takes: then geard hears nothing until *)
(* the connection ends, be it now or never.                                 *)
WorkException(w) ==
    /\ rpc[w] = "exception"
    /\ IF linked[w]
       THEN \E s \in {"exception", "assigned", "failed", "queued"} : gearState' = [gearState EXCEPT ![job[w]] = s]
       ELSE UNCHANGED gearState
    /\ Return(w)
    /\ UNCHANGED <<gearRuns, completed, logq>> /\ RetrieverOnly

RetrieverStep(w) == \/ GetJob(w) \/ Fetch(w) \/ CreateFilter(w) \/ Process(w) \/ Put(w)
                    \/ Close(w) \/ Reap(w) \/ WorkComplete(w) \/ WorkException(w)

-----------------------------------------------------------------------------
(* THE PROCESSOR, the main thread *)

ProcessorOnly == UNCHANGED <<gearVars, retrieverVars, stops, logstash, received, outages>>

(* self.logq.get() *)
Take(w) ==
    /\ ppc[w] = "get" /\ logq[w] # <<>>
    /\ hand' = [hand EXCEPT ![w] = <<Head(logq[w])>>]
    /\ logq' = [logq EXCEPT ![w] = Tail(@)]
    /\ ppc' = [ppc EXCEPT ![w] = "send"]
    /\ UNCHANGED <<sock, wire, outage, lost>> /\ ProcessorOnly

(* The first connection of a process; its failure is treated like any other. *)
Connect(w) ==
    /\ ppc[w] = "send" /\ sock[w] = "none"
    /\ IF logstash
       THEN sock' = [sock EXCEPT ![w] = "open"] /\ UNCHANGED ppc
       ELSE /\ sock' = [sock EXCEPT ![w] = "broken"]
            /\ ppc' = [ppc EXCEPT ![w] = "wait"]
    /\ UNCHANGED <<logq, hand, wire, outage, lost>> /\ ProcessorOnly

(* sendall() returns when the line is in the socket's buffer, which is not  *)
(* the same as logstash having it: on a connection whose other end has died *)
(* the first writes succeed as well.                                        *)
Sent(w) ==
    /\ hand' = [hand EXCEPT ![w] = <<>>]
    /\ ppc' = [ppc EXCEPT ![w] = "get"]
    /\ UNCHANGED <<logq, outage>> /\ ProcessorOnly

(* A plausible mistake: the second attempt is made after a success as well. *)
SendTwice(w) ==
    /\ ppc[w] \in {"send", "resend"} /\ sock[w] = "open" /\ Len(wire[w]) < WireSize
    /\ wire' = [wire EXCEPT ![w] = Append(@, hand[w][1])]
    /\ IF ppc[w] = "send"
       THEN ppc' = [ppc EXCEPT ![w] = "wait"] /\ UNCHANGED hand
       ELSE ppc' = [ppc EXCEPT ![w] = "get"] /\ hand' = [hand EXCEPT ![w] = <<>>]
    /\ UNCHANGED <<logq, sock, outage, lost>> /\ ProcessorOnly

Send(w) ==
    /\ ppc[w] \in {"send", "resend"}
    /\ \/ /\ sock[w] = "open" /\ Len(wire[w]) < WireSize
          /\ wire' = [wire EXCEPT ![w] = Append(@, hand[w][1])]
          /\ UNCHANGED <<sock, lost>>
       \/ /\ sock[w] = "stale"
          /\ lost' = lost \cup Range(hand[w])
          /\ UNCHANGED <<sock, wire>>
    /\ Sent(w)

(* A plausible mistake: connect again, but for the next line. *)
SendFailsNextLine(w) ==
    /\ ppc[w] = "send" /\ sock[w] \in {"stale", "broken"}
    /\ ppc' = [ppc EXCEPT ![w] = "get"]
    /\ sock' = [sock EXCEPT ![w] = "none"]
    /\ hand' = [hand EXCEPT ![w] = <<>>]
    /\ UNCHANGED <<logq, wire, outage, lost>> /\ ProcessorOnly

(* sendall() raises: nothing but a wait of 90 seconds is done about it. *)
SendFails(w) ==
    /\ ppc[w] = "send" /\ sock[w] \in {"stale", "broken"}
    /\ ppc' = [ppc EXCEPT ![w] = "wait"]
    /\ sock' = [sock EXCEPT ![w] = "broken"]
    /\ UNCHANGED <<logq, hand, wire, outage, lost>> /\ ProcessorOnly

(* semi_busy_wait(90) is over. *)
Wait90(w) ==
    /\ ppc[w] = "wait"
    /\ ppc' = [ppc EXCEPT ![w] = "reconnect"]
    /\ outage' = [outage EXCEPT ![w] = ~logstash]
    /\ UNCHANGED <<logq, hand, sock, wire, lost>> /\ ProcessorOnly

(* A plausible mistake: the second attempt uses the socket of the first. *)
ReconnectNot(w) ==
    /\ ppc[w] = "reconnect" /\ logstash
    /\ ppc' = [ppc EXCEPT ![w] = "resend"]
    /\ UNCHANGED <<logq, hand, sock, wire, outage, lost>> /\ ProcessorOnly

Reconnect(w) ==
    /\ ppc[w] = "reconnect" /\ logstash
    /\ sock' = [sock EXCEPT ![w] = "open"]
    /\ ppc' = [ppc EXCEPT ![w] = "resend"]
    /\ UNCHANGED <<logq, hand, wire, outage, lost>> /\ ProcessorOnly

(* geard notices that the connection of a worker is gone.  Its jobs fail or *)
(* go back to the queue: the workers cannot tell, and nobody submits a      *)
(* failed job again.                                                        *)
Disconnect(w) ==
    /\ IF linked[w]
       THEN \E s \in {"failed", "queued"} : gearState' = [gearState EXCEPT ![job[w]] = s]
       ELSE UNCHANGED gearState
    /\ linked' = [linked EXCEPT ![w] = FALSE]

(* The process ends.  Its queue and the line in the processor's hand are    *)
(* gone; what the kernel has accepted is still sent.                        *)
Exit(w, state) ==
    /\ Disconnect(w)
    /\ Goto(w, "off")
    /\ job' = [job EXCEPT ![w] = NoJob]
    /\ run' = [run EXCEPT ![w] = 0]
    /\ total' = [total EXCEPT ![w] = 0]
    /\ next' = [next EXCEPT ![w] = 1]
    /\ active' = [active EXCEPT ![w] = FALSE]
    /\ crm' = [crm EXCEPT ![w] = "none"]
    /\ lost' = lost \cup Range(logq[w]) \cup Range(hand[w])
    /\ logq' = [logq EXCEPT ![w] = <<>>]
    /\ hand' = [hand EXCEPT ![w] = <<>>]
    /\ ppc' = [ppc EXCEPT ![w] = state]
    /\ sock' = [sock EXCEPT ![w] = "none"]
    /\ UNCHANGED <<gearRuns, completed, wire, outage, logstash, received, outages>>

(* A plausible mistake: the retriever is not a daemon thread. *)
GiveUpAlone(w) ==
    /\ \/ ppc[w] = "reconnect" /\ ~logstash
       \/ ppc[w] = "resend" /\ sock[w] \in {"stale", "broken"}
    /\ lost' = lost \cup Range(hand[w])
    /\ hand' = [hand EXCEPT ![w] = <<>>]
    /\ ppc' = [ppc EXCEPT ![w] = "gaveup"]
    /\ UNCHANGED <<logq, sock, wire, outage>> /\ ProcessorOnly

(* The second attempt fails as well: main() raises. *)
GiveUp(w) ==
    /\ \/ ppc[w] = "reconnect" /\ ~logstash
       \/ ppc[w] = "resend" /\ sock[w] \in {"stale", "broken"}
    /\ Exit(w, "gaveup")
    /\ UNCHANGED stops

ProcessorStep(w) == \/ Take(w) \/ Connect(w) \/ Send(w) \/ SendFails(w)
                    \/ Wait90(w) \/ Reconnect(w) \/ GiveUp(w)

-----------------------------------------------------------------------------
(* THE ENVIRONMENT *)

(* The service is stopped, as puppet does when its configuration changes. *)
Stop(w) ==
    /\ ppc[w] \notin {"off", "gaveup"} /\ stops < MaxStops
    /\ Exit(w, "off")
    /\ stops' = stops + 1

(* Somebody starts the service again. *)
Start(w) ==
    /\ ppc[w] \in {"off", "gaveup"}
    /\ Goto(w, "idle")
    /\ ppc' = [ppc EXCEPT ![w] = "get"]
    /\ UNCHANGED <<gearVars, taskVars, loopVars, filterVars, logq, hand, sock, wire, outage,
                   sinkVars, stops>>

(* The connection to geard breaks while a job is being worked on.  The      *)
(* library connects again, but the job keeps the old connection.            *)
LoseGeard(w) ==
    /\ linked[w]
    /\ Disconnect(w)
    /\ UNCHANGED <<gearRuns, completed, rpc, job, run, loopVars, filterVars, logq>>
    /\ RetrieverOnly

(* CRM114 dies, or exits because its input was closed. *)
CRMDies(w) ==
    /\ crm[w] = "running"
    /\ crm' = [crm EXCEPT ![w] = "exited"]
    /\ UNCHANGED <<gearVars, rpc, taskVars, loopVars, active, logq>> /\ RetrieverOnly

CRMExits(w) ==
    /\ crm[w] = "closing"
    /\ crm' = [crm EXCEPT ![w] = "exited"]
    /\ UNCHANGED <<gearVars, rpc, taskVars, loopVars, active, logq>> /\ RetrieverOnly

(* logstash reads a line. *)
Deliver(w) ==
    /\ logstash /\ wire[w] # <<>>
    /\ received' = received \cup {Head(wire[w])}
    /\ wire' = [wire EXCEPT ![w] = Tail(@)]
    /\ UNCHANGED <<gearVars, retrieverVars, logq, ppc, hand, sock, outage, logstash, lost,
                   outages, stops>>

(* logstash dies with everything it has not read. *)
LogstashDies ==
    /\ logstash /\ outages < MaxOutages
    /\ logstash' = FALSE
    /\ outages' = outages + 1
    /\ lost' = lost \cup UNION {Range(wire[w]) : w \in Workers}
    /\ wire' = [w \in Workers |-> <<>>]
    /\ sock' = [w \in Workers |-> IF sock[w] = "open" THEN "stale" ELSE sock[w]]
    /\ outage' = [w \in Workers |-> TRUE]
    /\ UNCHANGED <<gearVars, retrieverVars, logq, ppc, hand, received, stops>>

LogstashStarts ==
    /\ ~logstash
    /\ logstash' = TRUE
    /\ UNCHANGED <<gearVars, retrieverVars, logq, procVars, received, lost, outages, stops>>

Next == \/ \E w \in Workers : \/ RetrieverStep(w) \/ ProcessorStep(w)
                              \/ Stop(w) \/ Start(w) \/ LoseGeard(w)
                              \/ CRMDies(w) \/ CRMExits(w) \/ Deliver(w)
        \/ LogstashDies \/ LogstashStarts

(* Both threads are scheduled, CRM114 exits when its input is closed, and a *)
(* logstash that is up reads.  Nothing is assumed of outages, of restarts   *)
(* or of the connection to geard.                                           *)
Fairness == \A w \in Workers : /\ WF_vars(RetrieverStep(w))
                               /\ WF_vars(ProcessorStep(w))
                               /\ WF_vars(CRMExits(w))
                               /\ WF_vars(Deliver(w))

Spec == Init /\ [][Next]_vars /\ Fairness

-----------------------------------------------------------------------------
(* PROPERTIES *)

(* What worker w has taken on and logstash has not read, oldest first. *)
Pipeline(w) == wire[w] \o hand[w] \o logq[w]
InPipeline(w) == Range(wire[w]) \cup Range(hand[w]) \cup Range(logq[w])

Arrived == received \cup lost
Known == Arrived \cup UNION {InPipeline(w) : w \in Workers}
Accounted(j, r, n) == \E l \in Known : l.job = j /\ l.run = r /\ l.n = n
SameRun(l, m) == l.job = m.job /\ l.run = m.run

(* WorkComplete is sent when the last line is on the queue, long before it  *)
(* reaches logstash.  What it is worth: every line of a completed job has   *)
(* been read by logstash, or is still in a worker, or died with a process   *)
(* or a connection.  None is forgotten on the way, whatever fails.          *)
CompleteIsAccounted ==
    \A c \in completed : \A n \in 1..c.total : Accounted(c.job, c.run, n)

(* The lines of one log keep their order through queue, hand, resend and    *)
(* socket, and none is handed to logstash a second time: what is on its way *)
(* is strictly increasing and beyond all that logstash has read, and a line *)
(* given up for lost is not sent again.                                     *)
InOrderOnce ==
    \A w \in Workers :
        /\ \A i, k \in 1..Len(Pipeline(w)) :
             i < k /\ SameRun(Pipeline(w)[i], Pipeline(w)[k])
                => Pipeline(w)[i].n < Pipeline(w)[k].n
        /\ \A l \in received, m \in InPipeline(w) : SameRun(l, m) => l.n < m.n
        /\ \A l \in lost, m \in InPipeline(w) : SameRun(l, m) => l.n # m.n

(* The filter is dropped at its first failure and never comes back in the   *)
(* same log: the lines with an error_pr are a first part of the log.        *)
ScoredIsPrefix ==
    \A l, m \in Known : SameRun(l, m) /\ l.n < m.n /\ m.scored => l.scored

(* Whatever ended the work on a log, its CRM114 process is gone before the  *)
(* job is answered, so that a worker never has two.                         *)
FilterReapedBeforeAnswer ==
    \A w \in Workers : rpc[w] \in {"idle", "fetch", "filter", "complete", "exception", "off"}
                          => crm[w] = "none" /\ ~active[w]

(* No failure of a filter is felt outside of its log: the lines in front of *)
(* it keep their scores, the next log starts with a process of its own.     *)
FilterIsContained == ScoredIsPrefix /\ FilterReapedBeforeAnswer

(* geard gets at most one answer for every time it hands a job out, and it  *)
(* comes from the worker that has it: nobody is at work for a job geard     *)
(* considers answered, unless the connection was lost.                      *)
OneWorkerPerJob ==
    /\ \A w \in Workers : linked[w] => gearState[job[w]] = "assigned" /\ gearRuns[job[w]] = run[w]
    /\ \A v, w \in Workers : linked[v] /\ linked[w] /\ job[v] = job[w] => v = w

(* "If logstash is not available after 90 seconds we will throw another     *)
(* exception and die": a worker ends itself only if logstash was down after *)
(* the wait, and a restart of logstash during the wait is survived.         *)
DiesOnlyInOutage == \A w \in Workers : ppc[w] = "gaveup" => outage[w]

(* A worker that has taken a job comes to an answer, be it one it fails to  *)
(* send, or ends: neither the full queue, nor a dead filter, nor an outage  *)
(* of logstash blocks it for good.                                          *)
JobsAreAnswered ==
    \A w \in Workers : rpc[w] = "fetch" ~> rpc[w] \in {"idle", "off"}

(* A line that was put on a queue is eventually read by logstash or lost    *)
(* with a process or connection: it does not stay in a worker for ever.     *)
LinesLeave ==
    \A j \in Jobs, r \in 1..MaxRuns, n \in 1..MaxLines :
        LET Among(lines) == \E l \in lines : l.job = j /\ l.run = r /\ l.n = n IN
        (\E w \in Workers : Among(InPipeline(w))) ~> Among(Arrived)

(* Neither a job nor a line stays in a worker for ever. *)
NothingStays == JobsAreAnswered /\ LinesLeave

=============================================================================

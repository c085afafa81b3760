------------------------------ MODULE LogClient ------------------------------
(***************************************************************************)
(* log-gearman-client: turns the events of finished Jenkins builds into    *)
(* gearman jobs, one for every configured file whose filters the build     *)
(* passes.                                                                 *)
(*                                                                         *)
(* For a Jenkins master there are two EventProcessor threads, one for logs *)
(* and one for subunit streams, each with a ZeroMQ subscription of its     *)
(* own and a list of files; they share a gearman client, connected to the  *)
(* geard the same process runs.  Any error while an event is read makes    *)
(* the thread open a new subscription, and an error while it does that     *)
(* ends the thread.  ZeroMQ subscriptions know nothing of the past: what   *)
(* is published while a subscription does not stand, or while its buffer   *)
(* is full, is not delivered, and a closed socket takes its buffer with    *)
(* it.                                                                     *)
(***************************************************************************)
EXTENDS Integers, Sequences, Functions

CONSTANTS Processors,   \* number of EventProcessors, two per Jenkins master
          Files,        \* number of entries of the file list of a processor
          HighWater,    \* events a subscription buffers
          MaxEvents,    \* bound: events published
          MaxBreaks,    \* bound: how often a subscription or geard's connection breaks
          MaxStops      \* bound: how often the client is restarted

ASSUME ClientAssumption ==
    /\ Processors \in Nat \ {0} /\ Files \in Nat /\ HighWater \in Nat \ {0}
    /\ MaxEvents \in Nat /\ MaxBreaks \in Nat /\ MaxStops \in Nat

Proc == 1..Processors
File == 1..Files
Event == 1..MaxEvents

VARIABLES
    published,   \* events the Jenkins master has published
    subscribed,  \* does the subscription of a processor stand
    socket,      \* the events its socket has buffered
    pc,          \* where the thread of a processor is; once it has ended, "dead" if its
                 \* last subscription is still there and "deaf" if it is not, and "gone"
                 \* if the whole process has ended
    event,       \* the event it works on, 0 if none
    next,        \* the file of the list it works on next
    linked,      \* is the gearman client connected to geard
    submitted,   \* the jobs geard has accepted from a processor, in their order
    fate,        \* history: what became of a file of an event in a processor
    erred,       \* history: processors whose recv() has raised
    breaks, stops

netVars == <<published, subscribed>>
threadVars == <<pc, event, next>>
bounds == <<erred, breaks, stops>>
vars == <<netVars, socket, threadVars, linked, submitted, fate, bounds>>

Job == Event \X File

ProcTypeOK ==
    /\ pc \in [Proc -> {"none", "made", "recv", "file", "reconnect", "dead", "deaf", "gone"}]
    /\ event \in [Proc -> Event \cup {0}]
    /\ next \in [Proc -> 1..(Files + 1)]
    /\ \A p \in Proc : (event[p] # 0) <=> (pc[p] = "file")

SocketTypeOK ==
    /\ subscribed \in [Proc -> BOOLEAN]
    /\ socket \in [Proc -> Seq(Event)]
    /\ \A p \in Proc : Len(socket[p]) <= HighWater

(* A file of an event is "coming" until the event is published, "pending"   *)
(* while it waits for the processor, and then submitted, refused by geard   *)
(* (which may have accepted it all the same), not wanted, spoilt by an      *)
(* error in reading the event, or lost before the event was read.           *)
FateTypeOK ==
    fate \in [Proc \X Job -> {"coming", "pending", "submitted", "refused", "unwanted",
                              "spoilt", "lost"}]

TypeOK ==
    /\ published \in 0..MaxEvents
    /\ ProcTypeOK /\ SocketTypeOK /\ FateTypeOK
    /\ linked \in BOOLEAN
    /\ submitted \in [Proc -> Seq(Job)] /\ erred \subseteq Proc
    /\ breaks \in 0..MaxBreaks /\ stops \in 0..MaxStops

Init ==
    /\ published = 0
    /\ subscribed = [p \in Proc |-> FALSE] /\ socket = [p \in Proc |-> <<>>]
    /\ pc = [p \in Proc |-> "none"] /\ event = [p \in Proc |-> 0] /\ next = [p \in Proc |-> 1]
    /\ linked = FALSE
    /\ submitted = [p \in Proc |-> <<>>] /\ erred = {}
    /\ fate = [x \in Proc \X Job |-> "coming"]
    /\ breaks = 0 /\ stops = 0

(* The files of the events in E have come to end s in the processors of P.  *)
Becomes(P, E, s) ==
    fate' = [x \in Proc \X Job |-> IF x[1] \in P /\ x[2][1] \in E /\ fate[x] \in {"coming", "pending"}
                                   THEN s ELSE fate[x]]

In(p) == Range(socket[p])

(* The process ends: what its sockets have buffered and the event a thread  *)
(* works on are gone.                                                       *)
ProcessEnds(s) ==
    /\ fate' = [x \in Proc \X Job |-> IF fate[x] = "pending" THEN "lost" ELSE fate[x]]
    /\ subscribed' = [p \in Proc |-> FALSE] /\ socket' = [p \in Proc |-> <<>>]
    /\ pc' = [p \in Proc |-> s] /\ event' = [p \in Proc |-> 0]
    /\ next' = [p \in Proc |-> 1]
    /\ linked' = FALSE
    /\ UNCHANGED <<published, submitted, erred, breaks>>

-----------------------------------------------------------------------------
(* THE MAIN THREAD: setup_processors, main *)

(* waitForServer(), then EventProcessor(...), which connects to ZeroMQ at   *)
(* once: events are buffered before the thread runs.                        *)
Constructs(p) == pc[p] = "none" /\ (p = 1 => linked) /\ \A q \in 1..(p - 1) : pc[q] = "made"

Make(p) ==
    /\ Constructs(p)
    /\ pc' = [pc EXCEPT ![p] = "made"]
    /\ UNCHANGED <<netVars, socket, event, next, linked, submitted, fate, bounds>>

(* _connect_zmq() raises in the constructor, and so out of main(). *)
MakeFails(p) == Constructs(p) /\ ProcessEnds("gone") /\ UNCHANGED stops

Start(p) ==
    /\ pc[p] = "made" /\ \A q \in Proc : IF q < p THEN pc[q] # "made" ELSE pc[q] = "made"
    /\ pc' = [pc EXCEPT ![p] = "recv"]
    /\ UNCHANGED <<netVars, socket, event, next, linked, submitted, fate, bounds>>

-----------------------------------------------------------------------------
(* AN EVENTPROCESSOR: run, _read_event, _connect_zmq *)

(* socket.recv() and json.loads(), which raises if the event is not JSON. *)
Recv(p) ==
    /\ pc[p] = "recv" /\ socket[p] # <<>>
    /\ socket' = [socket EXCEPT ![p] = Tail(@)]
    /\ \/ /\ Becomes({p}, {Head(socket[p])}, "spoilt")
          /\ pc' = [pc EXCEPT ![p] = "reconnect"]
          /\ UNCHANGED event
       \/ /\ event' = [event EXCEPT ![p] = Head(socket[p])]
          /\ pc' = [pc EXCEPT ![p] = "file"]
          /\ UNCHANGED fate
    /\ UNCHANGED <<netVars, next, linked, submitted, bounds>>

(* recv() raises: the event, if there is one, stays in the socket. *)
RecvFails(p) ==
    /\ pc[p] = "recv" /\ breaks < MaxBreaks
    /\ breaks' = breaks + 1 /\ erred' = erred \cup {p}
    /\ pc' = [pc EXCEPT ![p] = "reconnect"]
    /\ UNCHANGED <<netVars, socket, event, next, linked, submitted, fate, stops>>

(* The thread leaves _read_event. *)
Forget(p) == /\ event' = [event EXCEPT ![p] = 0]
             /\ next' = [next EXCEPT ![p] = 1]

(* Plausible mistakes: the last file is left out; the client reconnects     *)
(* after every event.                                                       *)
ReturnEarly(p) ==
    /\ pc[p] = "file" /\ next[p] >= Files
    /\ pc' = [pc EXCEPT ![p] = "recv"] /\ Forget(p)
    /\ UNCHANGED <<netVars, socket, linked, submitted, fate, bounds>>

ReturnReconnects(p) ==
    /\ pc[p] = "file" /\ next[p] > Files
    /\ pc' = [pc EXCEPT ![p] = "reconnect"] /\ Forget(p)
    /\ UNCHANGED <<netVars, socket, linked, submitted, fate, bounds>>

(* The loop over self.files is through: back to recv(). *)
Return(p) ==
    /\ pc[p] = "file" /\ next[p] > Files
    /\ pc' = [pc EXCEPT ![p] = "recv"] /\ Forget(p)
    /\ UNCHANGED <<netVars, socket, linked, submitted, fate, bounds>>

Current(p) == <<event[p], next[p]>>

(* The current file has come to end s; the loop goes on. *)
Continue(p, s) ==
    /\ pc[p] = "file" /\ next[p] <= Files
    /\ fate' = [fate EXCEPT ![<<p, Current(p)>>] = s]
    /\ next' = [next EXCEPT ![p] = @ + 1]
    /\ UNCHANGED <<netVars, socket, pc, event, linked, bounds>>

(* A plausible mistake: `return' or `break' for `continue'. *)
FilterEnds(p) ==
    /\ pc[p] = "file" /\ next[p] <= Files
    /\ fate' = [fate EXCEPT ![<<p, Current(p)>>] = "unwanted"]
    /\ pc' = [pc EXCEPT ![p] = "recv"] /\ Forget(p)
    /\ UNCHANGED <<netVars, socket, linked, submitted, bounds>>

(* One of the three filters does not match. *)
Filter(p) == Continue(p, "unwanted") /\ UNCHANGED submitted

(* A plausible mistake: a job geard did not answer for is submitted again. *)
SubmitRetries(p) ==
    /\ linked /\ pc[p] = "file" /\ next[p] <= Files
    /\ submitted' = [submitted EXCEPT ![p] = Append(@, Current(p))]
    /\ UNCHANGED <<netVars, socket, pc, event, next, linked, bounds, fate>>

Accept(p) == submitted' = [submitted EXCEPT ![p] = Append(@, Current(p))]

(* submitJob(): geard accepts the job, or it raises, because there is no    *)
(* connection, or the connection breaks or geard is late in answering, with *)
(* the job accepted or not.  The exception is logged and the loop goes on.  *)
Submit(p) ==
    \/ linked /\ Continue(p, "submitted") /\ Accept(p)
    \/ linked /\ Continue(p, "refused") /\ Accept(p)
    \/ Continue(p, "refused") /\ UNCHANGED submitted

(* Anything else in the loop raises, such as a field the event does not     *)
(* have or a null where a filter wants a string: the rest of the files of   *)
(* the event is given up.                                                   *)
Raise(p) ==
    /\ pc[p] = "file" /\ next[p] <= Files
    /\ Becomes({p}, {event[p]}, "spoilt")
    /\ pc' = [pc EXCEPT ![p] = "reconnect"] /\ Forget(p)
    /\ UNCHANGED <<netVars, socket, linked, submitted, bounds>>

(* _connect_zmq(): the old socket goes with all it has buffered.  It is     *)
(* called in the except clause of run(): if setsockopt() or connect() then  *)
(* raises, the thread ends with the new socket unconnected.                 *)
Reconnect(p) ==
    /\ pc[p] = "reconnect"
    /\ \E s \in {"recv", "deaf"} : pc' = [pc EXCEPT ![p] = s]
    /\ Becomes({p}, In(p), "lost")
    /\ socket' = [socket EXCEPT ![p] = <<>>]
    /\ subscribed' = [subscribed EXCEPT ![p] = FALSE]
    /\ UNCHANGED <<published, event, next, linked, submitted, bounds>>

(* Context() or socket() raises, such as when there are no more descriptors *)
(* to be had: the thread ends, and its old socket goes on buffering events  *)
(* nobody reads.                                                            *)
ReconnectFails(p) ==
    /\ pc[p] = "reconnect"
    /\ pc' = [pc EXCEPT ![p] = "dead"]
    /\ UNCHANGED <<netVars, socket, event, next, linked, submitted, fate, bounds>>

Thread(p) == Recv(p) \/ Return(p) \/ Filter(p) \/ Submit(p) \/ Raise(p) \/ Reconnect(p)

-----------------------------------------------------------------------------
(* THE ENVIRONMENT: Jenkins, ZeroMQ, geard, and whoever restarts the client *)

Listening(p) == subscribed[p] /\ Len(socket[p]) < HighWater

Publish ==
    /\ published < MaxEvents
    /\ published' = published + 1
    /\ socket' = [p \in Proc |-> IF Listening(p) THEN Append(socket[p], published') ELSE socket[p]]
    /\ fate' = [x \in Proc \X Job |-> IF x[2][1] # published' THEN fate[x]
                                      ELSE IF Listening(x[1]) THEN "pending" ELSE "lost"]
    /\ UNCHANGED <<subscribed, threadVars, linked, submitted, bounds>>

Subscribe(p) ==
    /\ pc[p] \notin {"none", "reconnect", "deaf", "gone"} /\ ~subscribed[p]
    /\ subscribed' = [subscribed EXCEPT ![p] = TRUE]
    /\ UNCHANGED <<published, socket, threadVars, linked, submitted, fate, bounds>>

BreakSubscription(p) ==
    /\ subscribed[p] /\ breaks < MaxBreaks /\ breaks' = breaks + 1
    /\ subscribed' = [subscribed EXCEPT ![p] = FALSE]
    /\ UNCHANGED <<published, socket, threadVars, linked, submitted, fate, erred, stops>>

Link ==
    /\ ~linked /\ linked' = TRUE
    /\ \A p \in Proc : pc[p] # "gone"
    /\ UNCHANGED <<netVars, socket, threadVars, submitted, fate, bounds>>

BreakLink ==
    /\ linked /\ breaks < MaxBreaks
    /\ linked' = FALSE /\ breaks' = breaks + 1
    /\ UNCHANGED <<netVars, socket, threadVars, submitted, fate, erred, stops>>

(* A change of its configuration restarts the client, and starts one that  *)
(* has ended.                                                              *)
Restart == stops < MaxStops /\ stops' = stops + 1 /\ ProcessEnds("none")

Next == \/ \E p \in Proc : \/ Make(p) \/ MakeFails(p) \/ Start(p)
                           \/ Thread(p) \/ ReconnectFails(p)
                           \/ Subscribe(p) \/ BreakSubscription(p) \/ RecvFails(p)
        \/ Publish \/ Link \/ BreakLink \/ Restart

(* The threads are scheduled; the gearman client, which tries for ever, is  *)
(* connected in the end.                                                    *)
Fairness == /\ WF_vars(Link)
            /\ \A p \in Proc : WF_vars(Make(p) \/ Start(p)) /\ WF_vars(Thread(p))

Spec == Init /\ [][Next]_vars /\ Fairness

-----------------------------------------------------------------------------
(* PROPERTIES *)

(* A file is waited for as long as its event is in the socket or the thread *)
(* has not come to it, and only then: no filter, failure or reconnection    *)
(* makes the loop forget a file or come back to one.                        *)
PendingIsHeld ==
    \A p \in Proc, e \in Event, f \in File :
        fate[<<p, <<e, f>>>>] = "pending" <=> e \in In(p) \/ (event[p] = e /\ next[p] <= f)

Before(a, b) == a[1] < b[1] \/ (a[1] = b[1] /\ a[2] < b[2])

(* The jobs of a processor come to geard in the order of the events and of  *)
(* the file list, and none comes twice, over all reconnections, refused     *)
(* submissions and restarts.                                                *)
InOrderOnce ==
    \A p \in Proc : \A i, j \in DOMAIN submitted[p] :
        i < j => Before(submitted[p][i], submitted[p][j])

(* An event that has arrived is lost only to an error in an earlier event   *)
(* that the same processor has read, short of a restart, the end of the     *)
(* process while it starts or an error of ZeroMQ itself.  The events that   *)
(* are converted "for each log file we care about" are the others.          *)
LossHasCause ==
    [][\A p \in Proc, e \in Event, f \in File :
          /\ fate[<<p, <<e, f>>>>] = "pending" /\ fate'[<<p, <<e, f>>>>] = "lost"
          /\ stops' = stops /\ pc'[p] # "gone"
          => \/ p \in erred
             \/ \E d \in 1..(e - 1), g \in File : fate[<<p, <<d, g>>>>] = "spoilt"]_vars

(* The threads catch up with Jenkins again and again: an error in an event, *)
(* a recv() that raises, a geard that cannot be reached or a restart never  *)
(* stops one of them, and no file of an event stays undecided.  One thing   *)
(* stops them, until the client is restarted: an error in opening the new   *)
(* subscription.  If the old one is still there, its buffer fills.          *)
CatchesUp ==
    \A p \in Proc : []<>(pc[p] = "dead" \/ \A j \in Job : fate[<<p, j>>] # "pending")

=============================================================================

-------------------------- MODULE LogWorker_proof --------------------------
(***************************************************************************)
(* Proofs about LogWorker for any number of jobs, workers, lines, outages  *)
(* and restarts, and any size of the queue and of the socket buffers.      *)
(***************************************************************************)
EXTENDS LogWorkerHandover, SequenceFacts, TLAPS

(* TypeOK is not inductive: that what is put on the queue is a line needs   *)
(* that the loop is inside the log, and that an answer names a job needs    *)
(* that a retriever at work has one.                                        *)
RetrieverOK ==
    \A w \in Workers :
        /\ rpc[w] \notin {"idle", "off"} => job[w] \in Jobs /\ run[w] \in 1..MaxRuns
        /\ rpc[w] \in {"idle", "off"} => ~linked[w]
        /\ rpc[w] \in {"idle", "off", "fetch"} => next[w] = 1 /\ total[w] = 0
        /\ rpc[w] = "filter" => next[w] = 1
        /\ rpc[w] \in {"put", "putScored"} => next[w] <= total[w]
        /\ rpc[w] \in {"reap", "complete"} => next[w] > total[w]
        /\ ppc[w] \in {"off", "gaveup"} <=> rpc[w] = "off"

TypeInv == TypeOK /\ RetrieverOK

(* The types hold at the start. *)
LEMMA InitTypeInv == Init => TypeInv
  BY WorkerAssumption DEF Init, TypeInv, TypeOK, GearTypeOK, RetrieverTypeOK, QueueTypeOK,
     ProcessorTypeOK, SinkTypeOK, RetrieverOK

(* The step that disturbs the queue's type: what is appended is a line.     *)
LEMMA OutEventType ==
  ASSUME TypeInv, NEW w \in Workers, rpc[w] \in {"put", "putScored"}
  PROVE  OutEvent(w) \in Line
  BY WorkerAssumption DEF TypeInv, TypeOK, RetrieverTypeOK, RetrieverOK, OutEvent, Line

(* A step of a retriever keeps them, *)
LEMMA RetrieverStepType ==
  ASSUME TypeInv, NEW w \in Workers, RetrieverStep(w)
  PROVE  TypeInv'
<1> USE WorkerAssumption DEF Goto, gearVars, taskVars, loopVars, filterVars
<1> SUFFICES GearTypeOK' /\ RetrieverTypeOK' /\ QueueTypeOK' /\ RetrieverOK'
  <2>1. RetrieverOnly
    BY DEF RetrieverStep, GetJob, Fetch, CreateFilter, Process, Put, Close, Reap, Reaped,
           WorkComplete, WorkException
  <2>2. ProcessorTypeOK' /\ SinkTypeOK'
    BY <2>1 DEF RetrieverOnly, procVars, sinkVars, TypeInv, TypeOK, ProcessorTypeOK, SinkTypeOK
  <2>3. QED BY <2>2 DEF TypeInv, TypeOK
<1>p. UNCHANGED ppc
  BY DEF RetrieverStep, GetJob, Fetch, CreateFilter, Process, Put, Close, Reap, Reaped,
         WorkComplete, WorkException, RetrieverOnly, procVars
<1>t. GearTypeOK /\ RetrieverTypeOK /\ QueueTypeOK /\ RetrieverOK
  BY DEF TypeInv, TypeOK
<1>1. CASE GetJob(w)
  <2>1. PICK j \in Jobs :
          /\ gearRuns[j] < MaxRuns
          /\ gearState' = [gearState EXCEPT ![j] = "assigned"]
          /\ gearRuns' = [gearRuns EXCEPT ![j] = @ + 1]
          /\ job' = [job EXCEPT ![w] = j]
          /\ run' = [run EXCEPT ![w] = gearRuns[j] + 1]
    BY <1>1 DEF GetJob
  <2>2. /\ rpc[w] = "idle" /\ rpc' = [rpc EXCEPT ![w] = "fetch"]
        /\ linked' = [linked EXCEPT ![w] = TRUE]
        /\ UNCHANGED <<completed, total, next, active, crm, logq>>
    BY <1>1 DEF GetJob
  <2>3. gearRuns[j] + 1 \in 1..MaxRuns
    BY <2>1, <1>t DEF GearTypeOK
  <2>4. GearTypeOK' /\ QueueTypeOK'
    BY <2>1, <2>2, <2>3, <1>t DEF GearTypeOK, QueueTypeOK
  <2>5. RetrieverTypeOK'
    BY <2>1, <2>2, <2>3, <1>t DEF RetrieverTypeOK
  <2>6. RetrieverOK'
    BY <2>1, <2>2, <2>3, <1>t, <1>p DEF RetrieverTypeOK, RetrieverOK
  <2>7. QED BY <2>4, <2>5, <2>6
<1>2. CASE Fetch(w)
  <2>1. PICK n \in 0..MaxLines, pc \in {"complete", "exception", "filter"} :
          /\ rpc' = [rpc EXCEPT ![w] = pc]
          /\ total' = [total EXCEPT ![w] = n]
          /\ pc = "complete" => n = total[w]
    <3>1. total[w] \in 0..MaxLines /\ total = [total EXCEPT ![w] = total[w]]
      BY <1>t DEF RetrieverTypeOK
    <3>2. QED BY <1>2, <3>1 DEF Fetch
  <2>2. rpc[w] = "fetch" /\ UNCHANGED <<gearVars, taskVars, next, filterVars, logq>>
    BY <1>2 DEF Fetch
  <2>3. GearTypeOK' /\ QueueTypeOK'
    BY <2>2, <1>t DEF GearTypeOK, QueueTypeOK
  <2>4. RetrieverTypeOK'
    BY <2>1, <2>2, <1>t DEF RetrieverTypeOK
  <2>5. RetrieverOK'
    BY <2>1, <2>2, <1>t, <1>p DEF RetrieverTypeOK, RetrieverOK
  <2>6. QED BY <2>3, <2>4, <2>5
<1>3. CASE CreateFilter(w)
  <2>1. GearTypeOK' /\ QueueTypeOK'
    BY <1>3, <1>t DEF CreateFilter, GearTypeOK, QueueTypeOK
  <2>2. RetrieverTypeOK'
    BY <1>3, <1>t DEF CreateFilter, RetrieverTypeOK
  <2>3. RetrieverOK'
    BY <1>3, <1>t, <1>p DEF CreateFilter, RetrieverTypeOK, RetrieverOK
  <2>4. QED BY <2>1, <2>2, <2>3
<1>4. CASE Process(w)
  <2>1. GearTypeOK' /\ QueueTypeOK'
    BY <1>4, <1>t DEF Process, GearTypeOK, QueueTypeOK
  <2>2. RetrieverTypeOK'
    BY <1>4, <1>t DEF Process, RetrieverTypeOK
  <2>3. RetrieverOK'
    BY <1>4, <1>t, <1>p DEF Process, RetrieverTypeOK, RetrieverOK
  <2>4. QED BY <2>1, <2>2, <2>3
<1>5. CASE Put(w)
  <2>1. /\ rpc[w] \in {"put", "putScored"} /\ rpc' = [rpc EXCEPT ![w] = "line"]
        /\ next' = [next EXCEPT ![w] = @ + 1]
        /\ UNCHANGED <<gearVars, taskVars, total, filterVars>>
    BY <1>5 DEF Put
  <2>2. /\ logq' = [logq EXCEPT ![w] = Append(@, OutEvent(w))]
        /\ Len(logq[w]) < QueueSize
    BY <1>5 DEF Put
  <2>3. GearTypeOK' /\ QueueTypeOK'
    BY <2>1, <2>2, <1>t, OutEventType DEF GearTypeOK, QueueTypeOK
  <2>4. RetrieverTypeOK'
    BY <2>1, <1>t DEF RetrieverTypeOK, RetrieverOK
  <2>5. RetrieverOK'
    BY <2>1, <1>t, <1>p DEF RetrieverTypeOK, RetrieverOK
  <2>6. QED BY <2>3, <2>4, <2>5
<1>6. CASE Close(w)
  <2>1. GearTypeOK' /\ QueueTypeOK'
    BY <1>6, <1>t DEF Close, LoopIsOver, GearTypeOK, QueueTypeOK
  <2>2. RetrieverTypeOK'
    BY <1>6, <1>t DEF Close, LoopIsOver, RetrieverTypeOK
  <2>3. RetrieverOK'
    BY <1>6, <1>t, <1>p DEF Close, LoopIsOver, RetrieverTypeOK, RetrieverOK
  <2>4. QED BY <2>1, <2>2, <2>3
<1>7. CASE Reap(w)
  <2>1. GearTypeOK' /\ QueueTypeOK'
    BY <1>7, <1>t DEF Reap, Reaped, GearTypeOK, QueueTypeOK
  <2>2. RetrieverTypeOK'
    BY <1>7, <1>t DEF Reap, Reaped, RetrieverTypeOK
  <2>3. RetrieverOK'
    BY <1>7, <1>t, <1>p DEF Reap, Reaped, RetrieverTypeOK, RetrieverOK
  <2>4. QED BY <2>1, <2>2, <2>3
<1>8. CASE WorkComplete(w)
  <2>1. rpc[w] = "complete" /\ job[w] \in Jobs /\ run[w] \in 1..MaxRuns /\ total[w] \in 0..MaxLines
    BY <1>8, <1>t DEF WorkComplete, RetrieverOK, RetrieverTypeOK
  <2>2. GearTypeOK' /\ QueueTypeOK'
    <3>1. \/ Completes(w) /\ UNCHANGED <<gearRuns, logq>>
          \/ UNCHANGED <<gearRuns, gearState, completed, logq>>
      BY <1>8 DEF WorkComplete
    <3>2. CASE Completes(w) /\ UNCHANGED <<gearRuns, logq>>
      BY <2>1, <3>2, <1>t DEF Completes, GearTypeOK, QueueTypeOK
    <3>3. CASE UNCHANGED <<gearRuns, gearState, completed, logq>>
      BY <3>3, <1>t DEF GearTypeOK, QueueTypeOK
    <3>4. QED BY <3>1, <3>2, <3>3
  <2>3. CASE Return(w)
    <3>1. RetrieverTypeOK'
      BY <2>3, <1>t DEF Return, RetrieverTypeOK
    <3>2. RetrieverOK'
      BY <2>1, <2>3, <1>t, <1>p DEF Return, RetrieverTypeOK, RetrieverOK
    <3>3. QED BY <2>2, <3>1, <3>2
  <2>4. CASE rpc' = [rpc EXCEPT ![w] = "exception"] /\ UNCHANGED <<taskVars, loopVars, filterVars>>
    <3>1. RetrieverTypeOK'
      BY <2>4, <1>t DEF RetrieverTypeOK
    <3>2. RetrieverOK'
      BY <2>1, <2>4, <1>t, <1>p DEF RetrieverTypeOK, RetrieverOK
    <3>3. QED BY <2>2, <3>1, <3>2
  <2>5. QED BY <1>8, <2>3, <2>4 DEF WorkComplete
<1>9. CASE WorkException(w)
  <2>1. GearTypeOK' /\ QueueTypeOK'
    BY <1>9, <1>t DEF WorkException, Return, GearTypeOK, QueueTypeOK
  <2>2. RetrieverTypeOK'
    BY <1>9, <1>t DEF WorkException, Return, RetrieverTypeOK
  <2>3. RetrieverOK'
    BY <1>9, <1>t, <1>p DEF WorkException, Return, RetrieverTypeOK, RetrieverOK
  <2>4. QED BY <2>1, <2>2, <2>3
<1>10. QED BY <1>1, <1>2, <1>3, <1>4, <1>5, <1>6, <1>7, <1>8, <1>9 DEF RetrieverStep

(* The end of a process: the only step that disturbs every part.            *)
LEMMA ExitType ==
  ASSUME TypeInv, NEW w \in Workers, NEW state \in {"off", "gaveup"}, Exit(w, state),
         stops' \in 0..MaxStops
  PROVE  TypeInv'
<1> USE WorkerAssumption
<1>t. GearTypeOK /\ RetrieverTypeOK /\ QueueTypeOK /\ ProcessorTypeOK /\ SinkTypeOK /\ RetrieverOK
  BY DEF TypeInv, TypeOK
<1>1. GearTypeOK'
  <2>1. linked[w] => job[w] \in Jobs
    BY <1>t DEF RetrieverOK, RetrieverTypeOK
  <2>2. QED BY <2>1, <1>t DEF Exit, Disconnect, GearTypeOK
<1>2. RetrieverTypeOK'
  BY <1>t DEF Exit, Disconnect, Goto, RetrieverTypeOK
<1>e. <<>> \in Seq(Line) /\ Len(<<>>) = 0
  OBVIOUS
<1>q. QueueTypeOK'
  BY <1>e, <1>t DEF Exit, QueueTypeOK
<1>3. QueueTypeOK' /\ ProcessorTypeOK'
  <2>1. /\ ppc' = [ppc EXCEPT ![w] = state] /\ hand' = [hand EXCEPT ![w] = <<>>]
        /\ sock' = [sock EXCEPT ![w] = "none"] /\ UNCHANGED <<wire, outage>>
    BY DEF Exit
  <2>2. ASSUME NEW v \in Workers
        PROVE  Len(hand'[v]) = IF ppc'[v] \in {"get", "off", "gaveup"} THEN 0 ELSE 1
    <3>1. CASE v = w
      BY <2>1, <3>1, <1>e, <1>t DEF ProcessorTypeOK
    <3>2. CASE v # w
      BY <2>1, <3>2, <1>t DEF ProcessorTypeOK
    <3>3. QED BY <3>1, <3>2
  <2>3. /\ ppc' \in [Workers -> {"get", "send", "wait", "reconnect", "resend", "off", "gaveup"}]
        /\ hand' \in [Workers -> Seq(Line)]
        /\ sock' \in [Workers -> {"none", "open", "stale", "broken"}]
        /\ wire' \in [Workers -> Seq(Line)]
        /\ outage' \in [Workers -> BOOLEAN]
    BY <2>1, <1>e, <1>t DEF ProcessorTypeOK
  <2>4. QED BY <2>2, <2>3, <1>q DEF ProcessorTypeOK
<1>4. Range(logq[w]) \subseteq Line /\ Range(hand[w]) \subseteq Line
  BY <1>t DEF Range, QueueTypeOK, ProcessorTypeOK
<1>5. SinkTypeOK'
  BY <1>4, <1>t DEF Exit, SinkTypeOK
<1>6. RetrieverOK'
  BY <1>t DEF Exit, Disconnect, Goto, RetrieverOK, RetrieverTypeOK, ProcessorTypeOK
<1>7. QED BY <1>1, <1>2, <1>3, <1>5, <1>6 DEF TypeInv, TypeOK

(* a step of a processor, *)
LEMMA ProcessorStepType ==
  ASSUME TypeInv, NEW w \in Workers, ProcessorStep(w)
  PROVE  TypeInv'
<1> USE WorkerAssumption
<1>t. GearTypeOK /\ RetrieverTypeOK /\ QueueTypeOK /\ ProcessorTypeOK /\ SinkTypeOK /\ RetrieverOK
  BY DEF TypeInv, TypeOK
<1>1. CASE GiveUp(w)
  <2>1. Exit(w, "gaveup") /\ stops' \in 0..MaxStops
    BY <1>1, <1>t DEF GiveUp, SinkTypeOK
  <2>2. QED BY <2>1, ExitType
<1>2. CASE ~GiveUp(w)
  <2>1. UNCHANGED <<gearVars, retrieverVars, stops, logstash, received, outages>>
    BY <1>2 DEF ProcessorStep, Take, Connect, Send, Sent, SendFails, Wait90, Reconnect, ProcessorOnly
  <2>2. GearTypeOK' /\ RetrieverTypeOK'
    BY <2>1, <1>t DEF gearVars, retrieverVars, taskVars, loopVars, filterVars,
                      GearTypeOK, RetrieverTypeOK
  <2>3. /\ ppc[w] \notin {"off", "gaveup"} /\ ppc'[w] \notin {"off", "gaveup"}
        /\ \A v \in Workers \ {w} : ppc'[v] = ppc[v]
    BY <1>2, <1>t DEF ProcessorStep, Take, Connect, Send, Sent, SendFails, Wait90, Reconnect,
                      ProcessorTypeOK
  <2>4. RetrieverOK'
    BY <2>1, <2>3, <1>t DEF retrieverVars, taskVars, loopVars, RetrieverOK
  <2>5. SUFFICES QueueTypeOK' /\ ProcessorTypeOK' /\ SinkTypeOK'
    BY <2>2, <2>4 DEF TypeInv, TypeOK
  <2>6. CASE Take(w)
    <3>1. Head(logq[w]) \in Line /\ Tail(logq[w]) \in Seq(Line) /\ Len(Tail(logq[w])) <= QueueSize
      BY <2>6, <1>t DEF Take, QueueTypeOK
    <3>2. QueueTypeOK'
      BY <2>6, <3>1, <1>t DEF Take, QueueTypeOK
    <3>3. <<Head(logq[w])>> \in Seq(Line) /\ Len(<<Head(logq[w])>>) = 1
      BY <3>1
    <3>4. ProcessorTypeOK'
      BY <2>6, <3>3, <1>t DEF Take, ProcessorTypeOK
    <3>5. SinkTypeOK'
      BY <2>1, <2>6, <1>t DEF Take, SinkTypeOK
    <3>6. QED BY <3>2, <3>4, <3>5
  <2>7. CASE Connect(w)
    <3>1. ProcessorTypeOK'
      BY <2>7, <1>t DEF Connect, ProcessorTypeOK
    <3>2. QED BY <2>1, <2>7, <3>1, <1>t DEF Connect, QueueTypeOK, SinkTypeOK
  <2>8. CASE Send(w)
    <3>0. hand[w] \in Seq(Line) /\ Len(hand[w]) = 1 /\ ppc[w] \in {"send", "resend"}
      BY <2>8, <1>t DEF Send, ProcessorTypeOK
    <3>1. hand[w][1] \in Line
      BY <3>0
    <3>2. Range(hand[w]) \subseteq Line
      BY <1>t DEF Range, ProcessorTypeOK
    <3>w. wire \in [Workers -> Seq(Line)]
      BY <1>t DEF ProcessorTypeOK
    <3>s. wire' = [wire EXCEPT ![w] = Append(@, hand[w][1])] \/ wire' = wire
      BY <2>8 DEF Send
    <3>a. wire' \in [Workers -> Seq(Line)]
      <4>1. wire[w] \in Seq(Line)
        BY <3>w
      <4>2. Append(wire[w], hand[w][1]) \in Seq(Line)
        BY <3>1, <4>1
      <4>3. QED BY <3>w, <3>s, <4>2
    <3>b. hand' = [hand EXCEPT ![w] = <<>>] /\ <<>> \in Seq(Line) /\ Len(<<>>) = 0
      BY <2>8 DEF Send, Sent
    <3>c. /\ hand' \in [Workers -> Seq(Line)] /\ sock' = sock /\ outage' = outage
          /\ ppc' = [ppc EXCEPT ![w] = "get"]
      BY <2>8, <3>b, <1>t DEF Send, Sent, ProcessorTypeOK
    <3>3. ProcessorTypeOK'
      <4>1. ASSUME NEW v \in Workers
            PROVE  Len(hand'[v]) = IF ppc'[v] \in {"get", "off", "gaveup"} THEN 0 ELSE 1
        <5>1. CASE v = w
          BY <3>b, <3>c, <5>1, <1>t DEF ProcessorTypeOK
        <5>2. CASE v # w
          BY <3>b, <3>c, <5>2, <1>t DEF ProcessorTypeOK
        <5>3. QED BY <5>1, <5>2
      <4>2. ppc' \in [Workers -> {"get", "send", "wait", "reconnect", "resend", "off", "gaveup"}]
        BY <3>c, <1>t DEF ProcessorTypeOK
      <4>3. QED BY <3>a, <3>c, <4>1, <4>2, <1>t DEF ProcessorTypeOK
    <3>4. QED BY <2>1, <2>8, <3>2, <3>3, <1>t DEF Send, Sent, QueueTypeOK, SinkTypeOK
  <2>9. CASE SendFails(w)
    <3>1. ProcessorTypeOK'
      BY <2>9, <1>t DEF SendFails, ProcessorTypeOK
    <3>2. QED BY <2>1, <2>9, <3>1, <1>t DEF SendFails, QueueTypeOK, SinkTypeOK
  <2>10. CASE Wait90(w)
    <3>1. ProcessorTypeOK'
      BY <2>10, <1>t DEF Wait90, ProcessorTypeOK, SinkTypeOK
    <3>2. QED BY <2>1, <2>10, <3>1, <1>t DEF Wait90, QueueTypeOK, SinkTypeOK
  <2>11. CASE Reconnect(w)
    <3>1. ProcessorTypeOK'
      BY <2>11, <1>t DEF Reconnect, ProcessorTypeOK
    <3>2. QED BY <2>1, <2>11, <3>1, <1>t DEF Reconnect, QueueTypeOK, SinkTypeOK
  <2>12. QED BY <1>2, <2>6, <2>7, <2>8, <2>9, <2>10, <2>11 DEF ProcessorStep
<1>3. QED BY <1>1, <1>2

(* and a step of gearman, of crm114, of logstash or of the operator. *)
LEMMA EnvironmentStepType ==
  ASSUME TypeInv,
         \/ \E w \in Workers : \/ Stop(w) \/ Start(w) \/ LoseGeard(w)
                               \/ CRMDies(w) \/ CRMExits(w) \/ Deliver(w)
         \/ LogstashDies \/ LogstashStarts
  PROVE  TypeInv'
<1> USE WorkerAssumption
<1> USE DEF Goto, gearVars, retrieverVars, taskVars, loopVars, filterVars, procVars, sinkVars
<1>t. GearTypeOK /\ RetrieverTypeOK /\ QueueTypeOK /\ ProcessorTypeOK /\ SinkTypeOK /\ RetrieverOK
  BY DEF TypeInv, TypeOK
<1>1. ASSUME NEW w \in Workers, Stop(w) PROVE TypeInv'
  <2>1. Exit(w, "off") /\ stops' \in 0..MaxStops
    BY <1>1, <1>t DEF Stop, SinkTypeOK
  <2>2. QED BY <2>1, ExitType
<1>2. ASSUME NEW w \in Workers, Start(w) PROVE TypeInv'
  <2>1. GearTypeOK' /\ QueueTypeOK' /\ SinkTypeOK'
    BY <1>2, <1>t DEF Start, GearTypeOK, QueueTypeOK, SinkTypeOK
  <2>2. RetrieverTypeOK' /\ ProcessorTypeOK'
    BY <1>2, <1>t DEF Start, RetrieverTypeOK, ProcessorTypeOK
  <2>3. RetrieverOK'
    BY <1>2, <1>t DEF Start, RetrieverTypeOK, ProcessorTypeOK, RetrieverOK
  <2>4. QED BY <2>1, <2>2, <2>3 DEF TypeInv, TypeOK
<1>3. ASSUME NEW w \in Workers, LoseGeard(w) PROVE TypeInv'
  <2>1. job[w] \in Jobs
    BY <1>3, <1>t DEF LoseGeard, RetrieverOK, RetrieverTypeOK
  <2>2. GearTypeOK' /\ QueueTypeOK' /\ ProcessorTypeOK' /\ SinkTypeOK'
    <3>1. GearTypeOK'
      BY <1>3, <2>1, <1>t DEF LoseGeard, Disconnect, GearTypeOK
    <3>2. QueueTypeOK'
      BY <1>3, <1>t DEF LoseGeard, QueueTypeOK
    <3>3. ProcessorTypeOK' /\ SinkTypeOK'
      BY <1>3, <1>t DEF LoseGeard, RetrieverOnly, ProcessorTypeOK, SinkTypeOK
    <3> QED BY <3>1, <3>2, <3>3
  <2>3. RetrieverTypeOK' /\ RetrieverOK'
    BY <1>3, <1>t DEF LoseGeard, Disconnect, RetrieverOnly, RetrieverTypeOK, RetrieverOK
  <2>4. QED BY <2>2, <2>3 DEF TypeInv, TypeOK
<1>4. ASSUME NEW w \in Workers, CRMDies(w) \/ CRMExits(w) PROVE TypeInv'
  <2>1. GearTypeOK' /\ QueueTypeOK' /\ ProcessorTypeOK' /\ SinkTypeOK'
    BY <1>4, <1>t DEF CRMDies, CRMExits, RetrieverOnly, GearTypeOK, QueueTypeOK,
                      ProcessorTypeOK, SinkTypeOK
  <2>2. RetrieverTypeOK' /\ RetrieverOK'
    BY <1>4, <1>t DEF CRMDies, CRMExits, RetrieverOnly, RetrieverTypeOK, RetrieverOK
  <2>3. QED BY <2>1, <2>2 DEF TypeInv, TypeOK
<1>5. ASSUME NEW w \in Workers, Deliver(w) PROVE TypeInv'
  <2>1. Head(wire[w]) \in Line /\ Tail(wire[w]) \in Seq(Line)
    BY <1>5, <1>t DEF Deliver, ProcessorTypeOK
  <2>2. ProcessorTypeOK' /\ SinkTypeOK'
    BY <1>5, <2>1, <1>t DEF Deliver, ProcessorTypeOK, SinkTypeOK
  <2>3. GearTypeOK' /\ QueueTypeOK' /\ RetrieverTypeOK' /\ RetrieverOK'
    BY <1>5, <1>t DEF Deliver, GearTypeOK, QueueTypeOK, RetrieverTypeOK, RetrieverOK
  <2>4. QED BY <2>2, <2>3 DEF TypeInv, TypeOK
<1>6. CASE LogstashDies
  <2>1. UNION {Range(wire[w]) : w \in Workers} \subseteq Line
    BY <1>t DEF Range, ProcessorTypeOK
  <2>2. SinkTypeOK'
    <3> DEFINE inFlight == UNION {Range(wire[w]) : w \in Workers}
    <3>1. lost' = lost \cup inFlight /\ inFlight \subseteq Line
      BY <1>6, <2>1 DEF LogstashDies
    <3>2. outages' \in 0..MaxOutages /\ UNCHANGED <<received, stops>> /\ logstash' = FALSE
      BY <1>6, <1>t DEF LogstashDies, SinkTypeOK
    <3> HIDE DEF inFlight
    <3>3. QED BY <3>1, <3>2, <1>t DEF SinkTypeOK
  <2>3. ProcessorTypeOK'
    BY <1>6, <1>t DEF LogstashDies, ProcessorTypeOK
  <2>4. GearTypeOK' /\ QueueTypeOK' /\ RetrieverTypeOK' /\ RetrieverOK'
    BY <1>6, <1>t DEF LogstashDies, GearTypeOK, QueueTypeOK, RetrieverTypeOK, RetrieverOK
  <2>5. QED BY <2>2, <2>3, <2>4 DEF TypeInv, TypeOK
<1>7. CASE LogstashStarts
  <2>1. ProcessorTypeOK' /\ SinkTypeOK'
    BY <1>7, <1>t DEF LogstashStarts, ProcessorTypeOK, SinkTypeOK
  <2>2. GearTypeOK' /\ QueueTypeOK' /\ RetrieverTypeOK' /\ RetrieverOK'
    BY <1>7, <1>t DEF LogstashStarts, GearTypeOK, QueueTypeOK, RetrieverTypeOK, RetrieverOK
  <2>3. QED BY <2>1, <2>2 DEF TypeInv, TypeOK
<1>8. QED BY <1>1, <1>2, <1>3, <1>4, <1>5, <1>6, <1>7

(* So every step does. *)
LEMMA StepTypeInv == TypeInv /\ [Next]_vars => TypeInv'
<1> SUFFICES ASSUME TypeInv, [Next]_vars PROVE TypeInv'
  OBVIOUS
<1>1. CASE UNCHANGED vars
  BY <1>1 DEF vars, gearVars, retrieverVars, taskVars, loopVars, filterVars, procVars, sinkVars,
     TypeInv, TypeOK, GearTypeOK, RetrieverTypeOK, QueueTypeOK, ProcessorTypeOK, SinkTypeOK,
     RetrieverOK
<1>2. CASE Next
  BY <1>2, RetrieverStepType, ProcessorStepType, EnvironmentStepType DEF Next
<1>3. QED BY <1>1, <1>2

(* Every state is well typed: no queue outgrows its maximum, and every line *)
(* on its way belongs to a job that was handed out.                         *)
THEOREM TypeCorrect == Spec => []TypeOK
<1>1. TypeInv => TypeOK
  BY DEF TypeInv
<1>2. QED BY InitTypeInv, StepTypeInv, <1>1, PTL DEF Spec

-----------------------------------------------------------------------------
(* Nothing is forgotten.                                                    *)

(* What the parts of the pipeline hold, as a step leaves them.              *)
LEMMA KnownKept ==
  ASSUME received \subseteq received', lost \subseteq lost',
         \A w \in Workers : InPipeline(w) \subseteq InPipeline(w)' \cup received' \cup lost'
  PROVE  Known \subseteq Known'
  BY DEF Known, Arrived

(* Whatever a step does, a line that was on a queue is afterwards still in  *)
(* the worker, on the wire, in logstash or in the record of the losses.     *)
LEMMA NothingForgotten ==
  ASSUME TypeInv, [Next]_vars
  PROVE  Known \subseteq Known'
<1>t. /\ logq \in [Workers -> Seq(Line)] /\ hand \in [Workers -> Seq(Line)]
      /\ wire \in [Workers -> Seq(Line)]
      /\ \A w \in Workers : Len(hand[w]) = IF ppc[w] \in {"get", "off", "gaveup"} THEN 0 ELSE 1
  BY DEF TypeInv, TypeOK, QueueTypeOK, ProcessorTypeOK
<1>u. ASSUME UNCHANGED <<logq, hand, wire, received, lost>> PROVE Known \subseteq Known'
  BY <1>u DEF Known, Arrived, InPipeline
<1>1. CASE UNCHANGED vars
  BY <1>1, <1>u DEF vars, procVars, sinkVars
<1>2. ASSUME NEW w \in Workers, RetrieverStep(w) PROVE Known \subseteq Known'
  <2>1. UNCHANGED <<hand, wire, received, lost>>
    BY <1>2 DEF RetrieverStep, GetJob, Fetch, CreateFilter, Process, Put, Close, Reap, Reaped,
                WorkComplete, WorkException, RetrieverOnly, procVars, sinkVars
  <2>2. CASE Put(w)
    <3>1. logq' = [logq EXCEPT ![w] = Append(logq[w], OutEvent(w))]
      BY <2>2 DEF Put
    <3>2. Range(logq[w]) \subseteq Range(logq'[w])
      BY <3>1, <1>t, RangeOfAppend
    <3>3. \A v \in Workers : Range(logq[v]) \subseteq Range(logq'[v])
      BY <3>1, <3>2, <1>t
    <3>4. QED BY <2>1, <3>3, KnownKept DEF InPipeline
  <2>3. CASE ~Put(w)
    <3>1. UNCHANGED logq
      BY <1>2, <2>3 DEF RetrieverStep, GetJob, Fetch, CreateFilter, Process, Close, Reap, Reaped,
                WorkComplete, WorkException
    <3>2. QED BY <2>1, <3>1, <1>u
  <2>4. QED BY <2>2, <2>3
<1>3. ASSUME NEW w \in Workers, NEW state, Exit(w, state) PROVE Known \subseteq Known'
  <2>1. /\ logq' = [logq EXCEPT ![w] = <<>>] /\ hand' = [hand EXCEPT ![w] = <<>>]
        /\ lost' = lost \cup Range(logq[w]) \cup Range(hand[w])
        /\ UNCHANGED <<wire, received>>
    BY <1>3 DEF Exit
  <2>2. ASSUME NEW v \in Workers
        PROVE  InPipeline(v) \subseteq InPipeline(v)' \cup received' \cup lost'
    <3>1. CASE v = w
      BY <2>1, <3>1 DEF InPipeline
    <3>2. CASE v # w
      BY <2>1, <3>2, <1>t DEF InPipeline
    <3>3. QED BY <3>1, <3>2
  <2>3. QED BY <2>1, <2>2, KnownKept
<1>4. ASSUME NEW w \in Workers, ProcessorStep(w) PROVE Known \subseteq Known'
  <2>1. CASE Take(w)
    <3>1. /\ hand' = [hand EXCEPT ![w] = <<Head(logq[w])>>]
          /\ logq' = [logq EXCEPT ![w] = Tail(logq[w])] /\ logq[w] # <<>>
          /\ ppc[w] = "get" /\ UNCHANGED <<wire, received, lost>>
      BY <2>1 DEF Take, ProcessorOnly
    <3>2. Range(logq[w]) = Range(logq'[w]) \cup {Head(logq[w])}
      BY <3>1, <1>t, RangeOfTail
    <3>3. Range(hand[w]) = {}
      BY <3>1, <1>t DEF Range
    <3>4. hand'[w] = <<Head(logq[w])>>
      BY <3>1, <1>t
    <3>5. Head(logq[w]) \in Range(hand'[w])
      BY <3>4 DEF Range
    <3>6. \A v \in Workers : v # w => logq'[v] = logq[v] /\ hand'[v] = hand[v]
      BY <3>1, <1>t
    <3>7. \A v \in Workers : InPipeline(v) \subseteq InPipeline(v)'
      BY <3>1, <3>2, <3>3, <3>5, <3>6 DEF InPipeline
    <3>8. QED BY <3>1, <3>7, KnownKept
  <2>2. CASE Send(w)
    <3>1. /\ hand' = [hand EXCEPT ![w] = <<>>] /\ UNCHANGED <<logq, received>>
          /\ ppc[w] \in {"send", "resend"}
          /\ \/ wire' = [wire EXCEPT ![w] = Append(wire[w], hand[w][1])] /\ lost' = lost
             \/ lost' = lost \cup Range(hand[w]) /\ wire' = wire
      BY <2>2 DEF Send, Sent, ProcessorOnly
    <3>2. Range(hand[w]) = {hand[w][1]}
      <4>1. hand[w] \in Seq(Line) /\ Len(hand[w]) = 1
        BY <3>1, <1>t
      <4>2. DOMAIN hand[w] = {1}
        BY <4>1
      <4>3. QED BY <4>2 DEF Range
    <3>3. CASE wire' = [wire EXCEPT ![w] = Append(wire[w], hand[w][1])] /\ lost' = lost
      <4>1. wire'[w] = Append(wire[w], hand[w][1]) /\ wire[w] \in Seq(Line)
        BY <3>3, <1>t
      <4>2. Range(wire'[w]) = Range(wire[w]) \cup Range(hand[w])
        BY <3>2, <4>1, RangeOfAppend
      <4>3. \A v \in Workers : v # w => wire'[v] = wire[v] /\ hand'[v] = hand[v]
        BY <3>1, <3>3, <1>t
      <4>4. \A v \in Workers : InPipeline(v) \subseteq InPipeline(v)'
        BY <3>1, <4>2, <4>3 DEF InPipeline
      <4>5. QED BY <3>1, <3>3, <4>4, KnownKept
    <3>4. CASE lost' = lost \cup Range(hand[w]) /\ wire' = wire
      <4>1. \A v \in Workers : v # w => hand'[v] = hand[v]
        BY <3>1, <1>t
      <4>2. \A v \in Workers : InPipeline(v) \subseteq InPipeline(v)' \cup lost'
        BY <3>1, <3>4, <4>1 DEF InPipeline
      <4>3. QED BY <3>1, <3>4, <4>2, KnownKept
    <3>5. QED BY <3>1, <3>3, <3>4
  <2>3. CASE Connect(w) \/ SendFails(w) \/ Wait90(w) \/ Reconnect(w)
    BY <2>3, <1>u DEF Connect, SendFails, Wait90, Reconnect, ProcessorOnly
  <2>4. CASE GiveUp(w)
    BY <2>4, <1>3 DEF GiveUp
  <2>5. QED BY <1>4, <2>1, <2>2, <2>3, <2>4 DEF ProcessorStep
<1>5. ASSUME NEW w \in Workers, Start(w) \/ LoseGeard(w) \/ CRMDies(w) \/ CRMExits(w)
      PROVE  Known \subseteq Known'
  BY <1>5, <1>u DEF Start, LoseGeard, CRMDies, CRMExits, RetrieverOnly, procVars, sinkVars
<1>6. ASSUME NEW w \in Workers, Stop(w) PROVE Known \subseteq Known'
  BY <1>6, <1>3 DEF Stop
<1>7. ASSUME NEW w \in Workers, Deliver(w) PROVE Known \subseteq Known'
  <2>1. /\ wire[w] # <<>> /\ wire' = [wire EXCEPT ![w] = Tail(wire[w])]
        /\ received' = received \cup {Head(wire[w])} /\ UNCHANGED <<logq, hand, lost>>
    BY <1>7 DEF Deliver
  <2>2. Range(wire[w]) = Range(wire'[w]) \cup {Head(wire[w])}
    BY <2>1, <1>t, RangeOfTail
  <2>3. \A v \in Workers : v # w => wire'[v] = wire[v]
    BY <2>1, <1>t
  <2>4. \A v \in Workers : InPipeline(v) \subseteq InPipeline(v)' \cup received'
    BY <2>1, <2>2, <2>3 DEF InPipeline
  <2>5. QED BY <2>1, <2>4, KnownKept
<1>8. CASE LogstashDies
  <2>1. /\ lost' = lost \cup UNION {Range(wire[w]) : w \in Workers}
        /\ UNCHANGED <<logq, hand, received>>
    BY <1>8 DEF LogstashDies
  <2>2. \A v \in Workers : InPipeline(v) \subseteq InPipeline(v)' \cup lost'
    BY <2>1 DEF InPipeline
  <2>3. QED BY <2>1, <2>2, KnownKept
<1>9. CASE LogstashStarts
  BY <1>9, <1>u DEF LogstashStarts, procVars
<1>10. QED BY <1>1, <1>2, <1>4, <1>5, <1>6, <1>7, <1>8, <1>9 DEF Next

(* The strengthening behind CompleteIsAccounted: at every moment of the     *)
(* loop the lines before the current one are accounted for.                 *)
LoopAccounted ==
    \A w \in Workers : \A n \in 1..(next[w] - 1) : Accounted(job[w], run[w], n)

AccountInv == TypeInv /\ LoopAccounted /\ CompleteIsAccounted

(* At the start nothing has been completed. *)
LEMMA InitAccount == Init => AccountInv
<1> SUFFICES ASSUME Init PROVE AccountInv
  OBVIOUS
<1>1. TypeInv
  BY InitTypeInv
<1>2. LoopAccounted
  BY DEF Init, LoopAccounted
<1>3. CompleteIsAccounted
  BY DEF Init, CompleteIsAccounted
<1>4. QED BY <1>1, <1>2, <1>3 DEF AccountInv

(* How the loop's position changes: it stays, it starts over, or a line was *)
(* put on the queue.                                                        *)
LEMMA LoopMoves ==
  ASSUME TypeInv, [Next]_vars, NEW v \in Workers
  PROVE  \/ UNCHANGED <<job[v], run[v], next[v]>>
         \/ next'[v] = 1
         \/ Put(v) /\ UNCHANGED <<job[v], run[v]>> /\ next'[v] = next[v] + 1
<1>t. /\ job \in [Workers -> Jobs \cup {NoJob}] /\ run \in [Workers -> 0..MaxRuns]
      /\ next \in [Workers -> 1..(MaxLines + 1)]
      /\ \A w \in Workers : rpc[w] = "idle" => next[w] = 1
  BY DEF TypeInv, TypeOK, RetrieverTypeOK, RetrieverOK
<1>u. ASSUME UNCHANGED <<job, run, next>>
      PROVE  UNCHANGED <<job[v], run[v], next[v]>>
  BY <1>u
<1>1. CASE UNCHANGED vars
  BY <1>1, <1>u DEF vars, retrieverVars, taskVars, loopVars
<1>2. ASSUME NEW w \in Workers, GetJob(w) \/ Put(w)
      PROVE  \/ UNCHANGED <<job[v], run[v], next[v]>>
             \/ next'[v] = 1
             \/ Put(v) /\ UNCHANGED <<job[v], run[v]>> /\ next'[v] = next[v] + 1
  <2>1. CASE GetJob(w)
    <3>1. PICK j \in Jobs : /\ job' = [job EXCEPT ![w] = j]
                            /\ run' = [run EXCEPT ![w] = gearRuns[j] + 1]
      BY <2>1 DEF GetJob
    <3>2. rpc[w] = "idle" /\ UNCHANGED next
      BY <2>1 DEF GetJob, loopVars
    <3>3. QED BY <3>1, <3>2, <1>t
  <2>2. CASE Put(w)
    <3>1. UNCHANGED <<job, run>> /\ next' = [next EXCEPT ![w] = @ + 1]
      BY <2>2 DEF Put, taskVars
    <3>2. QED BY <2>2, <3>1, <1>t
  <2>3. QED BY <1>2, <2>1, <2>2
<1>3. ASSUME NEW w \in Workers, Fetch(w) \/ CreateFilter(w) \/ Process(w) \/ Close(w) \/ Reap(w)
      PROVE  UNCHANGED <<job[v], run[v], next[v]>>
  BY <1>3, <1>u DEF Fetch, CreateFilter, Process, Close, Reap, Reaped, taskVars, loopVars
<1>4. ASSUME NEW w \in Workers, WorkComplete(w) \/ WorkException(w)
      PROVE  UNCHANGED <<job[v], run[v], next[v]>> \/ next'[v] = 1
  <2>1. \/ UNCHANGED <<job, run, next>>
        \/ /\ job' = [job EXCEPT ![w] = NoJob] /\ run' = [run EXCEPT ![w] = 0]
           /\ next' = [next EXCEPT ![w] = 1]
    BY <1>4 DEF WorkComplete, WorkException, Return, taskVars, loopVars
  <2>2. QED BY <2>1, <1>t
<1>5. ASSUME NEW w \in Workers, NEW state, Exit(w, state)
      PROVE  UNCHANGED <<job[v], run[v], next[v]>> \/ next'[v] = 1
  <2>1. /\ job' = [job EXCEPT ![w] = NoJob] /\ run' = [run EXCEPT ![w] = 0]
        /\ next' = [next EXCEPT ![w] = 1]
    BY <1>5 DEF Exit
  <2>2. QED BY <2>1, <1>t
<1>6. ASSUME NEW w \in Workers, ProcessorStep(w)
      PROVE  UNCHANGED <<job[v], run[v], next[v]>> \/ next'[v] = 1
  <2>1. CASE GiveUp(w)
    BY <2>1, <1>5 DEF GiveUp
  <2>2. CASE ~GiveUp(w)
    BY <1>6, <2>2, <1>u DEF ProcessorStep, Take, Connect, Send, Sent, SendFails, Wait90, Reconnect,
                            ProcessorOnly, retrieverVars, taskVars, loopVars
  <2>3. QED BY <2>1, <2>2
<1>7. ASSUME NEW w \in Workers, Stop(w)
      PROVE  UNCHANGED <<job[v], run[v], next[v]>> \/ next'[v] = 1
  BY <1>7, <1>5 DEF Stop
<1>8. ASSUME NEW w \in Workers,
             Start(w) \/ LoseGeard(w) \/ CRMDies(w) \/ CRMExits(w) \/ Deliver(w)
      PROVE  UNCHANGED <<job[v], run[v], next[v]>>
  BY <1>8, <1>u DEF Start, LoseGeard, CRMDies, CRMExits, Deliver, retrieverVars, taskVars, loopVars
<1>9. CASE LogstashDies \/ LogstashStarts
  BY <1>9, <1>u DEF LogstashDies, LogstashStarts, retrieverVars, taskVars, loopVars
<1>10. QED BY <1>1, <1>2, <1>3, <1>4, <1>6, <1>7, <1>8, <1>9 DEF Next, RetrieverStep

(* The line a Put is about is accounted for when it is done.                *)
LEMMA PutAccounts ==
  ASSUME TypeInv, NEW w \in Workers, Put(w)
  PROVE  \E l \in Known' : l.job = job[w] /\ l.run = run[w] /\ l.n = next[w]
<1>1. logq' = [logq EXCEPT ![w] = Append(logq[w], OutEvent(w))]
  BY DEF Put
<1>2. logq \in [Workers -> Seq(Line)]
  BY DEF TypeInv, TypeOK, QueueTypeOK
<1>3. OutEvent(w) \in Range(logq'[w])
  BY <1>1, <1>2, RangeOfAppend
<1>4. OutEvent(w) \in Known'
  BY <1>3 DEF Known, InPipeline
<1>5. OutEvent(w).job = job[w] /\ OutEvent(w).run = run[w] /\ OutEvent(w).n = next[w]
  BY DEF OutEvent
<1>6. QED BY <1>4, <1>5

(* What geard newly takes for completed.                                    *)
LEMMA NewlyCompleted ==
  ASSUME TypeInv, [Next]_vars, NEW c \in completed', c \notin completed
  PROVE  \E w \in Workers : /\ rpc[w] = "complete"
                            /\ c = [job |-> job[w], run |-> run[w], total |-> total[w]]
<1>1. ASSUME UNCHANGED completed PROVE FALSE
  BY <1>1
<1>2. PICK w \in Workers : WorkComplete(w)
  BY <1>1 DEF Next, vars, gearVars, RetrieverStep, GetJob, Fetch, CreateFilter, Process, Put, Close,
     Reap, Reaped, WorkException, ProcessorStep, Take, Connect, Send, Sent, SendFails, Wait90,
     Reconnect, GiveUp, Exit, Stop, Start, LoseGeard, CRMDies, CRMExits, Deliver, LogstashDies,
     LogstashStarts, ProcessorOnly
<1>3. completed' = completed \cup {[job |-> job[w], run |-> run[w], total |-> total[w]]}
  BY <1>1, <1>2 DEF WorkComplete, Completes
<1>4. QED BY <1>2, <1>3 DEF WorkComplete

(* Every step keeps the account of the lines of a completed run. *)
LEMMA StepAccount == AccountInv /\ [Next]_vars => AccountInv'
<1> SUFFICES ASSUME AccountInv, [Next]_vars PROVE AccountInv'
  OBVIOUS
<1>1. TypeInv /\ TypeInv'
  BY StepTypeInv DEF AccountInv
<1>2. ASSUME NEW j, NEW r, NEW n, Accounted(j, r, n)
      PROVE  \E l \in Known' : l.job = j /\ l.run = r /\ l.n = n
  BY <1>1, <1>2, NothingForgotten DEF Accounted
<1>3. LoopAccounted'
  <2>1. SUFFICES ASSUME NEW v \in Workers, NEW n \in 1..(next'[v] - 1)
                 PROVE  \E l \in Known' : l.job = job'[v] /\ l.run = run'[v] /\ l.n = n
    BY DEF LoopAccounted, Accounted
  <2>2. next[v] \in Nat
    BY <1>1 DEF TypeInv, TypeOK, RetrieverTypeOK
  <2>3. \A m \in 1..(next[v] - 1) : Accounted(job[v], run[v], m)
    BY DEF AccountInv, LoopAccounted
  <2>4. CASE UNCHANGED <<job[v], run[v], next[v]>>
    BY <1>2, <2>3, <2>4
  <2>5. CASE next'[v] = 1
    BY <2>5
  <2>6. CASE Put(v) /\ UNCHANGED <<job[v], run[v]>> /\ next'[v] = next[v] + 1
    <3>1. n \in 1..(next[v] - 1) \/ n = next[v]
      BY <2>2, <2>6
    <3>2. QED BY <1>1, <1>2, <2>3, <2>6, <3>1, PutAccounts
  <2>7. QED BY <1>1, <2>4, <2>5, <2>6, LoopMoves
<1>4. CompleteIsAccounted'
  <2>1. SUFFICES ASSUME NEW c \in completed', NEW n \in 1..c.total
                 PROVE  \E l \in Known' : l.job = c.job /\ l.run = c.run /\ l.n = n
    BY DEF CompleteIsAccounted, Accounted
  <2>2. CASE c \in completed
    BY <1>2, <2>2 DEF AccountInv, CompleteIsAccounted
  <2>3. CASE c \notin completed
    <3>1. PICK w \in Workers : /\ rpc[w] = "complete"
                               /\ c = [job |-> job[w], run |-> run[w], total |-> total[w]]
      BY <1>1, <2>3, NewlyCompleted
    <3>2. next[w] > total[w] /\ next[w] \in Nat /\ total[w] \in Nat
      BY <1>1, <3>1, WorkerAssumption DEF TypeInv, TypeOK, RetrieverTypeOK, RetrieverOK
    <3>3. n \in 1..(next[w] - 1) /\ c.job = job[w] /\ c.run = run[w]
      BY <3>1, <3>2
    <3>4. Accounted(job[w], run[w], n)
      BY <3>3 DEF AccountInv, LoopAccounted
    <3>5. QED BY <1>2, <3>3, <3>4
  <2>4. QED BY <2>2, <2>3
<1>5. QED BY <1>1, <1>3, <1>4 DEF AccountInv

(* Every line of a job that geard takes for completed was read by logstash, *)
(* is still in a worker, or died with a process or a connection.            *)
THEOREM CompleteAccounted == Spec => []CompleteIsAccounted
<1>1. AccountInv => CompleteIsAccounted
  BY DEF AccountInv
<1>2. QED BY InitAccount, StepAccount, <1>1, PTL DEF Spec

(* No step forgets a line: the lines that were ever put on a queue stay in  *)
(* the pipeline, in logstash or in the record of the losses.                *)
THEOREM LinesAreKept == Spec => [][Known \subseteq Known']_vars
<1>1. TypeInv /\ [Next]_vars => [Known \subseteq Known']_vars
  BY NothingForgotten
<1>2. QED BY InitTypeInv, StepTypeInv, <1>1, PTL DEF Spec

-----------------------------------------------------------------------------
(* What a step does to a job, and to the worker that has it.                *)

(* At the start no worker has a job. *)
LEMMA InitOneWorker == Init => TypeInv /\ OneWorkerPerJob
<1> SUFFICES ASSUME Init PROVE TypeInv /\ OneWorkerPerJob
  OBVIOUS
<1>1. TypeInv
  BY InitTypeInv
<1>2. OneWorkerPerJob
  BY DEF Init, OneWorkerPerJob
<1> QED BY <1>1, <1>2

(* A worker that lets go of its job, by an answer or by its end: whatever   *)
(* geard then says of the job, nobody else was at it.                       *)
LEMMA LetsGo ==
    ASSUME TypeInv, OneWorkerPerJob, NEW w \in Workers, NEW s,
           gearState' = IF linked[w] THEN [gearState EXCEPT ![job[w]] = s] ELSE gearState,
           linked' = [linked EXCEPT ![w] = FALSE], gearRuns' = gearRuns,
           \A v \in Workers \ {w} : job'[v] = job[v] /\ run'[v] = run[v]
    PROVE  OneWorkerPerJob'
<1>1. /\ linked \in [Workers -> BOOLEAN] /\ gearState \in [Jobs -> {"queued", "assigned", "complete", "exception", "failed"}]
      /\ ~linked'[w] /\ \A v \in Workers \ {w} : linked'[v] = linked[v]
  BY DEF TypeInv, TypeOK, RetrieverTypeOK, GearTypeOK
<1>2. ASSUME NEW v \in Workers \ {w}, linked[v]
      PROVE  gearState'[job[v]] = gearState[job[v]]
  <2>1. CASE linked[w]
    <3>1. job[w] # job[v]
      BY <1>2, <2>1 DEF OneWorkerPerJob
    <3> QED BY <1>1, <2>1, <3>1
  <2>2. CASE ~linked[w]
    BY <2>2
  <2> QED BY <2>1, <2>2
<1> QED BY <1>1, <1>2 DEF OneWorkerPerJob

(* gearman hands a job out only after it has taken it back. *)
LEMMA StepOneWorker == TypeInv /\ OneWorkerPerJob /\ [Next]_vars => OneWorkerPerJob'
<1> SUFFICES ASSUME TypeInv, OneWorkerPerJob, [Next]_vars PROVE OneWorkerPerJob'
  OBVIOUS
<1>t. /\ job \in [Workers -> Jobs \cup {NoJob}] /\ run \in [Workers -> 0..MaxRuns]
      /\ linked \in [Workers -> BOOLEAN] /\ gearRuns \in [Jobs -> 0..MaxRuns]
      /\ gearState \in [Jobs -> {"queued", "assigned", "complete", "exception", "failed"}]
  BY DEF TypeInv, TypeOK, RetrieverTypeOK, GearTypeOK
<1>u. ASSUME UNCHANGED <<gearState, gearRuns, job, run, linked>> PROVE OneWorkerPerJob'
  BY <1>u DEF OneWorkerPerJob
<1>1. CASE UNCHANGED vars
  BY <1>1, <1>u DEF vars, gearVars, retrieverVars, taskVars
<1>2. ASSUME NEW w \in Workers, GetJob(w) PROVE OneWorkerPerJob'
  <2>1. PICK j \in Jobs :
          /\ gearState[j] = "queued"
          /\ gearState' = [gearState EXCEPT ![j] = "assigned"]
          /\ gearRuns' = [gearRuns EXCEPT ![j] = @ + 1]
          /\ job' = [job EXCEPT ![w] = j]
          /\ run' = [run EXCEPT ![w] = gearRuns[j] + 1]
    BY <1>2 DEF GetJob
  <2>2. linked' = [linked EXCEPT ![w] = TRUE]
    BY <1>2 DEF GetJob
  <2>3. \A v \in Workers : linked[v] => job[v] # j
    BY <2>1 DEF OneWorkerPerJob
  <2>4. /\ job'[w] = j /\ run'[w] = gearRuns'[j] /\ gearState'[j] = "assigned"
        /\ \A v \in Workers \ {w} : job'[v] = job[v] /\ run'[v] = run[v] /\ linked'[v] = linked[v]
        /\ \A k \in Jobs \ {j} : gearState'[k] = gearState[k] /\ gearRuns'[k] = gearRuns[k]
    BY <2>1, <2>2, <1>t
  <2>5. \A v \in Workers \ {w} : linked[v] => job[v] \in Jobs
    BY DEF TypeInv, RetrieverOK
  <2> QED BY <2>3, <2>4, <2>5 DEF OneWorkerPerJob
<1>3. ASSUME NEW w \in Workers,
             Fetch(w) \/ CreateFilter(w) \/ Process(w) \/ Put(w) \/ Close(w) \/ Reap(w)
      PROVE  OneWorkerPerJob'
  BY <1>3, <1>u DEF Fetch, CreateFilter, Process, Put, Close, Reap, Reaped, gearVars, taskVars
<1>4. ASSUME NEW w \in Workers, Return(w) PROVE \A v \in Workers \ {w} : job'[v] = job[v] /\ run'[v] = run[v]
  BY <1>4, <1>t DEF Return
<1>5. ASSUME NEW w \in Workers, WorkComplete(w) PROVE OneWorkerPerJob'
  <2>1. CASE linked[w] /\ Completes(w) /\ Return(w)
    BY <1>4, <1>5, <2>1, LetsGo DEF Completes, Return, WorkComplete
  <2>2. CASE ~linked[w] /\ Return(w) /\ UNCHANGED <<gearState, completed>>
    BY <1>4, <1>5, <2>2, LetsGo DEF Return, WorkComplete
  <2>3. CASE UNCHANGED <<gearState, taskVars>>
    BY <1>5, <1>u, <2>3 DEF WorkComplete, taskVars
  <2> QED BY <1>5, <2>1, <2>2, <2>3 DEF WorkComplete
<1>6. ASSUME NEW w \in Workers, WorkException(w) PROVE OneWorkerPerJob'
  BY <1>4, <1>6, LetsGo DEF WorkException, Return
<1>7. ASSUME NEW w \in Workers, Disconnect(w), UNCHANGED gearRuns,
             \A v \in Workers \ {w} : job'[v] = job[v] /\ run'[v] = run[v]
      PROVE  OneWorkerPerJob'
  <2>1. PICK s : gearState' = IF linked[w] THEN [gearState EXCEPT ![job[w]] = s] ELSE gearState
    BY <1>7 DEF Disconnect
  <2> QED BY <1>7, <2>1, LetsGo DEF Disconnect
<1>8. ASSUME NEW w \in Workers, NEW state, Exit(w, state) PROVE OneWorkerPerJob'
  BY <1>7, <1>8, <1>t DEF Exit
<1>9. ASSUME NEW w \in Workers, ProcessorStep(w) PROVE OneWorkerPerJob'
  <2>1. CASE GiveUp(w)
    BY <2>1, <1>8 DEF GiveUp
  <2>2. CASE ~GiveUp(w)
    BY <1>9, <2>2, <1>u DEF ProcessorStep, Take, Connect, Send, Sent, SendFails, Wait90, Reconnect,
                            ProcessorOnly, gearVars, retrieverVars, taskVars
  <2> QED BY <2>1, <2>2
<1>10. ASSUME NEW w \in Workers, Stop(w) PROVE OneWorkerPerJob'
  BY <1>8, <1>10 DEF Stop
<1>11. ASSUME NEW w \in Workers, LoseGeard(w) PROVE OneWorkerPerJob'
  BY <1>7, <1>11 DEF LoseGeard
<1>12. ASSUME NEW w \in Workers, Start(w) \/ CRMDies(w) \/ CRMExits(w) \/ Deliver(w) PROVE OneWorkerPerJob'
  BY <1>12, <1>u DEF Start, CRMDies, CRMExits, Deliver, gearVars, retrieverVars, taskVars
<1>13. CASE LogstashDies \/ LogstashStarts
  BY <1>13, <1>u DEF LogstashDies, LogstashStarts, gearVars, retrieverVars, taskVars
<1> QED BY <1>1, <1>2, <1>3, <1>5, <1>6, <1>9, <1>10, <1>11, <1>12, <1>13 DEF Next, RetrieverStep

(* geard never has two workers at one job, and none at a job it takes for   *)
(* answered, however connections break and workers end.                     *)
THEOREM OneWorkerAJob == Spec => []OneWorkerPerJob
<1>1. TypeInv /\ OneWorkerPerJob /\ [Next]_vars => (TypeInv /\ OneWorkerPerJob)'
  BY StepTypeInv, StepOneWorker
<1>2. QED BY InitOneWorker, <1>1, PTL DEF Spec

-----------------------------------------------------------------------------
(* Death and outage. *)

(* The second attempt fails only where logstash was down after the wait.    *)
SecondAttempt ==
    \A w \in Workers :
        /\ ppc[w] = "reconnect" /\ ~logstash => outage[w]
        /\ ppc[w] = "resend" /\ sock[w] # "open" => outage[w]

OutageInv == TypeInv /\ SecondAttempt /\ DiesOnlyInOutage

(* Every step keeps the relation of a dead processor to an outage of         *)
(* logstash.                                                                 *)
LEMMA StepOutage == OutageInv /\ [Next]_vars => OutageInv'
<1> SUFFICES ASSUME OutageInv, [Next]_vars PROVE SecondAttempt' /\ DiesOnlyInOutage'
  BY StepTypeInv DEF OutageInv
<1>t. /\ ppc \in [Workers -> {"get", "send", "wait", "reconnect", "resend", "off", "gaveup"}]
      /\ sock \in [Workers -> {"none", "open", "stale", "broken"}]
      /\ outage \in [Workers -> BOOLEAN]
  BY DEF OutageInv, TypeInv, TypeOK, ProcessorTypeOK
<1> USE DEF OutageInv
<1>u. ASSUME UNCHANGED <<ppc, sock, outage>>, logstash => logstash' PROVE SecondAttempt' /\ DiesOnlyInOutage'
  BY <1>u DEF SecondAttempt, DiesOnlyInOutage
<1>1. CASE UNCHANGED vars
  BY <1>1, <1>u DEF vars, procVars, sinkVars
<1>2. ASSUME NEW w \in Workers, RetrieverStep(w) PROVE SecondAttempt' /\ DiesOnlyInOutage'
  BY <1>2, <1>u DEF RetrieverStep, GetJob, Fetch, CreateFilter, Process, Put, Close, Reap, Reaped,
     WorkComplete, WorkException, RetrieverOnly, procVars, sinkVars
<1>3. ASSUME NEW w \in Workers, NEW state \in {"off", "gaveup"}, Exit(w, state),
             state = "gaveup" => outage[w]
      PROVE  SecondAttempt' /\ DiesOnlyInOutage'
  <2>1. /\ ppc' = [ppc EXCEPT ![w] = state] /\ sock' = [sock EXCEPT ![w] = "none"]
        /\ outage' = outage /\ logstash' = logstash
    BY <1>3 DEF Exit
  <2> QED BY <1>3, <1>t, <2>1 DEF SecondAttempt, DiesOnlyInOutage
<1>4. ASSUME NEW w \in Workers, ProcessorStep(w) PROVE SecondAttempt' /\ DiesOnlyInOutage'
  <2>1. CASE Take(w) \/ Connect(w) \/ Send(w) \/ SendFails(w)
    <3>1. /\ outage' = outage /\ logstash' = logstash
          /\ ppc'[w] \in {"get", "send", "wait"}
          /\ \A v \in Workers \ {w} : ppc'[v] = ppc[v] /\ sock'[v] = sock[v]
      BY <1>t, <2>1 DEF Take, Connect, Send, Sent, SendFails, ProcessorOnly
    <3> QED BY <3>1 DEF SecondAttempt, DiesOnlyInOutage
  <2>2. CASE Wait90(w)
    <3>1. /\ logstash' = logstash /\ sock' = sock /\ ppc'[w] = "reconnect"
          /\ outage'[w] = ~logstash
          /\ \A v \in Workers \ {w} : ppc'[v] = ppc[v] /\ outage'[v] = outage[v]
      BY <1>t, <2>2 DEF Wait90, ProcessorOnly
    <3> QED BY <3>1 DEF SecondAttempt, DiesOnlyInOutage
  <2>3. CASE Reconnect(w)
    <3>1. /\ logstash' = logstash /\ outage' = outage /\ ppc'[w] = "resend" /\ sock'[w] = "open"
          /\ \A v \in Workers \ {w} : ppc'[v] = ppc[v] /\ sock'[v] = sock[v]
      BY <1>t, <2>3 DEF Reconnect, ProcessorOnly
    <3> QED BY <3>1 DEF SecondAttempt, DiesOnlyInOutage
  <2>4. CASE GiveUp(w)
    <3>1. outage[w]
      BY <2>4 DEF GiveUp, SecondAttempt
    <3> QED BY <1>3, <2>4, <3>1 DEF GiveUp
  <2> QED BY <1>4, <2>1, <2>2, <2>3, <2>4 DEF ProcessorStep
<1>5. ASSUME NEW w \in Workers, Stop(w) PROVE SecondAttempt' /\ DiesOnlyInOutage'
  BY <1>3, <1>5 DEF Stop
<1>6. ASSUME NEW w \in Workers, Start(w) PROVE SecondAttempt' /\ DiesOnlyInOutage'
  BY <1>6, <1>t DEF Start, sinkVars, SecondAttempt, DiesOnlyInOutage
<1>7. ASSUME NEW w \in Workers, LoseGeard(w) \/ CRMDies(w) \/ CRMExits(w) \/ Deliver(w)
      PROVE  SecondAttempt' /\ DiesOnlyInOutage'
  BY <1>7, <1>u DEF LoseGeard, CRMDies, CRMExits, Deliver, RetrieverOnly, procVars, sinkVars
<1>8. CASE LogstashDies
  <2>1. \A v \in Workers : outage'[v]
    BY <1>8 DEF LogstashDies
  <2> QED BY <2>1 DEF SecondAttempt, DiesOnlyInOutage
<1>9. CASE LogstashStarts
  BY <1>9, <1>u DEF LogstashStarts, procVars
<1> QED BY <1>1, <1>2, <1>4, <1>5, <1>6, <1>7, <1>8, <1>9 DEF Next

(* A worker ends itself only if logstash was down after its wait of 90      *)
(* seconds: a restart that is over by then is survived with the line.       *)
THEOREM DeathNeedsOutage == Spec => []DiesOnlyInOutage
<1>1. Init => OutageInv
  BY InitTypeInv DEF Init, OutageInv, SecondAttempt, DiesOnlyInOutage
<1>2. OutageInv => DiesOnlyInOutage
  BY DEF OutageInv
<1>3. QED BY <1>1, StepOutage, <1>2, PTL DEF Spec

-----------------------------------------------------------------------------
(* Everyone waiting on everyone: the safety half of NothingStays. *)

(* The retriever cannot go on: it has no job, the queue is full, or its      *)
(* filter has not exited.                                                    *)
RetrieverWaits(w) ==
    \/ rpc[w] \in {"idle", "off"}
    \/ rpc[w] \in {"put", "putScored"} /\ Len(logq[w]) = QueueSize
    \/ rpc[w] \in {"reap", "reapAbort"} /\ crm[w] \notin {"none", "exited"}

(* The processor cannot go on: it has ended, the queue is empty, or the      *)
(* socket takes no more.                                                     *)
ProcessorWaits(w) ==
    \/ ppc[w] \in {"off", "gaveup"}
    \/ ppc[w] = "get" /\ logq[w] = <<>>
    \/ ppc[w] \in {"send", "resend"} /\ sock[w] = "open" /\ Len(wire[w]) = WireSize

(* If both threads of a worker wait, then it has nothing left to do, or its  *)
(* filter has been told to exit, or logstash is up and has lines to read.    *)
NoStandstill ==
    \A w \in Workers : RetrieverWaits(w) /\ ProcessorWaits(w) =>
        \/ rpc[w] \in {"idle", "off"} /\ InPipeline(w) = {}
        \/ rpc[w] \in {"reap", "reapAbort"} /\ crm[w] = "closing"
        \/ logstash /\ wire[w] # <<>>

(* What is sent has somebody to read it, an ended process has no queue, and  *)
(* a filter is waited for only after its input was closed.                   *)
WireOK == \A w \in Workers : wire[w] # <<>> \/ sock[w] = "open" => logstash
EndedOK == \A w \in Workers : ppc[w] \in {"off", "gaveup"} => logq[w] = <<>>
ReapOK == \A w \in Workers : rpc[w] \in {"reap", "reapAbort"} => crm[w] # "running"

(* The wires and sockets are those of a logstash that is up. *)
LEMMA StepWire == TypeInv /\ WireOK /\ [Next]_vars => WireOK'
<1> SUFFICES ASSUME TypeInv, WireOK, [Next]_vars PROVE WireOK'
  OBVIOUS
<1>t. sock \in [Workers -> {"none", "open", "stale", "broken"}] /\ wire \in [Workers -> Seq(Line)]
  BY DEF TypeInv, TypeOK, ProcessorTypeOK
<1>u. ASSUME UNCHANGED <<sock, wire>>, logstash => logstash' PROVE WireOK'
  BY <1>u DEF WireOK
<1>1. CASE UNCHANGED vars
  BY <1>1, <1>u DEF vars, procVars, sinkVars
<1>2. ASSUME NEW w \in Workers, RetrieverStep(w) PROVE WireOK'
  BY <1>2, <1>u DEF RetrieverStep, GetJob, Fetch, CreateFilter, Process, Put, Close, Reap, Reaped,
     WorkComplete, WorkException, RetrieverOnly, procVars, sinkVars
<1>3. ASSUME NEW w \in Workers, NEW state, Exit(w, state) PROVE WireOK'
  BY <1>3, <1>t DEF Exit, WireOK
<1>4. ASSUME NEW w \in Workers, ProcessorStep(w) PROVE WireOK'
  <2>1. CASE Take(w) \/ Wait90(w)
    BY <1>u, <2>1 DEF Take, Wait90, ProcessorOnly
  <2>2. CASE Connect(w)
    BY <1>t, <2>2 DEF Connect, ProcessorOnly, WireOK
  <2>3. CASE Send(w)
    BY <1>t, <2>3 DEF Send, Sent, ProcessorOnly, WireOK
  <2>4. CASE SendFails(w)
    BY <1>t, <2>4 DEF SendFails, ProcessorOnly, WireOK
  <2>5. CASE Reconnect(w)
    BY <1>t, <2>5 DEF Reconnect, ProcessorOnly, WireOK
  <2>6. CASE GiveUp(w)
    BY <1>3, <2>6 DEF GiveUp
  <2> QED BY <1>4, <2>1, <2>2, <2>3, <2>4, <2>5, <2>6 DEF ProcessorStep
<1>5. ASSUME NEW w \in Workers, Stop(w) \/ Start(w) PROVE WireOK'
  BY <1>3, <1>5, <1>u DEF Stop, Start, sinkVars
<1>6. ASSUME NEW w \in Workers, LoseGeard(w) \/ CRMDies(w) \/ CRMExits(w) PROVE WireOK'
  BY <1>6, <1>u DEF LoseGeard, CRMDies, CRMExits, RetrieverOnly, procVars, sinkVars
<1>7. ASSUME NEW w \in Workers, Deliver(w) PROVE WireOK'
  BY <1>7, <1>t DEF Deliver, WireOK
<1>8. CASE LogstashDies
  <2>1. \A v \in Workers : wire'[v] = <<>> /\ sock'[v] # "open"
    BY <1>8, <1>t DEF LogstashDies
  <2> QED BY <2>1 DEF WireOK
<1>9. CASE LogstashStarts
  BY <1>9, <1>u DEF LogstashStarts, procVars
<1> QED BY <1>1, <1>2, <1>4, <1>5, <1>6, <1>7, <1>8, <1>9 DEF Next

(* A process that has ended has no queue, nor a retriever to fill it. *)
LEMMA StepEnded == TypeInv /\ EndedOK /\ [Next]_vars => EndedOK'
<1> SUFFICES ASSUME TypeInv, EndedOK, [Next]_vars PROVE EndedOK'
  OBVIOUS
<1>t. /\ ppc \in [Workers -> {"get", "send", "wait", "reconnect", "resend", "off", "gaveup"}]
      /\ logq \in [Workers -> Seq(Line)] /\ RetrieverOK
  BY DEF TypeInv, TypeOK, ProcessorTypeOK, QueueTypeOK
<1>u. ASSUME UNCHANGED <<ppc, logq>> PROVE EndedOK'
  BY <1>u DEF EndedOK
<1>1. CASE UNCHANGED vars
  BY <1>1, <1>u DEF vars, procVars
<1>2. ASSUME NEW w \in Workers, RetrieverStep(w) PROVE EndedOK'
  <2>1. CASE Put(w)
    <3>1. /\ rpc[w] \in {"put", "putScored"} /\ ppc' = ppc
          /\ \A v \in Workers \ {w} : logq'[v] = logq[v]
      BY <1>t, <2>1 DEF Put, RetrieverOnly, procVars
    <3>2. ppc[w] \notin {"off", "gaveup"}
      BY <1>t, <3>1 DEF RetrieverOK
    <3> QED BY <3>1, <3>2 DEF EndedOK
  <2>2. CASE ~Put(w)
    BY <1>2, <1>u, <2>2 DEF RetrieverStep, GetJob, Fetch, CreateFilter, Process, Close, Reap, Reaped,
       WorkComplete, WorkException, RetrieverOnly, procVars
  <2> QED BY <2>1, <2>2
<1>3. ASSUME NEW w \in Workers, NEW state, Exit(w, state) PROVE EndedOK'
  BY <1>3, <1>t DEF Exit, EndedOK
<1>4. ASSUME NEW w \in Workers, ProcessorStep(w) PROVE EndedOK'
  <2>1. CASE GiveUp(w)
    BY <1>3, <2>1 DEF GiveUp
  <2>2. CASE Take(w) \/ Connect(w) \/ Send(w) \/ SendFails(w) \/ Wait90(w) \/ Reconnect(w)
    <3>1. /\ ppc'[w] \notin {"off", "gaveup"}
          /\ \A v \in Workers \ {w} : ppc'[v] = ppc[v] /\ logq'[v] = logq[v]
      BY <1>t, <2>2 DEF Take, Connect, Send, Sent, SendFails, Wait90, Reconnect, ProcessorOnly
    <3> QED BY <3>1 DEF EndedOK
  <2> QED BY <1>4, <2>1, <2>2 DEF ProcessorStep
<1>5. ASSUME NEW w \in Workers, Stop(w) PROVE EndedOK'
  BY <1>3, <1>5 DEF Stop
<1>6. ASSUME NEW w \in Workers, Start(w) PROVE EndedOK'
  BY <1>6, <1>t DEF Start, EndedOK
<1>7. ASSUME NEW w \in Workers, LoseGeard(w) \/ CRMDies(w) \/ CRMExits(w) \/ Deliver(w) PROVE EndedOK'
  BY <1>7, <1>u DEF LoseGeard, CRMDies, CRMExits, Deliver, RetrieverOnly, procVars
<1>8. CASE LogstashDies \/ LogstashStarts
  BY <1>8, <1>u DEF LogstashDies, LogstashStarts, procVars
<1> QED BY <1>1, <1>2, <1>4, <1>5, <1>6, <1>7, <1>8 DEF Next

(* close() comes before wait(). *)
LEMMA StepReap == TypeInv /\ ReapOK /\ [Next]_vars => ReapOK'
<1> SUFFICES ASSUME TypeInv, ReapOK, [Next]_vars PROVE ReapOK'
  OBVIOUS
<1>t. /\ rpc \in [Workers -> {"idle", "fetch", "filter", "line", "put", "putScored", "abort",
                               "reap", "reapAbort", "complete", "exception", "off"}]
      /\ crm \in [Workers -> {"none", "running", "closing", "exited"}]
  BY DEF TypeInv, TypeOK, RetrieverTypeOK
<1>u. ASSUME UNCHANGED <<rpc, crm>> PROVE ReapOK'
  BY <1>u DEF ReapOK
<1>1. CASE UNCHANGED vars
  BY <1>1, <1>u DEF vars, retrieverVars, filterVars
<1>2. ASSUME NEW w \in Workers, RetrieverStep(w) PROVE ReapOK'
  <2>1. CASE Close(w)
    <3>1. /\ crm'[w] # "running"
          /\ \A v \in Workers \ {w} : rpc'[v] = rpc[v] /\ crm'[v] = crm[v]
      BY <1>t, <2>1 DEF Close, Goto
    <3> QED BY <3>1 DEF ReapOK
  <2>2. CASE GetJob(w) \/ Fetch(w) \/ CreateFilter(w) \/ Process(w) \/ Put(w)
    <3>1. /\ rpc'[w] \notin {"reap", "reapAbort"}
          /\ \A v \in Workers \ {w} : rpc'[v] = rpc[v] /\ crm'[v] = crm[v]
      BY <1>t, <2>2 DEF GetJob, Fetch, CreateFilter, Process, Put, Goto, filterVars
    <3> QED BY <3>1 DEF ReapOK
  <2>3. CASE Reap(w) \/ WorkComplete(w) \/ WorkException(w)
    <3>1. /\ rpc'[w] \notin {"reap", "reapAbort"}
          /\ \A v \in Workers \ {w} : rpc'[v] = rpc[v] /\ crm'[v] = crm[v]
      BY <1>t, <2>3 DEF Reap, Reaped, WorkComplete, WorkException, Return, Goto, filterVars
    <3> QED BY <3>1 DEF ReapOK
  <2> QED BY <1>2, <2>1, <2>2, <2>3 DEF RetrieverStep
<1>3. ASSUME NEW w \in Workers, NEW state, Exit(w, state) PROVE ReapOK'
  BY <1>3, <1>t DEF Exit, Goto, ReapOK
<1>4. ASSUME NEW w \in Workers, ProcessorStep(w) PROVE ReapOK'
  <2>1. CASE GiveUp(w)
    BY <1>3, <2>1 DEF GiveUp
  <2>2. CASE ~GiveUp(w)
    BY <1>4, <1>u, <2>2 DEF ProcessorStep, Take, Connect, Send, Sent, SendFails, Wait90, Reconnect,
       ProcessorOnly, retrieverVars, filterVars
  <2> QED BY <2>1, <2>2
<1>5. ASSUME NEW w \in Workers, Stop(w) PROVE ReapOK'
  BY <1>3, <1>5 DEF Stop
<1>6. ASSUME NEW w \in Workers, Start(w) PROVE ReapOK'
  BY <1>6, <1>t DEF Start, Goto, filterVars, ReapOK
<1>7. ASSUME NEW w \in Workers, CRMDies(w) \/ CRMExits(w) PROVE ReapOK'
  BY <1>7, <1>t DEF CRMDies, CRMExits, ReapOK
<1>8. ASSUME NEW w \in Workers, LoseGeard(w) \/ Deliver(w) PROVE ReapOK'
  BY <1>8, <1>u DEF LoseGeard, Deliver, retrieverVars, filterVars
<1>9. CASE LogstashDies \/ LogstashStarts
  BY <1>9, <1>u DEF LogstashDies, LogstashStarts, retrieverVars, filterVars
<1> QED BY <1>1, <1>2, <1>4, <1>5, <1>6, <1>7, <1>8, <1>9 DEF Next

(* The two threads, the filter and logstash never all wait for each other,  *)
(* whatever the sizes of queue and socket buffer: a full queue has a        *)
(* processor that takes from it, a full socket a logstash that reads.       *)
THEOREM NobodyWaitsForAll == Spec => []NoStandstill
<1>1. Init => WireOK /\ EndedOK /\ ReapOK
  BY DEF Init, WireOK, EndedOK, ReapOK
<1>2. TypeInv /\ WireOK /\ EndedOK /\ ReapOK => NoStandstill
  <2> SUFFICES ASSUME TypeInv, WireOK, EndedOK, ReapOK, NEW w \in Workers, RetrieverWaits(w), ProcessorWaits(w)
               PROVE  \/ rpc[w] \in {"idle", "off"} /\ InPipeline(w) = {}
                      \/ rpc[w] \in {"reap", "reapAbort"} /\ crm[w] = "closing"
                      \/ logstash /\ wire[w] # <<>>
    BY DEF NoStandstill
  <2>t. /\ RetrieverOK /\ crm[w] \in {"none", "running", "closing", "exited"}
        /\ hand[w] \in Seq(Line) /\ Len(hand[w]) = IF ppc[w] \in {"get", "off", "gaveup"} THEN 0 ELSE 1
        /\ logq[w] \in Seq(Line) /\ wire[w] \in Seq(Line)
    BY DEF TypeInv, TypeOK, RetrieverTypeOK, ProcessorTypeOK, QueueTypeOK
  <2>1. CASE wire[w] # <<>>
    BY <2>1 DEF WireOK
  <2>2. CASE wire[w] = <<>>
    <3>1. Len(wire[w]) # WireSize
      BY <2>2, WorkerAssumption
    <3>2. ppc[w] \in {"get", "off", "gaveup"} /\ logq[w] = <<>>
      BY <3>1 DEF ProcessorWaits, EndedOK
    <3>3. hand[w] = <<>> /\ Len(logq[w]) # QueueSize
      BY <2>t, <3>2, WorkerAssumption
    <3>4. InPipeline(w) = {}
      BY <2>2, <3>2, <3>3 DEF InPipeline, Range
    <3>5. \/ rpc[w] \in {"idle", "off"}
          \/ rpc[w] \in {"reap", "reapAbort"} /\ crm[w] = "closing"
      BY <2>t, <3>3 DEF RetrieverWaits, ReapOK
    <3> QED BY <3>4, <3>5
  <2> QED BY <2>1, <2>2
<1> QED BY InitTypeInv, StepTypeInv, StepWire, StepEnded, StepReap, <1>1, <1>2, PTL DEF Spec

-----------------------------------------------------------------------------
(* The filter and its subprocess. *)

(* What a retriever does to the filter of its worker.                       *)
LEMMA StepFilter == TypeInv /\ FilterReapedBeforeAnswer /\ [Next]_vars => FilterReapedBeforeAnswer'
<1> SUFFICES ASSUME TypeInv, FilterReapedBeforeAnswer, [Next]_vars PROVE FilterReapedBeforeAnswer'
  OBVIOUS
<1>t. /\ active \in [Workers -> BOOLEAN] /\ crm \in [Workers -> {"none", "running", "closing", "exited"}]
      /\ rpc \in [Workers -> {"idle", "fetch", "filter", "line", "put", "putScored", "abort",
                              "reap", "reapAbort", "complete", "exception", "off"}]
  BY DEF TypeInv, TypeOK, RetrieverTypeOK
<1>u. ASSUME UNCHANGED <<rpc, active, crm>> PROVE FilterReapedBeforeAnswer'
  BY <1>u DEF FilterReapedBeforeAnswer
<1> USE DEF Goto
<1>1. CASE UNCHANGED vars
  BY <1>1, <1>u DEF vars, retrieverVars, filterVars
<1>2. ASSUME NEW w \in Workers, GetJob(w) \/ Fetch(w) \/ Put(w) \/ WorkComplete(w) \/ WorkException(w)
      PROVE  FilterReapedBeforeAnswer'
  BY <1>2, <1>t DEF GetJob, Fetch, Put, WorkComplete, WorkException, Return, filterVars,
     FilterReapedBeforeAnswer
<1>3. ASSUME NEW w \in Workers, CreateFilter(w) \/ Process(w) PROVE FilterReapedBeforeAnswer'
  <2>1. /\ rpc'[w] \in {"line", "put", "putScored", "abort"}
        /\ \A v \in Workers \ {w} : rpc'[v] = rpc[v] /\ active'[v] = active[v] /\ crm'[v] = crm[v]
    BY <1>3, <1>t DEF CreateFilter, Process, filterVars
  <2> QED BY <2>1 DEF FilterReapedBeforeAnswer
<1>4. ASSUME NEW w \in Workers, Close(w) PROVE FilterReapedBeforeAnswer'
  <2>1. /\ rpc'[w] \in {"reap", "reapAbort"} /\ active' = active
        /\ \A v \in Workers \ {w} : rpc'[v] = rpc[v] /\ crm'[v] = crm[v]
    BY <1>4, <1>t DEF Close
  <2> QED BY <2>1 DEF FilterReapedBeforeAnswer
<1>5. ASSUME NEW w \in Workers, Reap(w) PROVE FilterReapedBeforeAnswer'
  BY <1>5, <1>t DEF Reap, Reaped, FilterReapedBeforeAnswer
<1>6. ASSUME NEW w \in Workers, NEW state, Exit(w, state) PROVE FilterReapedBeforeAnswer'
  <2>1. /\ rpc' = [rpc EXCEPT ![w] = "off"] /\ active' = [active EXCEPT ![w] = FALSE]
        /\ crm' = [crm EXCEPT ![w] = "none"]
    BY <1>6 DEF Exit
  <2> QED BY <1>t, <2>1 DEF FilterReapedBeforeAnswer
<1>7. ASSUME NEW w \in Workers, ProcessorStep(w) PROVE FilterReapedBeforeAnswer'
  <2>1. CASE GiveUp(w)
    BY <2>1, <1>6 DEF GiveUp
  <2>2. CASE ~GiveUp(w)
    BY <1>7, <2>2, <1>u DEF ProcessorStep, Take, Connect, Send, Sent, SendFails, Wait90, Reconnect,
                            ProcessorOnly, retrieverVars, filterVars
  <2> QED BY <2>1, <2>2
<1>8. ASSUME NEW w \in Workers, Stop(w) PROVE FilterReapedBeforeAnswer'
  BY <1>6, <1>8 DEF Stop
<1>9. ASSUME NEW w \in Workers, Start(w) PROVE FilterReapedBeforeAnswer'
  <2>1. rpc[w] = "off" /\ rpc' = [rpc EXCEPT ![w] = "idle"] /\ UNCHANGED <<active, crm>>
    BY <1>9 DEF Start, filterVars, TypeInv, RetrieverOK
  <2> QED BY <1>t, <2>1 DEF FilterReapedBeforeAnswer
<1>10. ASSUME NEW w \in Workers, CRMDies(w) \/ CRMExits(w) PROVE FilterReapedBeforeAnswer'
  BY <1>10, <1>t DEF CRMDies, CRMExits, FilterReapedBeforeAnswer
<1>11. ASSUME NEW w \in Workers, LoseGeard(w) \/ Deliver(w) PROVE FilterReapedBeforeAnswer'
  BY <1>11, <1>u DEF LoseGeard, Deliver, retrieverVars, filterVars
<1>12. CASE LogstashDies \/ LogstashStarts
  BY <1>12, <1>u DEF LogstashDies, LogstashStarts, retrieverVars, filterVars
<1> QED BY <1>1, <1>2, <1>3, <1>4, <1>5, <1>7, <1>8, <1>9, <1>10, <1>11, <1>12 DEF Next, RetrieverStep

-----------------------------------------------------------------------------
(* Order. *)

StillLines == UNCHANGED <<wire, hand, logq, received, lost>>
StillTasks == UNCHANGED <<job, run, next, gearRuns>>
LeavesTask(w) == /\ job' = [job EXCEPT ![w] = NoJob] /\ run' = [run EXCEPT ![w] = 0]
                 /\ next' = [next EXCEPT ![w] = 1] /\ gearRuns' = gearRuns
DropsLines(w) == /\ logq' = [logq EXCEPT ![w] = <<>>] /\ hand' = [hand EXCEPT ![w] = <<>>]
                 /\ lost' = lost \cup Range(logq[w]) \cup Range(hand[w])
                 /\ UNCHANGED <<wire, received>>

(* All that a step can do to the lines, and to what the retrievers know of  *)
(* their place in a log.                                                    *)
LineStep ==
    \/ StillLines /\ StillTasks /\ completed' = completed
    \/ \E w \in Workers : GetJob(w) /\ StillLines /\ UNCHANGED <<next, completed>>
    \/ \E w \in Workers : LeavesTask(w) /\ StillLines /\ completed \subseteq completed'
    \/ \E w \in Workers : Put(w) /\ UNCHANGED <<wire, hand, received, lost, job, run, gearRuns, completed>>
    \/ \E w \in Workers : Take(w) /\ UNCHANGED <<wire, received, lost, completed>> /\ StillTasks
    \/ \E w \in Workers : Send(w) /\ UNCHANGED <<logq, received, completed>> /\ StillTasks
    \/ \E w \in Workers : LeavesTask(w) /\ DropsLines(w) /\ completed' = completed
    \/ \E w \in Workers : Deliver(w) /\ UNCHANGED <<hand, logq, lost, completed>> /\ StillTasks
    \/ LogstashDies /\ UNCHANGED <<hand, logq, received, completed>> /\ StillTasks

(* Every step is one of those. *)
LEMMA StepsOfLines == [Next]_vars => LineStep
<1> SUFFICES ASSUME [Next]_vars PROVE LineStep
  OBVIOUS
<1> USE DEF StillLines, StillTasks, gearVars, retrieverVars, taskVars, loopVars, procVars, sinkVars
<1>1. CASE UNCHANGED vars
  BY <1>1 DEF vars, LineStep
<1>2. ASSUME NEW w \in Workers, RetrieverStep(w) PROVE LineStep
  <2>1. CASE GetJob(w)
    BY <2>1 DEF GetJob, RetrieverOnly, LineStep
  <2>2. CASE Put(w)
    BY <2>2 DEF Put, RetrieverOnly, LineStep
  <2>3. CASE Fetch(w) \/ CreateFilter(w) \/ Process(w) \/ Close(w) \/ Reap(w)
    BY <2>3 DEF Fetch, CreateFilter, Process, Close, Reap, Reaped, RetrieverOnly, LineStep
  <2>4. CASE WorkComplete(w) \/ WorkException(w)
    <3>1. /\ UNCHANGED <<gearRuns, logq>> /\ RetrieverOnly
          /\ \/ Return(w) /\ completed \subseteq completed'
             \/ UNCHANGED <<taskVars, loopVars, completed>>
      BY <2>4 DEF WorkComplete, WorkException, Completes
    <3> QED BY <3>1 DEF Return, RetrieverOnly, LeavesTask, LineStep
  <2> QED BY <1>2, <2>1, <2>2, <2>3, <2>4 DEF RetrieverStep
<1>3. ASSUME NEW w \in Workers, NEW state, Exit(w, state) PROVE LineStep
  BY <1>3 DEF Exit, LeavesTask, DropsLines, LineStep
<1>4. ASSUME NEW w \in Workers, ProcessorStep(w) PROVE LineStep
  <2>1. CASE Take(w)
    BY <2>1 DEF Take, ProcessorOnly, LineStep
  <2>2. CASE Send(w)
    BY <2>2 DEF Send, Sent, ProcessorOnly, LineStep
  <2>3. CASE Connect(w) \/ SendFails(w) \/ Wait90(w) \/ Reconnect(w)
    BY <2>3 DEF Connect, SendFails, Wait90, Reconnect, ProcessorOnly, LineStep
  <2>4. CASE GiveUp(w)
    BY <2>4, <1>3 DEF GiveUp
  <2> QED BY <1>4, <2>1, <2>2, <2>3, <2>4 DEF ProcessorStep
<1>5. ASSUME NEW w \in Workers, Stop(w) PROVE LineStep
  BY <1>3, <1>5 DEF Stop
<1>6. ASSUME NEW w \in Workers, Start(w) \/ LoseGeard(w) \/ CRMDies(w) \/ CRMExits(w) PROVE LineStep
  BY <1>6 DEF Start, LoseGeard, CRMDies, CRMExits, RetrieverOnly, LineStep
<1>7. ASSUME NEW w \in Workers, Deliver(w) PROVE LineStep
  BY <1>7 DEF Deliver, LineStep
<1>8. CASE LogstashDies
  BY <1>8 DEF LogstashDies, LineStep
<1>9. CASE LogstashStarts
  BY <1>9 DEF LogstashStarts, LineStep
<1> QED BY <1>1, <1>2, <1>4, <1>5, <1>6, <1>7, <1>8, <1>9 DEF Next

Before(S, T) == \A l \in S, m \in T : SameRun(l, m) => l.n < m.n
Apart(S, T) == \A l \in S, m \in T : SameRun(l, m) => l.n # m.n
Sorted(s) == \A i, k \in 1..Len(s) : i < k /\ SameRun(s[i], s[k]) => s[i].n < s[k].n

(* A line behind all others may be appended to a sorted sequence, *)
LEMMA SortedAppend ==
    ASSUME NEW s \in Seq(Line), NEW x \in Line, Sorted(s), Before(Range(s), {x})
    PROVE  Sorted(Append(s, x))
<1> DEFINE t == Append(s, x)
<1>1. /\ Len(s) \in Nat /\ Len(t) = Len(s) + 1 /\ t[Len(s) + 1] = x
      /\ \A i \in 1..Len(s) : t[i] = s[i]
  OBVIOUS
<1>2. \A i \in 1..Len(s) : s[i] \in Range(s)
  BY DEF Range
<1> HIDE DEF t
<1>3. Sorted(t)
  <2> SUFFICES ASSUME NEW i \in 1..Len(t), NEW k \in 1..Len(t), i < k, SameRun(t[i], t[k])
               PROVE  t[i].n < t[k].n
    BY DEF Sorted
  <2>1. i \in 1..Len(s) /\ (k \in 1..Len(s) \/ k = Len(s) + 1)
    BY <1>1
  <2> QED BY <1>1, <1>2, <2>1 DEF Sorted, Before
<1> QED BY <1>3 DEF t

(* the tail of one is sorted and behind its head, *)
LEMMA SortedTail ==
    ASSUME NEW s \in Seq(Line), s # <<>>, Sorted(s)
    PROVE  Sorted(Tail(s)) /\ Before({Head(s)}, Range(Tail(s)))
<1> DEFINE t == Tail(s)
<1>1. /\ Len(s) \in Nat \ {0} /\ Len(t) = Len(s) - 1 /\ Head(s) = s[1] /\ DOMAIN t = 1..Len(t)
      /\ \A i \in 1..Len(t) : t[i] = s[i + 1]
  OBVIOUS
<1> HIDE DEF t
<1>2. Sorted(t)
  <2> SUFFICES ASSUME NEW i \in 1..Len(t), NEW k \in 1..Len(t), i < k, SameRun(t[i], t[k])
               PROVE  t[i].n < t[k].n
    BY DEF Sorted
  <2>1. i + 1 \in 1..Len(s) /\ k + 1 \in 1..Len(s) /\ i + 1 < k + 1
    BY <1>1
  <2> QED BY <1>1, <2>1 DEF Sorted
<1>3. Before({Head(s)}, Range(t))
  <2> SUFFICES ASSUME NEW i \in 1..Len(t), SameRun(s[1], t[i]) PROVE s[1].n < t[i].n
    BY <1>1 DEF Before, Range
  <2>1. i + 1 \in 1..Len(s) /\ 1 \in 1..Len(s) /\ 1 < i + 1
    BY <1>1
  <2> QED BY <1>1, <2>1 DEF Sorted
<1> QED BY <1>2, <1>3 DEF t

(* and two are sorted together when the one is before the other. *)
LEMMA SortedConcat ==
    ASSUME NEW s \in Seq(Line), NEW t \in Seq(Line), Sorted(s), Sorted(t), Before(Range(s), Range(t))
    PROVE  Sorted(s \o t) /\ s \o t \in Seq(Line) /\ Range(s \o t) = Range(s) \cup Range(t)
<1> DEFINE u == s \o t
<1>1. /\ Len(s) \in Nat /\ Len(t) \in Nat /\ Len(u) = Len(s) + Len(t) /\ u \in Seq(Line)
      /\ \A i \in 1..Len(s) : u[i] = s[i]
      /\ \A i \in 1..Len(u) : i > Len(s) => u[i] = t[i - Len(s)]
      /\ DOMAIN s = 1..Len(s) /\ DOMAIN t = 1..Len(t) /\ DOMAIN u = 1..Len(u)
  OBVIOUS
<1>2. /\ \A i \in 1..Len(s) : s[i] \in Range(s)
      /\ \A i \in 1..Len(t) : t[i] \in Range(t)
  BY <1>1 DEF Range
<1> HIDE DEF u
<1>3. Sorted(u)
  <2> SUFFICES ASSUME NEW i \in 1..Len(u), NEW k \in 1..Len(u), i < k, SameRun(u[i], u[k])
               PROVE  u[i].n < u[k].n
    BY DEF Sorted
  <2>1. CASE k <= Len(s)
    BY <1>1, <2>1 DEF Sorted
  <2>2. CASE i <= Len(s) /\ k > Len(s)
    <3>1. i \in 1..Len(s) /\ k - Len(s) \in 1..Len(t)
      BY <1>1, <2>2
    <3> QED BY <1>1, <1>2, <2>2, <3>1 DEF Before
  <2>3. CASE i > Len(s)
    <3>1. i - Len(s) \in 1..Len(t) /\ k - Len(s) \in 1..Len(t) /\ i - Len(s) < k - Len(s)
          /\ k > Len(s)
      BY <1>1, <2>3
    <3>2. u[i] = t[i - Len(s)]
      BY <1>1, <2>3
    <3>3. u[k] = t[k - Len(s)]
      BY <1>1, <3>1
    <3> QED BY <3>1, <3>2, <3>3 DEF Sorted
  <2> QED BY <1>1, <2>1, <2>2, <2>3
<1>4. Range(u) = Range(s) \cup Range(t)
  <2>1. \A x \in Range(u) : x \in Range(s) \cup Range(t)
    <3> SUFFICES ASSUME NEW i \in 1..Len(u) PROVE u[i] \in Range(s) \cup Range(t)
      BY <1>1 DEF Range
    <3>1. i \in 1..Len(s) \/ (i > Len(s) /\ i - Len(s) \in 1..Len(t))
      BY <1>1
    <3> QED BY <1>1, <1>2, <3>1
  <2>2. \A x \in Range(s) : x \in Range(u)
    <3> SUFFICES ASSUME NEW i \in 1..Len(s) PROVE s[i] \in Range(u)
      BY <1>1 DEF Range
    <3>1. i \in 1..Len(u) /\ u[i] = s[i]
      BY <1>1
    <3> QED BY <1>1, <3>1 DEF Range
  <2>3. \A x \in Range(t) : x \in Range(u)
    <3> SUFFICES ASSUME NEW i \in 1..Len(t) PROVE t[i] \in Range(u)
      BY <1>1 DEF Range
    <3>1. i + Len(s) \in 1..Len(u) /\ u[i + Len(s)] = t[i]
      BY <1>1
    <3> QED BY <1>1, <3>1 DEF Range
  <2> QED BY <2>1, <2>2, <2>3
<1> QED BY <1>1, <1>3, <1>4 DEF u

-----------------------------------------------------------------------------

Ours(l, w) == l.job = job[w] /\ l.run = run[w]

(* Within a worker: wire, hand and queue are in order, one behind the       *)
(* other, and all of it is beyond what logstash has read and apart from     *)
(* what was lost.                                                           *)
InOrder ==
    \A w \in Workers :
        /\ Sorted(wire[w]) /\ Sorted(logq[w])
        /\ Before(Range(wire[w]), Range(hand[w])) /\ Before(Range(wire[w]), Range(logq[w]))
        /\ Before(Range(hand[w]), Range(logq[w]))
        /\ Before(received, InPipeline(w)) /\ Apart(lost, InPipeline(w))

(* Between workers: a run of a job has one worker, now and for ever.        *)
OwnLines ==
    \A v, w \in Workers :
        /\ job[v] \in Jobs /\ job[v] = job[w] /\ run[v] = run[w] => v = w
        /\ \A l \in InPipeline(v) : Ours(l, w) => v = w
        /\ \A l \in InPipeline(v), m \in InPipeline(w) : SameRun(l, m) => v = w

(* Against the loop: what is known of a worker's run lies before its next   *)
(* line, and no run is known that geard has not handed out.                 *)
Behind ==
    /\ \A l \in Known, w \in Workers : Ours(l, w) => l.n < next[w]
    /\ \A l \in Known : l.run <= gearRuns[l.job]
    /\ \A w \in Workers : job[w] \in Jobs => run[w] <= gearRuns[job[w]]

OrderInv == TypeInv /\ InOrder /\ OwnLines /\ Behind

(* What is known of is lines. *)
LEMMA KnownAreLines == TypeInv => Known \subseteq Line
<1> SUFFICES ASSUME TypeInv PROVE Known \subseteq Line
  OBVIOUS
<1>1. \A w \in Workers : InPipeline(w) \subseteq Line
  BY RangeType DEF TypeInv, TypeOK, QueueTypeOK, ProcessorTypeOK, InPipeline
<1>2. received \subseteq Line /\ lost \subseteq Line
  BY DEF TypeInv, TypeOK, SinkTypeOK
<1> QED BY <1>1, <1>2 DEF Known, Arrived

(* The fields of a line. *)
LEMMA LineHas ==
    ASSUME NEW l \in Line
    PROVE  l.job \in Jobs /\ l.run \in 1..MaxRuns /\ l.n \in 1..MaxLines /\ l.n \in Int /\ l.run \in Int
  BY WorkerAssumption DEF Line

(* There is no line at the start. *)
LEMMA InitOrder == Init => OrderInv
<1> SUFFICES ASSUME Init PROVE OrderInv
  OBVIOUS
<1>1. /\ \A w \in Workers : wire[w] = <<>> /\ hand[w] = <<>> /\ logq[w] = <<>> /\ job[w] = NoJob
      /\ received = {} /\ lost = {}
  BY DEF Init
<1>2. \A w \in Workers : InPipeline(w) = {}
  BY <1>1, RangeOfEmpty DEF InPipeline
<1>3. Known = {}
  BY <1>1, <1>2 DEF Known, Arrived
<1>4. Sorted(<<>>)
  BY DEF Sorted
<1>5. InOrder
  BY <1>1, <1>2, <1>4, RangeOfEmpty DEF InOrder, Before, Apart
<1>6. OwnLines /\ Behind
  BY <1>1, <1>2, <1>3, WorkerAssumption DEF OwnLines, Behind
<1> QED BY <1>5, <1>6, InitTypeInv DEF OrderInv

(* The lines stay where they are: what was in order still is.               *)
LEMMA StillInOrder ==
    ASSUME InOrder, StillLines
    PROVE  InOrder' /\ Known' = Known /\ \A w \in Workers : InPipeline(w)' = InPipeline(w)
  BY DEF InOrder, StillLines, Known, Arrived, InPipeline, Before, Apart, Sorted

(* A step that touches neither lines nor tasks keeps the order. *)
LEMMA StillOrder ==
    ASSUME OrderInv, StillLines, StillTasks
    PROVE  InOrder' /\ OwnLines' /\ Behind'
<1>1. InOrder' /\ Known' = Known /\ \A w \in Workers : InPipeline(w)' = InPipeline(w)
  BY StillInOrder DEF OrderInv
<1> QED BY <1>1 DEF OrderInv, OwnLines, Behind, Ours, StillTasks

(* A new run: nothing is known of it, and nobody else has it.               *)
LEMMA GetJobOrder ==
    ASSUME OrderInv, NEW w \in Workers, GetJob(w), StillLines, UNCHANGED next
    PROVE  InOrder' /\ OwnLines' /\ Behind' /\ Known' = Known
<1>1. InOrder' /\ Known' = Known /\ \A v \in Workers : InPipeline(v)' = InPipeline(v)
  BY StillInOrder DEF OrderInv
<1>t. /\ job \in [Workers -> Jobs \cup {NoJob}] /\ run \in [Workers -> 0..MaxRuns]
      /\ gearRuns \in [Jobs -> 0..MaxRuns] /\ Known \subseteq Line
  BY KnownAreLines DEF OrderInv, TypeInv, TypeOK, RetrieverTypeOK, GearTypeOK
<1>2. PICK j \in Jobs : /\ gearRuns' = [gearRuns EXCEPT ![j] = @ + 1]
                        /\ job' = [job EXCEPT ![w] = j]
                        /\ run' = [run EXCEPT ![w] = gearRuns[j] + 1]
  BY DEF GetJob
<1>3. /\ job'[w] = j /\ run'[w] = gearRuns[j] + 1 /\ gearRuns'[j] = gearRuns[j] + 1
      /\ gearRuns[j] \in Nat
      /\ \A v \in Workers \ {w} : job'[v] = job[v] /\ run'[v] = run[v]
      /\ \A k \in Jobs \ {j} : gearRuns'[k] = gearRuns[k]
  BY <1>2, <1>t, WorkerAssumption
<1>4. \A l \in Known : ~(l.job = j /\ l.run = gearRuns[j] + 1)
  BY <1>3, <1>t, LineHas DEF OrderInv, Behind
<1>5. \A v \in Workers : ~(job[v] = j /\ run[v] = gearRuns[j] + 1)
  <2> SUFFICES ASSUME NEW v \in Workers, job[v] = j PROVE run[v] # gearRuns[j] + 1
    OBVIOUS
  <2>1. run[v] <= gearRuns[j]
    BY DEF OrderInv, Behind
  <2>2. run[v] \in Int
    BY <1>t, WorkerAssumption
  <2> QED BY <1>3, <2>1, <2>2
<1>6. \A v \in Workers : \A l \in InPipeline(v) : l \in Known
  BY DEF Known
<1>7. OwnLines'
  BY <1>1, <1>3, <1>4, <1>5, <1>6 DEF OrderInv, OwnLines, Ours
<1>8. \A l \in Known, v \in Workers : Ours(l, v)' => l.n < next'[v]
  BY <1>3, <1>4 DEF OrderInv, Behind, Ours
<1>9. \A l \in Known : l.run <= gearRuns'[l.job]
  <2> SUFFICES ASSUME NEW l \in Known PROVE l.run <= gearRuns'[l.job]
    OBVIOUS
  <2>1. l.job \in Jobs /\ l.run \in Int /\ l.run <= gearRuns[l.job] /\ gearRuns[l.job] \in Int
    BY <1>t, LineHas DEF OrderInv, Behind
  <2> QED BY <1>3, <2>1
<1>10. \A v \in Workers : job'[v] \in Jobs => run'[v] <= gearRuns'[job'[v]]
  <2> SUFFICES ASSUME NEW v \in Workers, job'[v] \in Jobs PROVE run'[v] <= gearRuns'[job'[v]]
    OBVIOUS
  <2>1. CASE v = w
    BY <1>3, <2>1
  <2>2. CASE v # w
    <3>1. job[v] \in Jobs /\ run[v] \in Int /\ run[v] <= gearRuns[job[v]] /\ gearRuns[job[v]] \in Int
      BY <1>3, <1>t, <2>2 DEF OrderInv, Behind
    <3> QED BY <1>3, <2>2, <3>1
  <2> QED BY <2>1, <2>2
<1> QED BY <1>1, <1>7, <1>8, <1>9, <1>10 DEF Behind

(* A run that is over: no line is anybody's of it any more.                 *)
LEMMA LeftTask ==
    ASSUME TypeInv, NEW w \in Workers, LeavesTask(w)
    PROVE  /\ job'[w] = NoJob /\ \A l \in Line : ~Ours(l, w)'
           /\ gearRuns' = gearRuns
           /\ \A v \in Workers \ {w} : job'[v] = job[v] /\ run'[v] = run[v] /\ next'[v] = next[v]
<1>1. /\ job \in [Workers -> Jobs \cup {NoJob}] /\ run \in [Workers -> 0..MaxRuns]
      /\ next \in [Workers -> 1..(MaxLines + 1)]
  BY DEF TypeInv, TypeOK, RetrieverTypeOK
<1> QED BY <1>1, LineHas, WorkerAssumption DEF LeavesTask, Ours

(* So does one that leaves a task, if no worker has more in its pipeline     *)
(* for it.                                                                   *)
LEMMA LeavesOrder ==
    ASSUME OrderInv, NEW w \in Workers, LeavesTask(w), Known' = Known,
           \A v \in Workers : InPipeline(v)' \subseteq InPipeline(v)
    PROVE  OwnLines' /\ Behind'
<1>1. Known \subseteq Line /\ \A v \in Workers : InPipeline(v) \subseteq Known
  BY KnownAreLines DEF OrderInv, Known
<1>2. /\ job'[w] = NoJob /\ \A l \in Line : ~Ours(l, w)'
      /\ gearRuns' = gearRuns
      /\ \A v \in Workers \ {w} : job'[v] = job[v] /\ run'[v] = run[v] /\ next'[v] = next[v]
  BY LeftTask DEF OrderInv
<1>3. \A v \in Workers \ {w} : \A l \in Line : Ours(l, v)' <=> Ours(l, v)
  BY <1>2 DEF Ours
<1>4. OwnLines'
  <2> SUFFICES ASSUME NEW u \in Workers, NEW v \in Workers
               PROVE  /\ job'[u] \in Jobs /\ job'[u] = job'[v] /\ run'[u] = run'[v] => u = v
                      /\ \A l \in InPipeline(u)' : Ours(l, v)' => u = v
                      /\ \A l \in InPipeline(u)', m \in InPipeline(v)' : SameRun(l, m) => u = v
    BY DEF OwnLines, SameRun
  <2>1. job'[u] \in Jobs /\ job'[u] = job'[v] /\ run'[u] = run'[v] => u = v
    BY <1>2, WorkerAssumption DEF OrderInv, OwnLines
  <2>2. \A l \in InPipeline(u)' : Ours(l, v)' => u = v
    BY <1>1, <1>2, <1>3 DEF OrderInv, OwnLines
  <2> QED BY <2>1, <2>2 DEF OrderInv, OwnLines
<1>5. Behind'
  BY <1>1, <1>2, <1>3, WorkerAssumption DEF OrderInv, Behind
<1> QED BY <1>4, <1>5

(* put(): the line is the first of its number that is known of its run.     *)
LEMMA PutOrder ==
    ASSUME OrderInv, NEW w \in Workers, Put(w),
           UNCHANGED <<wire, hand, received, lost, job, run, gearRuns>>
    PROVE  InOrder' /\ OwnLines' /\ Behind' /\ Known' = Known \cup {OutEvent(w)}
<1> DEFINE x == OutEvent(w)
<1>t. /\ logq \in [Workers -> Seq(Line)] /\ next \in [Workers -> 1..(MaxLines + 1)]
      /\ job \in [Workers -> Jobs \cup {NoJob}] /\ Known \subseteq Line
  BY KnownAreLines DEF OrderInv, TypeInv, TypeOK, QueueTypeOK, RetrieverTypeOK
<1>1. /\ x \in Line /\ x.job = job[w] /\ x.run = run[w] /\ x.n = next[w] /\ job[w] \in Jobs
  <2>1. rpc[w] \in {"put", "putScored"}
    BY DEF Put
  <2> QED BY <2>1, OutEventType DEF OutEvent, OrderInv, TypeInv, RetrieverOK
<1>2. logq' = [logq EXCEPT ![w] = Append(logq[w], x)] /\ next' = [next EXCEPT ![w] = next[w] + 1]
  BY DEF Put
<1> HIDE DEF x
<1>3. /\ logq'[w] = Append(logq[w], x) /\ next'[w] = next[w] + 1 /\ next[w] \in Int
      /\ Range(logq'[w]) = Range(logq[w]) \cup {x}
      /\ \A v \in Workers \ {w} : logq'[v] = logq[v] /\ next'[v] = next[v] /\ next[v] \in Int
  BY <1>2, <1>t, RangeOfAppend, WorkerAssumption
<1>4. /\ InPipeline(w)' = InPipeline(w) \cup {x}
      /\ \A v \in Workers \ {w} : InPipeline(v)' = InPipeline(v)
  BY <1>3 DEF InPipeline
<1>5. Known' = Known \cup {x}
  BY <1>4 DEF Known, Arrived
<1>6. \A l \in Known : SameRun(l, x) => l.n < x.n
  BY <1>1 DEF OrderInv, Behind, Ours, SameRun
<1>7. /\ received \subseteq Known /\ lost \subseteq Known
      /\ \A v \in Workers : /\ InPipeline(v) \subseteq Known /\ Range(wire[v]) \subseteq Known
                          /\ Range(hand[v]) \subseteq Known /\ Range(logq[v]) \subseteq Known
  BY DEF Known, Arrived, InPipeline
<1>8. InOrder'
  <2>1. Sorted(logq'[w])
    BY <1>1, <1>3, <1>6, <1>7, <1>t, SortedAppend DEF Before, OrderInv, InOrder
  <2>2. \A S \in SUBSET Known : Before(S, {x}) /\ Apart(S, {x})
    BY <1>1, <1>6, <1>t, LineHas DEF Before, Apart
  <2>3. /\ Before(Range(wire[w]), Range(logq[w]) \cup {x}) /\ Before(Range(hand[w]), Range(logq[w]) \cup {x})
        /\ Before(received, InPipeline(w) \cup {x}) /\ Apart(lost, InPipeline(w) \cup {x})
    BY <1>7, <2>2 DEF Before, Apart, OrderInv, InOrder
  <2>4. UNCHANGED <<wire, hand, received, lost>>
    BY DEF Put, RetrieverOnly
  <2>5. ASSUME NEW v \in Workers
        PROVE  /\ Sorted(wire[v]) /\ Sorted(logq'[v])
               /\ Before(Range(wire[v]), Range(hand[v])) /\ Before(Range(wire[v]), Range(logq'[v]))
               /\ Before(Range(hand[v]), Range(logq'[v]))
               /\ Before(received, InPipeline(v)') /\ Apart(lost, InPipeline(v)')
    <3>1. CASE v = w
      BY <1>3, <1>4, <2>1, <2>3, <3>1 DEF InOrder, OrderInv
    <3>2. CASE v # w
      BY <1>3, <1>4, <3>2 DEF InOrder, OrderInv
    <3> QED BY <3>1, <3>2
  <2> QED BY <2>4, <2>5 DEF InOrder, Before, Apart
<1>9. OwnLines'
  <2>1. \A v \in Workers : Ours(x, v) => v = w
    BY <1>1 DEF OrderInv, OwnLines, Ours
  <2>2. \A v \in Workers : \A m \in InPipeline(v) : SameRun(x, m) \/ SameRun(m, x) => v = w
    BY <1>1 DEF OrderInv, OwnLines, Ours, SameRun
  <2>3. \A u, v \in Workers : job'[u] \in Jobs /\ job'[u] = job'[v] /\ run'[u] = run'[v] => u = v
    BY DEF OrderInv, OwnLines
  <2>4. \A u, v \in Workers : \A l \in InPipeline(u)' : Ours(l, v) => u = v
    BY <1>4, <2>1 DEF OrderInv, OwnLines
  <2>5. \A u, v \in Workers : \A l \in InPipeline(u)', m \in InPipeline(v)' : SameRun(l, m) => u = v
    BY <1>4, <2>2 DEF OrderInv, OwnLines
  <2> QED BY <2>3, <2>4, <2>5 DEF OwnLines, Ours, SameRun
<1>10. Behind'
  <2>1. \A l \in Known', v \in Workers : Ours(l, v) => l.n < next'[v]
    <3> SUFFICES ASSUME NEW l \in Known', NEW v \in Workers, Ours(l, v) PROVE l.n < next'[v]
      OBVIOUS
    <3>1. CASE l \in Known
      <4>1. l.n < next[v] /\ l.n \in Int
        BY <3>1, <1>t, LineHas DEF OrderInv, Behind
      <4> QED BY <1>3, <4>1
    <3>2. CASE l = x
      <4>1. v = w
        BY <1>1, <3>2 DEF OrderInv, OwnLines, Ours
      <4> QED BY <1>1, <1>3, <3>2, <4>1
    <3> QED BY <1>5, <3>1, <3>2
  <2>2. \A l \in Known' : l.run <= gearRuns[l.job]
    BY <1>1, <1>5 DEF OrderInv, Behind
  <2> QED BY <2>1, <2>2 DEF Behind, Ours, OrderInv
<1> QED BY <1>5, <1>8, <1>9, <1>10 DEF x

(* No line enters or leaves: what OwnLines and Behind say stays.            *)
LEMMA SameOwners ==
    ASSUME OrderInv, StillTasks, Known' = Known,
           \A v \in Workers : InPipeline(v)' \subseteq InPipeline(v)
    PROVE  OwnLines' /\ Behind'
<1>1. OwnLines'
  <2>1. \A u, v \in Workers : job'[u] \in Jobs /\ job'[u] = job'[v] /\ run'[u] = run'[v] => u = v
    BY DEF OrderInv, OwnLines, StillTasks
  <2>2. \A u, v \in Workers : \A l \in InPipeline(u)' : Ours(l, v) => u = v
    BY DEF OrderInv, OwnLines
  <2>3. \A u, v \in Workers : \A l \in InPipeline(u)', m \in InPipeline(v)' : SameRun(l, m) => u = v
    BY DEF OrderInv, OwnLines
  <2> QED BY <2>1, <2>2, <2>3 DEF OwnLines, Ours, SameRun, StillTasks
<1>2. Behind'
  BY DEF OrderInv, Behind, Ours, StillTasks
<1> QED BY <1>1, <1>2

(* get(): the first line of the queue goes into the hand.                   *)
LEMMA TakeOrder ==
    ASSUME OrderInv, NEW w \in Workers, Take(w), UNCHANGED <<wire, received, lost>>, StillTasks
    PROVE  InOrder' /\ OwnLines' /\ Behind' /\ Known' = Known
<1>t. /\ logq \in [Workers -> Seq(Line)] /\ hand \in [Workers -> Seq(Line)]
      /\ Len(hand[w]) = 0
  BY DEF OrderInv, TypeInv, TypeOK, QueueTypeOK, ProcessorTypeOK, Take
<1>1. /\ logq[w] # <<>> /\ hand' = [hand EXCEPT ![w] = <<Head(logq[w])>>]
      /\ logq' = [logq EXCEPT ![w] = Tail(logq[w])]
  BY DEF Take
<1>2. /\ logq'[w] = Tail(logq[w]) /\ hand'[w] = <<Head(logq[w])>> /\ hand[w] = <<>>
      /\ \A v \in Workers \ {w} : logq'[v] = logq[v] /\ hand'[v] = hand[v]
  BY <1>1, <1>t
<1>3. /\ Range(hand'[w]) = {Head(logq[w])} /\ Range(hand[w]) = {}
      /\ Range(logq[w]) = {Head(logq[w])} \cup Range(logq'[w])
  BY <1>1, <1>2, <1>t, RangeOfSingle, RangeOfEmpty, RangeOfTail
<1>4. \A v \in Workers : InPipeline(v)' = InPipeline(v)
  BY <1>2, <1>3 DEF InPipeline
<1>5. Known' = Known
  BY <1>4 DEF Known, Arrived
<1>6. Sorted(logq'[w]) /\ Before(Range(hand'[w]), Range(logq'[w]))
  BY <1>1, <1>2, <1>3, <1>t, SortedTail DEF OrderInv, InOrder
<1>7. Before(Range(wire[w]), Range(hand'[w])) /\ Before(Range(wire[w]), Range(logq'[w]))
  BY <1>3 DEF OrderInv, InOrder, Before
<1>8. InOrder'
  BY <1>2, <1>4, <1>6, <1>7 DEF OrderInv, InOrder, Before, Apart
<1> QED BY <1>4, <1>5, <1>8, SameOwners

(* sendall(): the line in the hand goes behind those on the wire, or is     *)
(* lost on a connection whose other end has died.                           *)
LEMMA SendOrder ==
    ASSUME OrderInv, NEW w \in Workers, Send(w), UNCHANGED <<logq, received>>, StillTasks
    PROVE  InOrder' /\ OwnLines' /\ Behind' /\ Known' = Known
<1> DEFINE x == hand[w][1]
<1>t. /\ wire \in [Workers -> Seq(Line)] /\ hand \in [Workers -> Seq(Line)] /\ Len(hand[w]) = 1
      /\ Known \subseteq Line
  BY KnownAreLines DEF OrderInv, TypeInv, TypeOK, ProcessorTypeOK, Send
<1>1. x \in Line /\ Range(hand[w]) = {x}
  <2>1. hand[w] \in Seq(Line) /\ 1 \in 1..Len(hand[w]) /\ DOMAIN hand[w] = {1}
    BY <1>t
  <2> QED BY <2>1 DEF Range
<1>2. /\ hand' = [hand EXCEPT ![w] = <<>>]
      /\ \/ wire' = [wire EXCEPT ![w] = Append(wire[w], x)] /\ lost' = lost
         \/ lost' = lost \cup Range(hand[w]) /\ wire' = wire
  BY DEF Send, Sent
<1> HIDE DEF x
<1>3. /\ hand'[w] = <<>> /\ Range(hand'[w]) = {}
      /\ \A v \in Workers \ {w} : hand'[v] = hand[v]
  BY <1>2, <1>t, RangeOfEmpty
<1>4. x \in InPipeline(w)
  BY <1>1 DEF InPipeline
<1>5. /\ Before(Range(wire[w]), {x}) /\ Before({x}, Range(logq[w]))
  BY <1>1 DEF OrderInv, InOrder
<1>6. CASE wire' = [wire EXCEPT ![w] = Append(wire[w], x)] /\ lost' = lost
  <2>1. /\ wire'[w] = Append(wire[w], x) /\ Range(wire'[w]) = Range(wire[w]) \cup {x}
        /\ \A v \in Workers \ {w} : wire'[v] = wire[v]
    BY <1>6, <1>t, RangeOfAppend
  <2>2. \A v \in Workers : InPipeline(v)' = InPipeline(v)
    BY <1>1, <1>3, <2>1 DEF InPipeline
  <2>3. Known' = Known
    BY <1>6, <2>2 DEF Known, Arrived
  <2>4. Sorted(wire'[w])
    BY <1>1, <1>5, <1>t, <2>1, SortedAppend DEF OrderInv, InOrder
  <2>5. Before(Range(wire'[w]), Range(hand'[w])) /\ Before(Range(wire'[w]), Range(logq[w]))
        /\ Before(Range(hand'[w]), Range(logq[w]))
    BY <1>3, <1>5, <2>1 DEF OrderInv, InOrder, Before
  <2>6. InOrder'
    BY <1>3, <1>6, <2>1, <2>2, <2>4, <2>5 DEF OrderInv, InOrder, Before, Apart
  <2> QED BY <2>2, <2>3, <2>6, SameOwners
<1>7. CASE lost' = lost \cup Range(hand[w]) /\ wire' = wire
  <2>1. /\ InPipeline(w)' = Range(wire[w]) \cup Range(logq[w])
        /\ InPipeline(w) = InPipeline(w)' \cup {x}
        /\ \A v \in Workers \ {w} : InPipeline(v)' = InPipeline(v)
    BY <1>1, <1>3, <1>7 DEF InPipeline
  <2>2. Known' = Known
    BY <1>1, <1>7, <2>1 DEF Known, Arrived
  <2>3. ASSUME NEW v \in Workers PROVE Apart(lost', InPipeline(v)')
    <3> SUFFICES ASSUME NEW m \in InPipeline(v)', SameRun(x, m) PROVE x.n # m.n
      BY <1>1, <1>7, <2>1 DEF Apart, OrderInv, InOrder
    <3>1. v = w
      BY <1>4, <2>1 DEF OrderInv, OwnLines
    <3>2. m \in Line
      BY <1>t, <2>1, <3>1 DEF Known
    <3>3. x.n < m.n \/ m.n < x.n
      BY <1>5, <2>1, <3>1 DEF Before, SameRun
    <3> QED BY <1>1, <3>2, <3>3, LineHas
  <2>4. InOrder'
    BY <1>3, <1>7, <2>1, <2>3 DEF OrderInv, InOrder, Before
  <2> QED BY <2>1, <2>2, <2>4, SameOwners
<1> QED BY <1>2, <1>6, <1>7

(* The end of a process: what is on the wire stays, the rest is lost.       *)
LEMMA ExitOrder ==
    ASSUME OrderInv, NEW w \in Workers, LeavesTask(w), DropsLines(w)
    PROVE  InOrder' /\ OwnLines' /\ Behind' /\ Known' = Known
<1> DEFINE D == Range(logq[w]) \cup Range(hand[w])
<1>t. /\ logq \in [Workers -> Seq(Line)] /\ hand \in [Workers -> Seq(Line)]
      /\ Known \subseteq Line
  BY KnownAreLines DEF OrderInv, TypeInv, TypeOK, QueueTypeOK, ProcessorTypeOK
<1>1. /\ logq'[w] = <<>> /\ hand'[w] = <<>> /\ Range(logq'[w]) = {} /\ Range(hand'[w]) = {}
      /\ \A v \in Workers \ {w} : logq'[v] = logq[v] /\ hand'[v] = hand[v]
      /\ lost' = lost \cup D /\ wire' = wire /\ received' = received
  BY <1>t, RangeOfEmpty DEF DropsLines
<1>2. /\ InPipeline(w)' = Range(wire[w]) /\ InPipeline(w) = Range(wire[w]) \cup D
      /\ \A v \in Workers \ {w} : InPipeline(v)' = InPipeline(v)
  BY <1>1 DEF InPipeline
<1>3. Known' = Known
  BY <1>1, <1>2 DEF Known, Arrived
<1>4. Before(Range(wire[w]), D)
  BY DEF OrderInv, InOrder, Before
<1>5. D \subseteq Line /\ Range(wire[w]) \subseteq Line
  BY <1>2, <1>t DEF Known
<1> HIDE DEF D
<1>6. ASSUME NEW v \in Workers PROVE Apart(lost', InPipeline(v)')
  <2> SUFFICES ASSUME NEW l \in D, NEW m \in InPipeline(v)', SameRun(l, m) PROVE l.n # m.n
    BY <1>1, <1>2 DEF Apart, OrderInv, InOrder
  <2>1. v = w
    BY <1>2 DEF OrderInv, OwnLines
  <2>2. m.n < l.n /\ m \in Line /\ l \in Line
    BY <1>2, <1>4, <1>5, <2>1 DEF Before, SameRun
  <2> QED BY <2>2, LineHas
<1>7. Sorted(<<>>)
  BY DEF Sorted
<1>8. InOrder'
  BY <1>1, <1>2, <1>6, <1>7 DEF OrderInv, InOrder, Before
<1> QED BY <1>2, <1>3, <1>8, LeavesOrder

(* logstash reads the first line on a wire.                                 *)
LEMMA DeliverOrder ==
    ASSUME OrderInv, NEW w \in Workers, Deliver(w), UNCHANGED <<hand, logq, lost>>, StillTasks
    PROVE  InOrder' /\ OwnLines' /\ Behind' /\ Known' = Known
<1> DEFINE x == Head(wire[w])
<1>t. wire \in [Workers -> Seq(Line)] /\ Known \subseteq Line
  BY KnownAreLines DEF OrderInv, TypeInv, TypeOK, ProcessorTypeOK
<1>1. /\ wire[w] # <<>> /\ wire' = [wire EXCEPT ![w] = Tail(wire[w])]
      /\ received' = received \cup {x}
  BY DEF Deliver
<1>2. /\ wire'[w] = Tail(wire[w]) /\ \A v \in Workers \ {w} : wire'[v] = wire[v]
      /\ Range(wire[w]) = {x} \cup Range(wire'[w])
  BY <1>1, <1>t, RangeOfTail
<1>3. Sorted(wire'[w]) /\ Before({x}, Range(wire'[w]))
  BY <1>1, <1>2, <1>t, SortedTail DEF OrderInv, InOrder
<1> HIDE DEF x
<1>4. /\ InPipeline(w) = InPipeline(w)' \cup {x}
      /\ \A v \in Workers \ {w} : InPipeline(v)' = InPipeline(v)
  BY <1>2 DEF InPipeline
<1>5. Known' = Known
  BY <1>1, <1>4 DEF Known, Arrived
<1>6. Before({x}, InPipeline(w)')
  BY <1>2, <1>3 DEF InPipeline, OrderInv, InOrder, Before
<1>7. ASSUME NEW v \in Workers PROVE Before(received', InPipeline(v)')
  <2> SUFFICES ASSUME NEW m \in InPipeline(v)', SameRun(x, m) PROVE x.n < m.n
    BY <1>1, <1>4 DEF Before, OrderInv, InOrder
  <2>1. v = w
    BY <1>4 DEF OrderInv, OwnLines
  <2> QED BY <1>6, <2>1 DEF Before
<1>8. InOrder'
  BY <1>2, <1>3, <1>4, <1>7 DEF OrderInv, InOrder, Before, Apart
<1> QED BY <1>4, <1>5, <1>8, SameOwners

(* logstash dies, and with it all that is on the wires.                     *)
LEMMA LogstashDiesOrder ==
    ASSUME OrderInv, LogstashDies, UNCHANGED <<hand, logq, received>>, StillTasks
    PROVE  InOrder' /\ OwnLines' /\ Behind' /\ Known' = Known
<1> DEFINE F == UNION {Range(wire[w]) : w \in Workers}
<1>t. Known \subseteq Line
  BY KnownAreLines DEF OrderInv
<1>1. /\ lost' = lost \cup F
      /\ \A v \in Workers : wire'[v] = <<>> /\ Range(wire'[v]) = {}
  BY RangeOfEmpty DEF LogstashDies
<1>2. /\ \A v \in Workers : InPipeline(v)' = Range(hand[v]) \cup Range(logq[v])
      /\ \A v \in Workers : InPipeline(v) = InPipeline(v)' \cup Range(wire[v])
  BY <1>1 DEF InPipeline
<1>3. Known' = Known
  BY <1>1, <1>2 DEF Known, Arrived
<1>4. ASSUME NEW v \in Workers PROVE Apart(lost', InPipeline(v)')
  <2> SUFFICES ASSUME NEW u \in Workers, NEW l \in Range(wire[u]), NEW m \in InPipeline(v)', SameRun(l, m)
               PROVE  l.n # m.n
    BY <1>1, <1>2 DEF Apart, OrderInv, InOrder
  <2>1. l \in InPipeline(u) /\ m \in InPipeline(v) /\ l \in Line /\ m \in Line
    BY <1>2, <1>t DEF Known
  <2>2. u = v
    BY <2>1 DEF OrderInv, OwnLines
  <2>3. l.n < m.n
    BY <1>2, <2>2 DEF OrderInv, InOrder, Before
  <2> QED BY <2>1, <2>3, LineHas
<1>5. Sorted(<<>>)
  BY DEF Sorted
<1>6. InOrder'
  BY <1>1, <1>2, <1>4, <1>5 DEF OrderInv, InOrder, Before
<1>7. \A v \in Workers : InPipeline(v)' \subseteq InPipeline(v)
  BY <1>2
<1> QED BY <1>3, <1>6, <1>7, SameOwners

(* What a step makes of the lines that are known: it adds the one it puts   *)
(* on a queue, or none.                                                     *)
KnownStep ==
    \/ Known' = Known
    \/ \E w \in Workers : Put(w) /\ UNCHANGED <<job, run>> /\ Known' = Known \cup {OutEvent(w)}

(* Every step keeps the order, and adds to the known lines at most the next  *)
(* one of a log.                                                             *)
LEMMA StepOrderAndKnown ==
    ASSUME OrderInv, [Next]_vars
    PROVE  InOrder' /\ OwnLines' /\ Behind' /\ KnownStep
<1>1. LineStep
  BY StepsOfLines
<1>2. ASSUME NEW w \in Workers, LeavesTask(w), StillLines
      PROVE  InOrder' /\ OwnLines' /\ Behind' /\ Known' = Known
  <2>1. InOrder' /\ Known' = Known /\ \A v \in Workers : InPipeline(v)' = InPipeline(v)
    BY <1>2, StillInOrder DEF OrderInv
  <2> QED BY <1>2, <2>1, LeavesOrder
<1>3. ASSUME StillLines PROVE Known' = Known
  BY <1>3, StillInOrder DEF OrderInv
<1> QED BY <1>1, <1>2, <1>3, StillOrder, GetJobOrder, PutOrder, TakeOrder, SendOrder, ExitOrder,
           DeliverOrder, LogstashDiesOrder DEF LineStep, KnownStep

(* So every step keeps the invariant. *)
LEMMA StepOrder == OrderInv /\ [Next]_vars => OrderInv'
  BY StepOrderAndKnown, StepTypeInv DEF OrderInv

(* And the invariant gives the property. *)
LEMMA OrderGivesInOrderOnce == OrderInv => InOrderOnce
<1> SUFFICES ASSUME OrderInv, NEW w \in Workers
             PROVE  /\ Sorted(Pipeline(w))
                    /\ Before(received, InPipeline(w)) /\ Apart(lost, InPipeline(w))
  BY DEF InOrderOnce, Sorted, Before, Apart
<1>t. wire[w] \in Seq(Line) /\ hand[w] \in Seq(Line) /\ logq[w] \in Seq(Line)
  BY DEF OrderInv, TypeInv, TypeOK, QueueTypeOK, ProcessorTypeOK
<1>h. Len(hand[w]) = IF ppc[w] \in {"get", "off", "gaveup"} THEN 0 ELSE 1
  BY DEF OrderInv, TypeInv, TypeOK, ProcessorTypeOK
<1>1. Sorted(hand[w])
  <2>1. Len(hand[w]) = 0 \/ Len(hand[w]) = 1
    BY <1>h
  <2> QED BY <2>1 DEF Sorted
<1>2. /\ Sorted(wire[w] \o hand[w]) /\ wire[w] \o hand[w] \in Seq(Line)
      /\ Range(wire[w] \o hand[w]) = Range(wire[w]) \cup Range(hand[w])
  BY <1>1, <1>t, SortedConcat DEF OrderInv, InOrder
<1>3. Before(Range(wire[w] \o hand[w]), Range(logq[w]))
  BY <1>2 DEF OrderInv, InOrder, Before
<1>4. Sorted((wire[w] \o hand[w]) \o logq[w])
  BY <1>2, <1>3, <1>t, SortedConcat DEF OrderInv, InOrder
<1> QED BY <1>4 DEF Pipeline, OrderInv, InOrder

(* The lines of a log reach logstash in their order and none of them twice, *)
(* through queue, hand, resend, crashes and jobs handed out again.          *)
THEOREM LinesInOrderOnce == Spec => []InOrderOnce
<1>1. QED BY InitOrder, StepOrder, OrderGivesInOrderOnce, PTL DEF Spec

-----------------------------------------------------------------------------
(* The filter and the scores. *)

(* How a filter comes to be active after a step: it was, or the loop is     *)
(* before its first line; and its worker is still at the same run.          *)
LEMMA FilterMoves ==
    ASSUME TypeInv, FilterReapedBeforeAnswer, [Next]_vars, NEW v \in Workers, active'[v]
    PROVE  /\ UNCHANGED <<job[v], run[v]>>
           /\ active[v] \/ (rpc[v] = "filter" /\ rpc'[v] = "line")
<1>t. /\ active \in [Workers -> BOOLEAN] /\ job \in [Workers -> Jobs \cup {NoJob}]
      /\ run \in [Workers -> 0..MaxRuns]
      /\ rpc \in [Workers -> {"idle", "fetch", "filter", "line", "put", "putScored", "abort",
                              "reap", "reapAbort", "complete", "exception", "off"}]
  BY DEF TypeInv, TypeOK, RetrieverTypeOK
<1> DEFINE G == /\ UNCHANGED <<job[v], run[v]>>
                /\ active[v] \/ (rpc[v] = "filter" /\ rpc'[v] = "line")
<1> USE DEF Goto, gearVars, taskVars, loopVars, filterVars
<1>u. UNCHANGED <<job, run, active>> => G
  OBVIOUS
<1>1. CASE UNCHANGED vars
  BY <1>1, <1>u DEF vars, retrieverVars
<1>2. ASSUME NEW w \in Workers, GetJob(w) PROVE G
  <2>1. /\ rpc[w] = "idle" /\ active' = active
        /\ \E j \in Jobs : job' = [job EXCEPT ![w] = j] /\ run' = [run EXCEPT ![w] = gearRuns[j] + 1]
    BY <1>2 DEF GetJob
  <2>2. v # w
    BY <2>1 DEF FilterReapedBeforeAnswer
  <2> QED BY <1>t, <2>1, <2>2
<1>3. ASSUME NEW w \in Workers, CreateFilter(w) PROVE G
  BY <1>3, <1>t DEF CreateFilter
<1>4. ASSUME NEW w \in Workers, Fetch(w) \/ Process(w) \/ Put(w) \/ Close(w) \/ Reap(w) PROVE G
  BY <1>4, <1>t DEF Fetch, Process, Put, Close, Reap, Reaped
<1>5. ASSUME NEW w \in Workers, WorkComplete(w) \/ WorkException(w) PROVE G
  <2>1. rpc[w] \in {"complete", "exception"} /\ active' = active
        /\ (UNCHANGED <<job, run>> \/ (job' = [job EXCEPT ![w] = NoJob] /\ run' = [run EXCEPT ![w] = 0]))
    BY <1>5 DEF WorkComplete, WorkException, Return
  <2>2. v # w
    BY <2>1 DEF FilterReapedBeforeAnswer
  <2> QED BY <1>t, <2>1, <2>2
<1>6. ASSUME NEW w \in Workers, NEW state, Exit(w, state) PROVE G
  <2>1. /\ active' = [active EXCEPT ![w] = FALSE]
        /\ job' = [job EXCEPT ![w] = NoJob] /\ run' = [run EXCEPT ![w] = 0]
    BY <1>6 DEF Exit
  <2> QED BY <1>t, <2>1
<1>7. ASSUME NEW w \in Workers, ProcessorStep(w) PROVE G
  <2>1. CASE GiveUp(w)
    BY <2>1, <1>6 DEF GiveUp
  <2>2. CASE ~GiveUp(w)
    BY <1>7, <2>2, <1>u DEF ProcessorStep, Take, Connect, Send, Sent, SendFails, Wait90, Reconnect,
                            ProcessorOnly, retrieverVars
  <2> QED BY <2>1, <2>2
<1>8. ASSUME NEW w \in Workers, Stop(w) PROVE G
  BY <1>6, <1>8 DEF Stop
<1>9. ASSUME NEW w \in Workers,
             Start(w) \/ LoseGeard(w) \/ CRMDies(w) \/ CRMExits(w) \/ Deliver(w)
      PROVE  G
  BY <1>9, <1>u DEF Start, LoseGeard, CRMDies, CRMExits, Deliver, retrieverVars
<1>10. CASE LogstashDies \/ LogstashStarts
  BY <1>10, <1>u DEF LogstashDies, LogstashStarts, retrieverVars
<1> QED BY <1>1, <1>2, <1>3, <1>4, <1>5, <1>7, <1>8, <1>9, <1>10 DEF Next, RetrieverStep

(* What stands of a line that is about to be put on the queue.              *)
AtPut == \A w \in Workers : rpc[w] \in {"put", "putScored"} => (active[w] <=> rpc[w] = "putScored")

(* It stands in every step. *)
LEMMA StepAtPut == TypeInv /\ AtPut /\ [Next]_vars => AtPut'
<1> SUFFICES ASSUME TypeInv, AtPut, [Next]_vars PROVE AtPut'
  OBVIOUS
<1>t. /\ active \in [Workers -> BOOLEAN]
      /\ rpc \in [Workers -> {"idle", "fetch", "filter", "line", "put", "putScored", "abort",
                              "reap", "reapAbort", "complete", "exception", "off"}]
  BY DEF TypeInv, TypeOK, RetrieverTypeOK
<1> USE DEF Goto, filterVars
<1>u. UNCHANGED <<rpc, active>> => AtPut'
  BY DEF AtPut
<1>v. ASSUME NEW w \in Workers, NEW pc, rpc' = [rpc EXCEPT ![w] = pc], pc \notin {"put", "putScored"},
             \A u \in Workers \ {w} : active'[u] = active[u]
      PROVE  AtPut'
  BY <1>v, <1>t DEF AtPut
<1>1. CASE UNCHANGED vars
  BY <1>1, <1>u DEF vars, retrieverVars
<1>2. ASSUME NEW w \in Workers, Process(w) PROVE AtPut'
  BY <1>2, <1>t DEF Process, AtPut
<1>3. ASSUME NEW w \in Workers,
             GetJob(w) \/ Fetch(w) \/ CreateFilter(w) \/ Put(w) \/ Close(w) \/ Reap(w)
                \/ WorkComplete(w) \/ WorkException(w)
      PROVE  AtPut'
  <2>1. \E pc : rpc' = [rpc EXCEPT ![w] = pc] /\ pc \notin {"put", "putScored"}
    <3>1. CASE GetJob(w) \/ Fetch(w) \/ CreateFilter(w)
      BY <3>1 DEF GetJob, Fetch, CreateFilter
    <3>2. CASE Put(w) \/ Close(w)
      BY <3>2 DEF Put, Close
    <3>3. CASE Reap(w) \/ WorkComplete(w) \/ WorkException(w)
      BY <3>3 DEF Reap, WorkComplete, WorkException, Return
    <3> QED BY <1>3, <3>1, <3>2, <3>3
  <2>2. \A u \in Workers \ {w} : active'[u] = active[u]
    BY <1>3, <1>t DEF GetJob, Fetch, CreateFilter, Put, Close, Reap, Reaped, WorkComplete, WorkException, Return
  <2> QED BY <1>v, <2>1, <2>2
<1>4. ASSUME NEW w \in Workers, NEW state, Exit(w, state) PROVE AtPut'
  <2>1. rpc' = [rpc EXCEPT ![w] = "off"] /\ active' = [active EXCEPT ![w] = FALSE]
    BY <1>4 DEF Exit
  <2> QED BY <1>t, <1>v, <2>1
<1>5. ASSUME NEW w \in Workers, ProcessorStep(w) PROVE AtPut'
  <2>1. CASE GiveUp(w)
    BY <2>1, <1>4 DEF GiveUp
  <2>2. CASE ~GiveUp(w)
    BY <1>5, <2>2, <1>u DEF ProcessorStep, Take, Connect, Send, Sent, SendFails, Wait90, Reconnect,
                            ProcessorOnly, retrieverVars
  <2> QED BY <2>1, <2>2
<1>6. ASSUME NEW w \in Workers, Stop(w) PROVE AtPut'
  BY <1>4, <1>6 DEF Stop
<1>7. ASSUME NEW w \in Workers, Start(w) PROVE AtPut'
  BY <1>7, <1>v DEF Start
<1>8. ASSUME NEW w \in Workers, LoseGeard(w) \/ CRMDies(w) \/ CRMExits(w) \/ Deliver(w) PROVE AtPut'
  BY <1>8, <1>u DEF LoseGeard, CRMDies, CRMExits, Deliver, retrieverVars
<1>9. CASE LogstashDies \/ LogstashStarts
  BY <1>9, <1>u DEF LogstashDies, LogstashStarts, retrieverVars
<1> QED BY <1>1, <1>2, <1>3, <1>5, <1>6, <1>7, <1>8, <1>9 DEF Next, RetrieverStep

(* An active filter has scored all there is of its run.                     *)
ActiveScores == \A w \in Workers : active[w] => \A l \in Known : Ours(l, w) => l.scored

ScoreInv == OrderInv /\ FilterReapedBeforeAnswer /\ AtPut /\ ActiveScores /\ ScoredIsPrefix

(* Every step keeps what is known of the scores. *)
LEMMA StepScore == ScoreInv /\ [Next]_vars => ScoreInv'
<1> SUFFICES ASSUME ScoreInv, [Next]_vars PROVE ScoreInv'
  OBVIOUS
<1>1. OrderInv' /\ FilterReapedBeforeAnswer' /\ AtPut' /\ KnownStep /\ TypeInv
  BY StepOrder, StepOrderAndKnown, StepFilter, StepAtPut DEF ScoreInv, OrderInv
<1>t. Known \subseteq Line
  BY <1>1, KnownAreLines
<1>2. ASSUME NEW v \in Workers, active'[v] PROVE \A l \in Known : Ours(l, v)' => l.scored
  <2>1. /\ UNCHANGED <<job[v], run[v]>>
        /\ active[v] \/ rpc[v] = "filter"
    BY <1>1, <1>2, FilterMoves DEF ScoreInv
  <2>2. CASE active[v]
    BY <2>1, <2>2 DEF ScoreInv, ActiveScores, Ours
  <2>3. CASE rpc[v] = "filter"
    <3>1. next[v] = 1
      BY <2>3, <1>1 DEF TypeInv, RetrieverOK
    <3>2. \A l \in Known : Ours(l, v) => l.n < 1
      BY <3>1 DEF ScoreInv, OrderInv, Behind
    <3>3. \A l \in Known : l.n \in 1..MaxLines
      BY <1>t, LineHas
    <3> QED BY <2>1, <3>2, <3>3, WorkerAssumption DEF Ours
  <2> QED BY <2>1, <2>2, <2>3
<1>3. CASE Known' = Known
  <2>1. ActiveScores' /\ ScoredIsPrefix'
    BY <1>2, <1>3 DEF ActiveScores, ScoredIsPrefix, ScoreInv, SameRun
  <2> QED BY <1>1, <2>1 DEF ScoreInv
<1>4. ASSUME NEW w \in Workers, Put(w), UNCHANGED <<job, run>>, Known' = Known \cup {OutEvent(w)}
      PROVE  ScoreInv'
  <2> DEFINE x == OutEvent(w)
  <2>1. /\ x.job = job[w] /\ x.run = run[w] /\ x.n = next[w] /\ (x.scored <=> rpc[w] = "putScored")
        /\ rpc[w] \in {"put", "putScored"} /\ active' = active
    BY <1>4 DEF OutEvent, Put, filterVars
  <2>2. Known' = Known \cup {x} /\ job[w] \in Jobs
    BY <1>4, <1>1, <2>1 DEF TypeInv, RetrieverOK
  <2> HIDE DEF x
  <2>3. \A v \in Workers : Ours(x, v) => v = w
    BY <2>1, <2>2 DEF ScoreInv, OrderInv, OwnLines, Ours
  <2>4. x.scored <=> active[w]
    BY <2>1 DEF ScoreInv, AtPut
  <2>5. ActiveScores'
    <3> SUFFICES ASSUME NEW v \in Workers, active'[v], NEW l \in Known', Ours(l, v)' PROVE l.scored
      BY DEF ActiveScores
    <3>1. CASE l \in Known
      BY <1>2, <3>1
    <3>2. CASE l = x
      BY <1>4, <2>1, <2>3, <2>4, <3>2 DEF Ours
    <3> QED BY <2>2, <3>1, <3>2
  <2>6. \A l \in Known : SameRun(l, x) => Ours(l, w) /\ l.n < x.n /\ l.n \in Int
    BY <1>t, <2>1, LineHas DEF ScoreInv, OrderInv, Behind, Ours, SameRun
  <2>7. x.n \in Int
    BY <1>1, <2>1, WorkerAssumption DEF TypeInv, TypeOK, RetrieverTypeOK
  <2>8. ScoredIsPrefix'
    <3> SUFFICES ASSUME NEW l \in Known', NEW m \in Known', SameRun(l, m), l.n < m.n, m.scored
                 PROVE  l.scored
      BY DEF ScoredIsPrefix, SameRun
    <3>1. CASE l \in Known /\ m \in Known
      BY <3>1 DEF ScoreInv, ScoredIsPrefix
    <3>2. CASE l \in Known /\ m = x
      BY <2>4, <2>6, <3>2 DEF ScoreInv, ActiveScores
    <3>3. CASE l = x /\ m \in Known
      <4>1. SameRun(m, x)
        BY <3>3 DEF SameRun
      <4> QED BY <2>6, <2>7, <3>3, <4>1
    <3>4. CASE l = x /\ m = x
      BY <2>7, <3>4
    <3> QED BY <2>2, <3>1, <3>2, <3>3, <3>4
  <2> QED BY <1>1, <2>5, <2>8 DEF ScoreInv
<1> QED BY <1>1, <1>3, <1>4 DEF KnownStep

(* A filter that fails fails for the rest of its log and for no other, and  *)
(* its process is gone before the job is answered.                          *)
THEOREM FilterContained == Spec => []FilterIsContained
<1>1. Init => ScoreInv
  <2> SUFFICES ASSUME Init PROVE ScoreInv
    OBVIOUS
  <2>1. OrderInv /\ FilterReapedBeforeAnswer /\ AtPut
    BY InitOrder DEF Init, FilterReapedBeforeAnswer, AtPut
  <2>2. \A w \in Workers : InPipeline(w) = {}
    BY RangeOfEmpty DEF Init, InPipeline
  <2>3. Known = {}
    BY <2>2 DEF Init, Known, Arrived
  <2> QED BY <2>1, <2>3 DEF ScoreInv, ActiveScores, ScoredIsPrefix
<1>2. ScoreInv => FilterIsContained
  BY DEF ScoreInv, FilterIsContained
<1>3. QED BY <1>1, StepScore, <1>2, PTL DEF Spec

-----------------------------------------------------------------------------
(* Refinement.  An item is where its line is, whatever its score.           *)

Key(l) == <<l.job, l.run, l.n>>
Carried == UNION {InPipeline(w) : w \in Workers}
Stages == [i \in Item |-> StageOf(i)]

(* The item of Handover a line stands for. *)
LEMMA KeyIsItem ==
    ASSUME NEW l \in Line
    PROVE  Key(l) \in Item /\ \A i \in Item : Key(l) = i <=> l.job = i[1] /\ l.run = i[2] /\ l.n = i[3]
  BY LineHas DEF Key, Item

(* An item is among the items of some lines when one of them stands for it. *)
LEMMA AmongKeys ==
    ASSUME NEW S \in SUBSET Line, NEW i \in Item
    PROVE  Among(i, S) <=> \E l \in S : Key(l) = i
  BY KeyIsItem DEF Among

StageFacts ==
    /\ Known \subseteq Line
    /\ \A i \in Item :
        /\ StageOf(i) = "delivered" <=> Among(i, received)
        /\ StageOf(i) = "dropped" <=> ~Among(i, received) /\ Among(i, lost)
        /\ StageOf(i) = "held" <=> ~Among(i, Arrived) /\ Among(i, Known)
        /\ StageOf(i) = "waiting" <=> ~Among(i, Known)
        /\ StageOf(i) \in {"waiting", "held", "delivered", "dropped"}

(* The stage of an item, read from where its line is. *)
LEMMA StageIs == OrderInv => StageFacts
<1> SUFFICES ASSUME OrderInv, NEW i \in Item
             PROVE  /\ StageOf(i) = "delivered" <=> Among(i, received)
                    /\ StageOf(i) = "dropped" <=> ~Among(i, received) /\ Among(i, lost)
                    /\ StageOf(i) = "held" <=> ~Among(i, Arrived) /\ Among(i, Known)
                    /\ StageOf(i) = "waiting" <=> ~Among(i, Known)
                    /\ StageOf(i) \in {"waiting", "held", "delivered", "dropped"}
  BY KnownAreLines DEF StageFacts, OrderInv
<1>1. Among(i, Arrived) <=> Among(i, received) \/ Among(i, lost)
  BY DEF Among, Arrived
<1>2. Among(i, Arrived) => Among(i, Known)
  BY DEF Among, Known
<1> QED BY <1>1, <1>2 DEF StageOf

(* Order makes the stages exclusive: nothing of what is on its way has      *)
(* arrived before, and what goes on the queue has not been seen at all.     *)
LEMMA CarriedIsHeld ==
    ASSUME OrderInv, NEW l \in Carried
    PROVE  Key(l) \in Item /\ StageOf(Key(l)) = "held"
<1>t. Known \subseteq Line /\ Arrived \subseteq Line /\ l \in Known
  BY KnownAreLines DEF OrderInv, Known, Carried
<1>1. Key(l) \in Item /\ Among(Key(l), Known)
  BY <1>t, KeyIsItem, AmongKeys
<1>2. PICK w \in Workers : l \in InPipeline(w)
  BY DEF Carried
<1>3. ASSUME NEW m \in Arrived, Key(m) = Key(l) PROVE FALSE
  <2>1. m \in Line /\ l \in Line
    BY <1>t
  <2>2. SameRun(m, l) /\ m.n = l.n
    BY <1>3 DEF Key, SameRun
  <2>3. m.n < l.n \/ m.n # l.n
    BY <1>2, <2>2 DEF OrderInv, InOrder, Before, Apart, Arrived
  <2> QED BY <2>1, <2>2, <2>3, LineHas
<1>4. ~Among(Key(l), Arrived)
  BY <1>1, <1>3, <1>t, AmongKeys
<1> QED BY <1>1, <1>4, StageIs DEF StageFacts

(* The line a retriever is about to put is an item that still waits. *)
LEMMA OutEventWaits ==
    ASSUME OrderInv, NEW w \in Workers, Put(w)
    PROVE  /\ OutEvent(w) \in Line /\ Key(OutEvent(w)) \in Item
           /\ StageOf(Key(OutEvent(w))) = "waiting"
<1> DEFINE x == OutEvent(w)
<1>1. x \in Line /\ x.job = job[w] /\ x.run = run[w] /\ x.n = next[w]
  <2>1. rpc[w] \in {"put", "putScored"}
    BY DEF Put
  <2> QED BY <2>1, OutEventType DEF OutEvent, OrderInv
<1> HIDE DEF x
<1>t. Known \subseteq Line
  BY KnownAreLines DEF OrderInv
<1>2. Key(x) \in Item
  BY <1>1, KeyIsItem
<1>3. ASSUME NEW m \in Known, Key(m) = Key(x) PROVE FALSE
  <2>1. Ours(m, w) /\ m.n = next[w] /\ m \in Line
    BY <1>1, <1>3, <1>t DEF Key, Ours
  <2>2. m.n < next[w]
    BY <2>1 DEF OrderInv, Behind
  <2> QED BY <2>1, <2>2, LineHas
<1>4. StageOf(Key(x)) = "waiting"
  BY <1>2, <1>3, <1>t, AmongKeys, StageIs DEF StageFacts
<1> QED BY <1>1, <1>2, <1>4 DEF x

(* All that a step can do to an item.                                       *)
LEMMA StepMoves ==
    ASSUME OrderInv, [Next]_vars
    PROVE  \/ \E w \in Workers : Put(w) /\ Known' = Known \cup {OutEvent(w)} /\ UNCHANGED <<received, lost, completed>>
           \/ \E l \in Carried : received' = received \cup {l} /\ Known' = Known /\ UNCHANGED <<lost, completed>>
           \/ \E D \in SUBSET Carried : lost' = lost \cup D /\ Known' = Known /\ UNCHANGED <<received, completed>>
           \/ Known' = Known /\ UNCHANGED <<received, lost>> /\ completed \subseteq completed'
<1>t. /\ logq \in [Workers -> Seq(Line)] /\ wire \in [Workers -> Seq(Line)]
  BY DEF OrderInv, TypeInv, TypeOK, QueueTypeOK, ProcessorTypeOK
<1>k. \A v \in Workers : /\ Range(wire[v]) \subseteq Carried /\ Range(hand[v]) \subseteq Carried
                         /\ Range(logq[v]) \subseteq Carried
  BY DEF Carried, InPipeline
<1>1. CASE StillLines /\ completed \subseteq completed'
  BY <1>1, StillInOrder DEF StillLines, OrderInv
<1>2. ASSUME NEW w \in Workers, Put(w), UNCHANGED <<wire, hand, received, lost, job, run, gearRuns, completed>>
      PROVE  Known' = Known \cup {OutEvent(w)} /\ UNCHANGED <<received, lost, completed>>
  BY <1>2, PutOrder
<1>3. ASSUME NEW w \in Workers, Take(w), UNCHANGED <<wire, received, lost, completed>>, StillTasks
      PROVE  Known' = Known /\ UNCHANGED <<received, lost>> /\ completed \subseteq completed'
  BY <1>3, TakeOrder
<1>4. ASSUME NEW w \in Workers, Send(w), UNCHANGED <<logq, received, completed>>, StillTasks
      PROVE  \E D \in SUBSET Carried : lost' = lost \cup D /\ Known' = Known /\ UNCHANGED <<received, completed>>
  <2>1. Known' = Known
    BY <1>4, SendOrder
  <2>2. lost' = lost \cup {} \/ lost' = lost \cup Range(hand[w])
    BY <1>4 DEF Send
  <2>3. {} \in SUBSET Carried /\ Range(hand[w]) \in SUBSET Carried
    BY <1>k
  <2> QED BY <1>4, <2>1, <2>2, <2>3
<1>5. ASSUME NEW w \in Workers, LeavesTask(w), DropsLines(w), completed' = completed
      PROVE  \E D \in SUBSET Carried : lost' = lost \cup D /\ Known' = Known /\ UNCHANGED <<received, completed>>
  <2> DEFINE D == Range(logq[w]) \cup Range(hand[w])
  <2>1. D \in SUBSET Carried
    BY <1>k
  <2>2. lost' = lost \cup D /\ received' = received
    BY <1>5 DEF DropsLines
  <2>3. Known' = Known
    BY <1>5, ExitOrder
  <2> QED BY <1>5, <2>1, <2>2, <2>3
<1>6. ASSUME NEW w \in Workers, Deliver(w), UNCHANGED <<hand, logq, lost, completed>>, StillTasks
      PROVE  \E l \in Carried : received' = received \cup {l} /\ Known' = Known /\ UNCHANGED <<lost, completed>>
  <2>1. wire[w] # <<>> /\ received' = received \cup {Head(wire[w])}
    BY <1>6 DEF Deliver
  <2>2. Head(wire[w]) \in Carried
    BY <2>1, <1>k, <1>t, RangeOfTail
  <2>3. Known' = Known
    BY <1>6, DeliverOrder
  <2> QED BY <1>6, <2>1, <2>2, <2>3
<1>7. ASSUME LogstashDies, UNCHANGED <<hand, logq, received, completed>>, StillTasks
      PROVE  \E D \in SUBSET Carried : lost' = lost \cup D /\ Known' = Known /\ UNCHANGED <<received, completed>>
  <2> DEFINE D == UNION {Range(wire[w]) : w \in Workers}
  <2>1. D \in SUBSET Carried
    BY <1>k
  <2>2. lost' = lost \cup D
    BY <1>7 DEF LogstashDies
  <2>3. Known' = Known
    BY <1>7, LogstashDiesOrder
  <2> QED BY <1>7, <2>1, <2>2, <2>3
<1>8. ASSUME NEW w \in Workers, GetJob(w), StillLines, UNCHANGED <<next, completed>>
      PROVE  Known' = Known /\ UNCHANGED <<received, lost>> /\ completed \subseteq completed'
  BY <1>8, GetJobOrder DEF StillLines
<1>9. LineStep
  BY StepsOfLines
<1> QED BY <1>1, <1>2, <1>3, <1>4, <1>5, <1>6, <1>7, <1>8, <1>9 DEF LineStep

(* Initial states map to initial states. *)
LEMMA InitRefines == Init => Worker!Init
<1> SUFFICES ASSUME Init PROVE Worker!Init
  OBVIOUS
<1>1. \A w \in Workers : InPipeline(w) = {}
  BY RangeOfEmpty DEF Init, InPipeline
<1>2. Known = {} /\ completed = {}
  BY <1>1 DEF Init, Known, Arrived
<1>3. \A i \in Item : StageOf(i) = "waiting"
  BY <1>2, InitOrder, StageIs DEF Among, StageFacts
<1>4. Promised = {}
  BY <1>2 DEF Promised
<1> QED BY <1>3, <1>4 DEF Worker!Init

(* Every step maps to a step of Handover or to none. *)
LEMMA StepRefines ==
    ASSUME OrderInv, StageFacts, StageFacts', CompleteIsAccounted', [Next]_vars
    PROVE  [Worker!Next]_(Worker!vars)
<1>s. Stages = [i \in Item |-> StageOf(i)] /\ Stages' = [i \in Item |-> StageOf(i)']
  BY DEF Stages
<1>t. /\ Known \subseteq Line /\ received \subseteq Line /\ lost \subseteq Line
      /\ Known' \subseteq Line /\ received' \subseteq Line /\ lost' \subseteq Line
  BY DEF StageFacts, Known, Arrived
<1>1. ASSUME NEW w \in Workers, Put(w), Known' = Known \cup {OutEvent(w)},
             UNCHANGED <<received, lost, completed>>
      PROVE  Worker!TakeOver
  <2> DEFINE x == OutEvent(w)
  <2>1. x \in Line /\ Key(x) \in Item /\ StageOf(Key(x)) = "waiting"
    BY <1>1, OutEventWaits
  <2>2. Known' = Known \cup {x}
    BY <1>1
  <2> HIDE DEF x
  <2>3. ASSUME NEW i \in Item PROVE StageOf(i)' = IF i = Key(x) THEN "held" ELSE StageOf(i)
    <3>1. Among(i, Known)' <=> Among(i, Known) \/ i = Key(x)
      BY <1>t, <2>1, <2>2, AmongKeys
    <3>2. /\ (Among(i, received)' <=> Among(i, received)) /\ (Among(i, lost)' <=> Among(i, lost))
          /\ (Among(i, Arrived)' <=> Among(i, Arrived))
      BY <1>1 DEF Among, Arrived
    <3>3. StageOf(Key(x)) = "waiting" => ~Among(Key(x), Arrived)
      BY <2>1 DEF StageFacts, Among, Known
    <3> QED BY <2>1, <3>1, <3>2, <3>3 DEF StageFacts
  <2>4. Stages' = [Stages EXCEPT ![Key(x)] = "held"]
    BY <1>s, <2>1, <2>3
  <2>5. Promised' = Promised
    BY <1>1 DEF Promised
  <2> QED BY <2>1, <2>4, <2>5 DEF Worker!TakeOver, Stages
<1>2. ASSUME NEW l \in Carried, received' = received \cup {l}, Known' = Known,
             UNCHANGED <<lost, completed>>
      PROVE  Worker!Deliver
  <2>1. l \in Line /\ Key(l) \in Item /\ StageOf(Key(l)) = "held"
    BY <1>t, CarriedIsHeld DEF Carried, Known
  <2>2. ASSUME NEW i \in Item PROVE StageOf(i)' = IF i = Key(l) THEN "delivered" ELSE StageOf(i)
    <3>1. Among(i, received)' <=> Among(i, received) \/ i = Key(l)
      BY <1>2, <1>t, <2>1, AmongKeys
    <3>2. (Among(i, Known)' <=> Among(i, Known)) /\ (Among(i, lost)' <=> Among(i, lost))
      BY <1>2 DEF Among
    <3>3. Among(i, Arrived)' <=> Among(i, received)' \/ Among(i, lost)'
      BY DEF Among, Arrived
    <3>4. Among(i, Arrived) <=> Among(i, received) \/ Among(i, lost)
      BY DEF Among, Arrived
    <3> QED BY <2>1, <3>1, <3>2, <3>3, <3>4 DEF StageFacts
  <2>3. Stages' = [Stages EXCEPT ![Key(l)] = "delivered"]
    BY <1>s, <2>1, <2>2
  <2>4. Promised' = Promised
    BY <1>2 DEF Promised
  <2> QED BY <2>1, <2>3, <2>4 DEF Worker!Deliver, Stages
<1>3. ASSUME NEW D \in SUBSET Carried, lost' = lost \cup D, Known' = Known,
             UNCHANGED <<received, completed>>
      PROVE  Worker!Drop
  <2> DEFINE S == {i \in Item : \E l \in D : Key(l) = i}
  <2>1. ASSUME NEW l \in D PROVE l \in Line /\ Key(l) \in Item /\ StageOf(Key(l)) = "held"
    BY <1>t, CarriedIsHeld DEF Carried, Known
  <2>2. ASSUME NEW i \in Item PROVE StageOf(i)' = IF i \in S THEN "dropped" ELSE StageOf(i)
    <3>1. Among(i, lost)' <=> Among(i, lost) \/ i \in S
      BY <1>3, <1>t, <2>1, AmongKeys
    <3>2. (Among(i, Known)' <=> Among(i, Known)) /\ (Among(i, received)' <=> Among(i, received))
      BY <1>3 DEF Among
    <3>3. Among(i, Arrived)' <=> Among(i, received)' \/ Among(i, lost)'
      BY DEF Among, Arrived
    <3>4. Among(i, Arrived) <=> Among(i, received) \/ Among(i, lost)
      BY DEF Among, Arrived
    <3>5. i \in S => StageOf(i) = "held"
      BY <2>1
    <3> QED BY <3>1, <3>2, <3>3, <3>4, <3>5 DEF StageFacts
  <2>3. S \in SUBSET {i \in Item : Stages[i] = "held"}
    BY <2>1 DEF Stages
  <2> HIDE DEF S
  <2>4. Stages' = [i \in Item |-> IF i \in S THEN "dropped" ELSE Stages[i]]
    BY <1>s, <2>2
  <2>5. Promised' = Promised
    BY <1>3 DEF Promised
  <2> QED BY <2>3, <2>4, <2>5 DEF Worker!Drop, Stages
<1>4. ASSUME Known' = Known, UNCHANGED <<received, lost>>, completed \subseteq completed'
      PROVE  Worker!Promise
  <2>1. Stages' = Stages
    BY <1>4 DEF Stages, StageOf, Among, Arrived
  <2>2. Promised \subseteq Promised'
    BY <1>4 DEF Promised
  <2>3. ASSUME NEW i \in Promised' PROVE i \in Item /\ StageOf(i) # "waiting"
    <3>1. PICK c \in completed' : i \in Item /\ c.job = i[1] /\ c.run = i[2] /\ i[3] <= c.total
      BY DEF Promised
    <3>2. i[3] \in 1..c.total
      BY <3>1, WorkerAssumption DEF Item
    <3>3. \E l \in Known' : l.job = c.job /\ l.run = c.run /\ l.n = i[3]
      BY <3>1, <3>2 DEF CompleteIsAccounted, Accounted
    <3>4. Among(i, Known)
      BY <1>4, <3>1, <3>3 DEF Among
    <3> QED BY <3>1, <3>4 DEF StageFacts
  <2>4. Promised' \in SUBSET {i \in Item : Stages[i] # "waiting"} /\ Promised' = Promised \cup Promised'
    BY <2>2, <2>3 DEF Stages
  <2> QED BY <2>1, <2>4 DEF Worker!Promise, Stages
<1> QED BY <1>1, <1>2, <1>3, <1>4, StepMoves DEF Worker!Next

(* The log workers do to a line what Handover allows and nothing else.      *)
THEOREM LogWorkerImplementsHandover == Spec => ImplementsHandover
<1>1. OrderInv => StageFacts
  BY StageIs
<1>2. AccountInv => CompleteIsAccounted
  BY DEF AccountInv
<1>3. OrderInv /\ StageFacts /\ StageFacts' /\ CompleteIsAccounted' /\ [Next]_vars
          => [Worker!Next]_(Worker!vars)
  BY StepRefines
<1>4. QED BY InitOrder, StepOrder, InitAccount, StepAccount, InitRefines, <1>1, <1>2, <1>3, PTL
          DEF Spec, ImplementsHandover, Worker!Spec

=============================================================================

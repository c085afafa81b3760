------------------------- MODULE SubunitWorker_proof -------------------------
(***************************************************************************)
(* Proofs about SubunitWorker for any number of jobs, hand-outs and stops  *)
(* and any size of the queue: above all that it implements Handover.       *)
(***************************************************************************)
EXTENDS SubunitWorker, SequenceFacts, TLAPS

(* A run is at most in one place: on the queue, in the processor's hand,    *)
(* in the database, among the failures or among the losses.                 *)
OnePlace ==
    /\ \A i, k \in 1..Len(subunitq) : subunitq[i].key = subunitq[k].key => i = k
    /\ \A e \in Range(hand), f \in Range(subunitq) : e.key # f.key
    /\ \A e \in Pending : e.key \notin stored \cup failed
    /\ \A e \in Pending, f \in lost : e.key # f.key
    /\ \A f \in lost : f.key \notin stored \cup failed
    /\ stored \cap failed = {}

(* What is known of a run agrees with what its retrieval came to. *)
Faithful ==
    /\ \A e \in Pending \cup lost : e.whole <=> outcome[e.key] = "stream"
    /\ \A r \in stored : outcome[r] = "stream"
    /\ \A r \in Runs : outcome[r] = "none" => answers[r] = <<>> /\ ~Traced(r)
    /\ \A r \in Runs : gearRuns[r[1]] < r[2] => outcome[r] = "none"

(* What the retriever's place in _handle_event says of the run it is at. *)
RetrieverOK ==
    /\ rpc # "idle" => job \in Jobs /\ run \in 1..gearRuns[job]
    /\ linked => rpc # "idle"
    /\ rpc = "retrieve" => outcome[Key] = "none"
    /\ rpc \notin {"idle", "retrieve"} => outcome[Key] # "none"
    /\ rpc = "missing" => outcome[Key] = "missing" /\ ~stream
    /\ rpc = "put" => outcome[Key] = IF stream THEN "stream" ELSE "missing"
    /\ rpc \in {"missing", "put"} => ~Traced(Key)
    /\ rpc = "put" /\ stream => answers[Key] = <<>>
    /\ rpc = "complete" /\ outcome[Key] = "stream" => Traced(Key)

(* A run that was completed with a stream has left the retriever. *)
CompletedTraced ==
    \A r \in Runs : r \in Promised => Traced(r)

Inv == TypeOK /\ OnePlace /\ Faithful /\ RetrieverOK /\ CompletedTraced

(* A key names a job and a run of it. *)
LEMMA KeyOfRun == ASSUME NEW j \in Jobs, NEW n \in 1..MaxRuns
                  PROVE  <<j, n>> \in Runs /\ <<j, n>>[1] = j /\ <<j, n>>[2] = n
  BY DEF Runs

(* The invariant holds at the start. *)
LEMMA InitInv == Init => Inv
<1> SUFFICES ASSUME Init PROVE Inv
  OBVIOUS
<1> USE SubunitAssumption, RangeOfEmpty DEF Init
<1>1. TypeOK
  <2>1. <<>> \in Seq(Event) /\ Len(<<>>) = 0 /\ <<>> \in Seq({"complete", "exception"})
    OBVIOUS
  <2>2. GearTypeOK
    BY <2>1 DEF GearTypeOK
  <2>5. RetrieverTypeOK
    <3>1. linked \in BOOLEAN /\ stream \in BOOLEAN
      OBVIOUS
    <3>2. run \in 0..MaxRuns
      OBVIOUS
    <3>3. rpc = "idle" <=> job = NoJob
      OBVIOUS
    <3>4. outcome \in [Runs -> {"none", "aborted", "error", "stream", "missing"}]
      OBVIOUS
    <3>5. QED BY <3>1, <3>2, <3>3, <3>4 DEF RetrieverTypeOK
  <2>3. EventTypeOK
    BY <2>1 DEF EventTypeOK
  <2>4. QED BY <2>2, <2>3, <2>5 DEF TypeOK
<1>2. Pending = {} /\ \A r \in Runs : ~Traced(r)
  BY DEF Pending, Traced
<1>3. OnePlace
  BY <1>2 DEF OnePlace
<1>4. Faithful
  BY <1>2 DEF Faithful
<1>5. RetrieverOK
  BY DEF RetrieverOK
<1>6. CompletedTraced
  BY DEF CompletedTraced, Promised
<1>7. QED BY <1>1, <1>3, <1>4, <1>5, <1>6 DEF Inv

-----------------------------------------------------------------------------
(* Type correctness.  The retriever's part of the invariant is needed: the  *)
(* event that Put queues is one only because a retriever at work has a job. *)

(* While the retriever has a job, the key is that of its run. *)
LEMMA KeyType ==
  ASSUME TypeOK, RetrieverOK, rpc # "idle"
  PROVE  Key \in Runs /\ job \in Jobs /\ job # NoJob /\ Key = <<job, run>>
<1>1. job \in Jobs /\ run \in 1..MaxRuns
  BY SubunitAssumption DEF TypeOK, GearTypeOK, RetrieverTypeOK, RetrieverOK
<1>2. QED BY <1>1, SubunitAssumption DEF Key, Runs

(* An answer keeps the types of what gearman knows, *)
LEMMA AnswerType ==
  ASSUME TypeOK, RetrieverOK, rpc # "idle", NEW a \in {"complete", "exception"},
         Answer(a) \/ UNCHANGED gearVars
  PROVE  GearTypeOK'
<1>1. Key \in Runs /\ job \in Jobs
  BY KeyType
<1>2. CASE UNCHANGED gearVars
  BY <1>2 DEF TypeOK, GearTypeOK, gearVars
<1>3. CASE Answer(a)
  <2>1. answers' = [answers EXCEPT ![Key] = Append(@, a)]
    BY <1>3 DEF Answer
  <2>2. answers[Key] \in Seq({"complete", "exception"})
    BY <1>1 DEF TypeOK, GearTypeOK
  <2>3. Append(answers[Key], a) \in Seq({"complete", "exception"})
    BY <2>2
  <2>4. gearRuns' = gearRuns /\ (gearState' = [gearState EXCEPT ![job] = a] \/ gearState' = gearState)
    BY <1>3 DEF Answer
  <2>5. QED BY <1>1, <2>1, <2>3, <2>4 DEF TypeOK, GearTypeOK
<1>4. QED BY <1>2, <1>3

(* and so does the loss of the connection. *)
LEMMA DisconnectType ==
  ASSUME TypeOK, RetrieverOK, linked => rpc # "idle", Disconnect
  PROVE  GearTypeOK'
<1>1. CASE linked /\ gearState[job] = "assigned"
  <2>1. PICK s \in {"failed", "queued"} : gearState' = [gearState EXCEPT ![job] = s]
    BY <1>1 DEF Disconnect
  <2>2. UNCHANGED <<gearRuns, answers>>
    BY DEF Disconnect
  <2>3. QED BY <1>1, <2>1, <2>2, KeyType DEF TypeOK, GearTypeOK
<1>2. CASE ~(linked /\ gearState[job] = "assigned")
  BY <1>2 DEF Disconnect, TypeOK, GearTypeOK
<1>3. QED BY <1>1, <1>2

(* The retriever's variables, after any step of anybody.                    *)
LEMMA StepRetrieverType ==
  ASSUME TypeOK, RetrieverOK, [Next]_vars
  PROVE  RetrieverTypeOK' /\ up' \in BOOLEAN /\ stops' \in 0..MaxStops
<1>t. RetrieverTypeOK /\ GearTypeOK /\ up \in BOOLEAN /\ stops \in 0..MaxStops
  BY DEF TypeOK
<1>j. rpc # "idle" => job # NoJob /\ Key \in Runs
  BY KeyType
<1>1. CASE GetJob
  <2>1. PICK j \in Jobs : /\ gearRuns[j] < MaxRuns
                          /\ job' = j /\ run' = gearRuns[j] + 1
    BY <1>1 DEF GetJob
  <2>2. run' \in 0..MaxRuns /\ job' \in Jobs /\ job' # NoJob
    BY <2>1, <1>t, SubunitAssumption DEF GearTypeOK
  <2>3. rpc' = "retrieve" /\ linked' = TRUE /\ UNCHANGED <<stream, outcome, up, stops>>
    BY <1>1 DEF GetJob
  <2>4. QED BY <1>t, <2>2, <2>3 DEF RetrieverTypeOK
<1>2. CASE Retrieve
  <2>1. PICK o \in {"aborted", "error", "stream", "missing"} :
          outcome' = [outcome EXCEPT ![Key] = o]
    BY <1>2 DEF Retrieve, Comes
  <2>2. /\ rpc = "retrieve" /\ rpc' \in {"complete", "exception", "put", "missing"}
        /\ UNCHANGED <<job, run, linked, up, stops>> /\ stream' \in BOOLEAN
    BY <1>2, <1>t DEF Retrieve, RetrieverTypeOK
  <2>3. outcome' \in [Runs -> {"none", "aborted", "error", "stream", "missing"}]
    BY <1>t, <1>j, <2>1, <2>2 DEF RetrieverTypeOK
  <2>4. QED BY <1>t, <2>2, <2>3 DEF RetrieverTypeOK
<1>3. CASE AnswerMissing \/ Put
  <2>1. /\ rpc # "idle" /\ rpc' \in {"put", "exception", "complete"}
        /\ UNCHANGED <<job, run, linked, stream, outcome, up, stops>>
    BY <1>3 DEF AnswerMissing, Put, Raises
  <2>2. QED BY <1>t, <2>1 DEF RetrieverTypeOK
<1>4. CASE (WorkComplete \/ WorkException) /\ ~Return
  <2>1. /\ rpc # "idle" /\ rpc' = "exception"
        /\ UNCHANGED <<job, run, linked, stream, outcome, up, stops>>
    BY <1>4 DEF WorkComplete, WorkException, Raises
  <2>2. QED BY <1>t, <2>1 DEF RetrieverTypeOK
<1>5. CASE Return
  <2>1. /\ rpc' = "idle" /\ job' = NoJob /\ run' = 0 /\ linked' = FALSE
        /\ UNCHANGED <<stream, outcome, up, stops>>
    BY <1>5 DEF Return
  <2>2. 0 \in 0..MaxRuns
    BY SubunitAssumption
  <2>3. QED BY <1>t, <2>1, <2>2 DEF RetrieverTypeOK
<1>6. CASE Take \/ Store \/ Start
  <2>1. UNCHANGED retrieverVars /\ stops' = stops /\ (up' = up \/ up' = TRUE)
    BY <1>6 DEF Take, Store, Start
  <2>2. QED BY <1>t, <2>1 DEF RetrieverTypeOK, retrieverVars
<1>7. CASE LoseGeard
  <2>1. linked' = FALSE /\ UNCHANGED <<rpc, job, run, stream, outcome, up, stops>>
    BY <1>7 DEF LoseGeard, Disconnect
  <2>2. QED BY <1>t, <2>1 DEF RetrieverTypeOK
<1>8. CASE Stop
  <2>1. /\ rpc' = "idle" /\ job' = NoJob /\ run' = 0 /\ linked' = FALSE
        /\ UNCHANGED <<stream, outcome>>
    BY <1>8 DEF Stop, Disconnect
  <2>2. 0 \in 0..MaxRuns
    BY SubunitAssumption
  <2>3. up' = FALSE /\ stops' \in 0..MaxStops
    BY <1>8, <1>t, SubunitAssumption DEF Stop
  <2>4. RetrieverTypeOK'
    BY <1>t, <2>1, <2>2 DEF RetrieverTypeOK
  <2>5. QED BY <2>3, <2>4
<1>9. CASE UNCHANGED vars
  BY <1>9, <1>t DEF vars, retrieverVars, RetrieverTypeOK
<1>10. QED
  BY <1>1, <1>2, <1>3, <1>4, <1>5, <1>6, <1>7, <1>8, <1>9
     DEF Next, RetrieverStep, ProcessorStep

(* What a step does to geard's side.                                        *)
LEMMA StepGearType ==
  ASSUME TypeOK, RetrieverOK, [Next]_vars
  PROVE  GearTypeOK'
<1>1. CASE GetJob
  <2>1. PICK j \in Jobs : /\ gearRuns[j] < MaxRuns
                          /\ gearState' = [gearState EXCEPT ![j] = "assigned"]
                          /\ gearRuns' = [gearRuns EXCEPT ![j] = @ + 1]
    BY <1>1 DEF GetJob
  <2>2. gearRuns[j] + 1 \in 0..MaxRuns /\ answers' = answers
    BY <1>1, <2>1, SubunitAssumption DEF TypeOK, GearTypeOK, GetJob
  <2>3. QED BY <2>1, <2>2 DEF TypeOK, GearTypeOK
<1>2. CASE AnswerMissing \/ WorkComplete \/ WorkException
  <2>1. PICK a \in {"complete", "exception"} : Answer(a) \/ UNCHANGED gearVars
    BY <1>2 DEF AnswerMissing, WorkComplete, WorkException, Raises
  <2>2. rpc # "idle"
    BY <1>2 DEF AnswerMissing, WorkComplete, WorkException
  <2>3. QED BY <2>1, <2>2, AnswerType
<1>3. CASE LoseGeard \/ Stop
  BY <1>3, DisconnectType DEF LoseGeard, Stop, RetrieverOK
<1>4. CASE Retrieve \/ Put \/ ProcessorStep \/ Start \/ UNCHANGED vars
  <2>1. UNCHANGED gearVars
    BY <1>4 DEF Retrieve, Put, ProcessorStep, Take, Store, Start, vars
  <2>2. QED BY <2>1 DEF gearVars, TypeOK, GearTypeOK
<1>5. QED BY <1>1, <1>2, <1>3, <1>4 DEF Next, RetrieverStep

eventVars == <<subunitq, hand, stored, failed, lost>>

(* The steps that move events; the others leave all of them where they are. *)
LEMMA EventStep ==
  ASSUME [Next]_vars
  PROVE  Put \/ Take \/ Store \/ Stop \/ UNCHANGED eventVars
<1>1. ASSUME GetJob \/ Retrieve \/ AnswerMissing \/ WorkComplete \/ WorkException
      PROVE  UNCHANGED eventVars
  BY <1>1 DEF GetJob, Retrieve, AnswerMissing, WorkComplete, WorkException, Return,
              processorVars, eventVars
<1>2. ASSUME LoseGeard \/ Start \/ UNCHANGED vars
      PROVE  UNCHANGED eventVars
  BY <1>2 DEF LoseGeard, Start, vars, processorVars, eventVars
<1>3. QED BY <1>1, <1>2 DEF Next, RetrieverStep, ProcessorStep

(* What the retriever puts is an event. *)
LEMMA EventType ==
  ASSUME TypeOK, RetrieverOK, rpc # "idle"
  PROVE  [key |-> Key, whole |-> stream] \in Event
  BY KeyType DEF TypeOK, RetrieverTypeOK, Event

(* Every step keeps the types of the events. *)
LEMMA StepEventType ==
  ASSUME TypeOK, RetrieverOK, [Next]_vars
  PROVE  EventTypeOK'
<1>t. EventTypeOK
  BY DEF TypeOK
<1>e. <<>> \in Seq(Event) /\ Len(<<>>) = 0
  OBVIOUS
<1>1. CASE Put
  <2>1. PICK e \in Event : subunitq' = Append(subunitq, e)
    BY <1>1, EventType DEF Put
  <2>2. Len(subunitq) < QueueSize /\ UNCHANGED <<hand, stored, failed, lost>>
    BY <1>1 DEF Put, processorVars
  <2>3. subunitq' \in Seq(Event) /\ Len(subunitq') = Len(subunitq) + 1 /\ Len(subunitq) \in Nat
    BY <1>t, <2>1 DEF EventTypeOK
  <2>4. Len(subunitq') <= QueueSize
    BY <2>2, <2>3, SubunitAssumption
  <2>5. QED BY <1>t, <2>2, <2>3, <2>4 DEF EventTypeOK
<1>2. CASE Take
  <2>1. /\ subunitq # <<>> /\ hand' = <<Head(subunitq)>> /\ subunitq' = Tail(subunitq)
        /\ UNCHANGED <<stored, failed, lost>>
    BY <1>2 DEF Take
  <2>2. Head(subunitq) \in Event /\ subunitq' \in Seq(Event) /\ Len(subunitq') = Len(subunitq) - 1
        /\ Len(subunitq) \in Nat
    BY <1>t, <2>1 DEF EventTypeOK
  <2>3. Len(subunitq') <= QueueSize
    BY <1>t, <2>2, SubunitAssumption DEF EventTypeOK
  <2>4. hand' \in Seq(Event) /\ Len(hand') <= 1
    BY <2>1, <2>2
  <2>5. QED BY <1>t, <2>1, <2>2, <2>3, <2>4 DEF EventTypeOK
<1>3. CASE Store
  <2>1. hand # <<>> /\ hand' = <<>> /\ UNCHANGED <<subunitq, lost>>
    BY <1>3 DEF Store
  <2>2. hand[1] \in Event
    BY <1>t, <2>1 DEF EventTypeOK
  <2>3. hand[1].key \in Runs
    BY <2>2 DEF Event
  <2>4. stored' \subseteq Runs /\ failed' \subseteq Runs
    BY <1>3, <1>t, <2>3 DEF Store, EventTypeOK
  <2>5. QED BY <1>t, <1>e, <2>1, <2>4 DEF EventTypeOK
<1>4. CASE Stop
  <2>1. /\ lost' = lost \cup Range(subunitq) \cup Range(hand)
        /\ subunitq' = <<>> /\ hand' = <<>> /\ UNCHANGED <<stored, failed>>
    BY <1>4 DEF Stop
  <2>2. Range(subunitq) \subseteq Event /\ Range(hand) \subseteq Event
    BY <1>t, RangeType DEF EventTypeOK
  <2>3. Len(<<>>) <= QueueSize
    BY <1>e, SubunitAssumption
  <2>4. QED BY <1>t, <1>e, <2>1, <2>2, <2>3 DEF EventTypeOK
<1>5. CASE UNCHANGED eventVars
  BY <1>5, <1>t DEF eventVars, EventTypeOK
<1>6. QED BY <1>1, <1>2, <1>3, <1>4, <1>5, EventStep

-----------------------------------------------------------------------------
(* Where the events are after a step.                                       *)

(* The processor has one event at a time. *)
LEMMA HandIsSingle ==
  ASSUME EventTypeOK, hand # <<>>
  PROVE  Range(hand) = {hand[1]} /\ hand[1] \in Event
<1>1. hand \in Seq(Event) /\ Len(hand) \in Nat /\ Len(hand) # 0 /\ DOMAIN hand = 1..Len(hand)
  BY DEF EventTypeOK
<1>2. Len(hand) = 1
  BY <1>1 DEF EventTypeOK
<1>3. DOMAIN hand = {1} /\ hand[1] \in Event
  BY <1>1, <1>2
<1>4. QED BY <1>3 DEF Range

(* What a put moves, *)
LEMMA PutMoves ==
  ASSUME EventTypeOK, Put
  PROVE  /\ Range(subunitq') = Range(subunitq) \cup {[key |-> Key, whole |-> stream]}
         /\ Pending' = Pending \cup {[key |-> Key, whole |-> stream]}
         /\ UNCHANGED <<hand, stored, failed, lost>>
<1>1. /\ subunitq' = Append(subunitq, [key |-> Key, whole |-> stream])
      /\ UNCHANGED <<hand, stored, failed, lost>>
  BY DEF Put, processorVars
<1>2. Range(subunitq') = Range(subunitq) \cup {[key |-> Key, whole |-> stream]}
  BY <1>1, RangeOfAppend DEF EventTypeOK
<1>3. QED BY <1>1, <1>2 DEF Pending

(* what a take moves, *)
LEMMA TakeMoves ==
  ASSUME EventTypeOK, Take
  PROVE  /\ Range(subunitq) = {Head(subunitq)} \cup Range(subunitq')
         /\ Range(hand) = {} /\ Range(hand') = {Head(subunitq)}
         /\ Pending' = Pending
         /\ UNCHANGED <<stored, failed, lost>>
<1>1. /\ hand = <<>> /\ subunitq # <<>>
      /\ hand' = <<Head(subunitq)>> /\ subunitq' = Tail(subunitq)
      /\ UNCHANGED <<stored, failed, lost>>
  BY DEF Take
<1>2. Range(subunitq) = {Head(subunitq)} \cup Range(subunitq')
  BY <1>1, RangeOfTail DEF EventTypeOK
<1>3. Range(hand) = {} /\ Range(hand') = {Head(subunitq)}
  BY <1>1, RangeOfEmpty, RangeOfSingle
<1>4. QED BY <1>1, <1>2, <1>3 DEF Pending

(* what a store moves, *)
LEMMA StoreMoves ==
  ASSUME EventTypeOK, Store
  PROVE  /\ Range(hand) = {hand[1]} /\ Range(hand') = {}
         /\ UNCHANGED <<subunitq, lost>>
         /\ \/ hand[1].whole /\ stored' = stored \cup {hand[1].key} /\ failed' = failed
            \/ failed' = failed \cup {hand[1].key} /\ stored' = stored
<1>1. hand # <<>> /\ hand' = <<>> /\ UNCHANGED <<subunitq, lost>>
  BY DEF Store
<1>2. \/ hand[1].whole /\ stored' = stored \cup {hand[1].key} /\ failed' = failed
      \/ failed' = failed \cup {hand[1].key} /\ stored' = stored
  BY DEF Store
<1>3. QED BY <1>1, <1>2, HandIsSingle, RangeOfEmpty

(* and what a stop loses. *)
LEMMA StopMoves ==
  ASSUME Stop
  PROVE  /\ Pending' = {} /\ lost' = lost \cup Pending
         /\ Range(subunitq') = {} /\ Range(hand') = {} /\ subunitq' = <<>>
         /\ UNCHANGED <<stored, failed>>
<1>1. /\ lost' = lost \cup Range(subunitq) \cup Range(hand)
      /\ subunitq' = <<>> /\ hand' = <<>> /\ UNCHANGED <<stored, failed>>
  BY DEF Stop
<1>2. QED BY <1>1, RangeOfEmpty DEF Pending

(* Whatever leaves no trace yet gets one by being put on the queue, and no  *)
(* trace is ever wiped out.                                                 *)
LEMMA TracedStep ==
  ASSUME EventTypeOK, [Next]_vars, NEW r
  PROVE  /\ Traced(r) => Traced(r)'
         /\ Traced(r)' => Traced(r) \/ (Put /\ r = Key)
         /\ Put => Traced(Key)'
<1>1. CASE Put
  <2> DEFINE e == [key |-> Key, whole |-> stream]
  <2>1. e.key = Key
    OBVIOUS
  <2>2. Pending' = Pending \cup {e} /\ UNCHANGED <<stored, failed, lost>>
    BY <1>1, PutMoves
  <2> HIDE DEF e
  <2>3. e \in Pending'
    BY <2>2
  <2>8. Key' = Key
    BY <1>1 DEF Put, Key
  <2>4. Traced(Key)'
    BY <2>1, <2>3, <2>8 DEF Traced
  <2>5. Traced(r) => Traced(r)'
    BY <2>2 DEF Traced
  <2>6. Traced(r)' => Traced(r) \/ r = Key
    BY <2>1, <2>2 DEF Traced
  <2>7. QED BY <1>1, <2>4, <2>5, <2>6
<1>2. CASE Take
  <2>1. ~Put
    BY <1>2 DEF Take, Put, processorVars
  <2>2. QED BY <1>2, <2>1, TakeMoves DEF Traced
<1>3. CASE Store
  <2>1. ~Put
    BY <1>3 DEF Store, Put, processorVars
  <2>2. Pending = Range(subunitq) \cup {hand[1]} /\ Pending' = Range(subunitq) /\ lost' = lost
    BY <1>3, StoreMoves DEF Pending
  <2>3. stored' \cup failed' = stored \cup failed \cup {hand[1].key}
    BY <1>3, StoreMoves
  <2>4. QED BY <2>1, <2>2, <2>3 DEF Traced
<1>4. CASE Stop
  <2>1. ~Put
    BY <1>4 DEF Stop, Put
  <2>2. QED BY <1>4, <2>1, StopMoves DEF Traced
<1>5. CASE UNCHANGED eventVars
  <2>1. ~Put
    <3>1. ASSUME Put PROVE FALSE
      <4>1. subunitq' = Append(subunitq, [key |-> Key, whole |-> stream]) /\ subunitq' = subunitq
        BY <1>5, <3>1 DEF Put, eventVars
      <4>2. Len(subunitq') = Len(subunitq) + 1 /\ Len(subunitq) \in Nat
        BY <4>1 DEF EventTypeOK
      <4>3. QED BY <4>1, <4>2
    <3>2. QED BY <3>1
  <2>2. QED BY <1>5, <2>1 DEF eventVars, Traced, Pending
<1>6. QED BY <1>1, <1>2, <1>3, <1>4, <1>5, EventStep

-----------------------------------------------------------------------------
(* A run stays in one place.                                                *)

(* So every event stays in one place. *)
LEMMA StepOnePlace ==
  ASSUME Inv, [Next]_vars
  PROVE  OnePlace'
<1>t. EventTypeOK /\ OnePlace /\ TypeOK /\ RetrieverOK
  BY DEF Inv, TypeOK
<1>1. CASE Put
  <2> DEFINE e == [key |-> Key, whole |-> stream]
  <2>1. /\ Range(subunitq') = Range(subunitq) \cup {e} /\ Pending' = Pending \cup {e}
        /\ UNCHANGED <<hand, stored, failed, lost>> /\ e.key = Key
    BY <1>1, <1>t, PutMoves
  <2>2. subunitq' = Append(subunitq, e) /\ rpc = "put"
    BY <1>1 DEF Put
  <2> HIDE DEF e
  <2>3. ~Traced(Key)
    BY <1>t, <2>2 DEF RetrieverOK
  <2>4. /\ Key \notin stored \cup failed
        /\ \A f \in Pending \cup lost : f.key # Key
    BY <2>3 DEF Traced
  <2>5. \A i, k \in 1..Len(subunitq') : subunitq'[i].key = subunitq'[k].key => i = k
    <3>1. /\ Len(subunitq') = Len(subunitq) + 1 /\ Len(subunitq) \in Nat
          /\ \A i \in 1..Len(subunitq) : subunitq'[i] = subunitq[i]
          /\ subunitq'[Len(subunitq) + 1] = e
      BY <1>t, <2>2 DEF EventTypeOK
    <3>2. \A i \in 1..Len(subunitq) : subunitq[i] \in Pending
      BY <1>t DEF EventTypeOK, Pending, Range
    <3>3. \A i \in 1..Len(subunitq) : subunitq[i].key # e.key
      BY <2>1, <2>4, <3>2
    <3>4. \A i, k \in 1..Len(subunitq) : subunitq[i].key = subunitq[k].key => i = k
      BY <1>t DEF OnePlace
    <3>5. \A i \in 1..Len(subunitq') : i \in 1..Len(subunitq) \/ i = Len(subunitq) + 1
      BY <3>1
    <3>6. QED BY <3>1, <3>3, <3>4, <3>5
  <2>6. \A h \in Range(hand'), f \in Range(subunitq') : h.key # f.key
    <3>1. \A h \in Range(hand) : h.key # e.key
      BY <2>1, <2>4 DEF Pending
    <3>2. QED BY <1>t, <2>1, <3>1 DEF OnePlace
  <2>7. /\ \A f \in Pending' : f.key \notin stored' \cup failed'
        /\ \A f \in Pending', g \in lost' : f.key # g.key
        /\ \A g \in lost' : g.key \notin stored' \cup failed'
        /\ stored' \cap failed' = {}
    BY <1>t, <2>1, <2>4 DEF OnePlace
  <2>8. QED BY <2>5, <2>6, <2>7 DEF OnePlace
<1>2. CASE Take
  <2>1. /\ Range(subunitq) = {Head(subunitq)} \cup Range(subunitq')
        /\ Range(hand') = {Head(subunitq)}
        /\ Pending' = Pending /\ UNCHANGED <<stored, failed, lost>>
    BY <1>2, <1>t, TakeMoves
  <2>2. subunitq # <<>> /\ subunitq' = Tail(subunitq)
    BY <1>2 DEF Take
  <2>3. /\ Len(subunitq) \in Nat \ {0} /\ Len(subunitq') = Len(subunitq) - 1
        /\ DOMAIN subunitq' = 1..Len(subunitq')
        /\ \A i \in 1..Len(subunitq') : subunitq'[i] = subunitq[i + 1]
        /\ Head(subunitq) = subunitq[1]
    BY <1>t, <2>2 DEF EventTypeOK
  <2>4. \A i, k \in 1..Len(subunitq) : subunitq[i].key = subunitq[k].key => i = k
    BY <1>t DEF OnePlace
  <2>5. \A i \in 1..Len(subunitq') : i + 1 \in 1..Len(subunitq) /\ i + 1 # 1
    BY <2>3
  <2>6. \A i, k \in 1..Len(subunitq') : subunitq'[i].key = subunitq'[k].key => i = k
    <3>1. SUFFICES ASSUME NEW i \in 1..Len(subunitq'), NEW k \in 1..Len(subunitq'),
                          subunitq'[i].key = subunitq'[k].key
                   PROVE  i = k
      OBVIOUS
    <3>2. i + 1 = k + 1
      BY <2>3, <2>4, <2>5, <3>1
    <3>3. QED BY <3>2
  <2>7. \A h \in Range(hand'), f \in Range(subunitq') : h.key # f.key
    <3>1. \A i \in 1..Len(subunitq') : subunitq'[i].key # subunitq[1].key
      <4>1. 1 \in 1..Len(subunitq)
        BY <2>3
      <4>2. QED BY <2>3, <2>4, <2>5, <4>1
    <3>2. \A f \in Range(subunitq') : f.key # subunitq[1].key
      BY <2>3, <3>1 DEF Range
    <3>3. QED BY <2>1, <2>3, <3>2
  <2>8. QED BY <1>t, <2>1, <2>6, <2>7 DEF OnePlace
<1>3. CASE Store
  <2>1. /\ Range(hand) = {hand[1]} /\ Range(hand') = {} /\ UNCHANGED <<subunitq, lost>>
        /\ \/ stored' = stored \cup {hand[1].key} /\ failed' = failed
           \/ failed' = failed \cup {hand[1].key} /\ stored' = stored
    BY <1>3, <1>t, StoreMoves
  <2>2. /\ hand[1].key \notin stored \cup failed
        /\ \A f \in Range(subunitq) : f.key # hand[1].key
        /\ \A f \in lost : f.key # hand[1].key
    BY <1>t, <2>1 DEF OnePlace, Pending
  <2>3. stored' \cup failed' = stored \cup failed \cup {hand[1].key}
    BY <2>1
  <2>4. Pending' = Range(subunitq) /\ Range(subunitq) \subseteq Pending
    BY <2>1 DEF Pending
  <2>5. stored' \cap failed' = {}
    BY <1>t, <2>1, <2>2 DEF OnePlace
  <2>6. QED BY <1>t, <2>1, <2>2, <2>3, <2>4, <2>5 DEF OnePlace
<1>4. CASE Stop
  <2>1. /\ Pending' = {} /\ lost' = lost \cup Pending
        /\ Range(subunitq') = {} /\ Range(hand') = {} /\ subunitq' = <<>>
        /\ UNCHANGED <<stored, failed>>
    BY <1>4, StopMoves
  <2>2. 1..Len(subunitq') = {}
    BY <2>1
  <2>3. \A i, k \in 1..Len(subunitq') : subunitq'[i].key = subunitq'[k].key => i = k
    BY <2>2
  <2>4. \A f \in lost' : f.key \notin stored' \cup failed'
    BY <1>t, <2>1 DEF OnePlace
  <2>5. stored' \cap failed' = {}
    BY <1>t, <2>1 DEF OnePlace
  <2>6. QED BY <2>1, <2>3, <2>4, <2>5 DEF OnePlace
<1>5. CASE UNCHANGED eventVars
  BY <1>5, <1>t DEF eventVars, OnePlace, Pending
<1>6. QED BY <1>1, <1>2, <1>3, <1>4, <1>5, EventStep

-----------------------------------------------------------------------------
(* What is known of a run.                                                  *)

(* All that a step can do to the outcome of a retrieval, *)
LEMMA OutcomeStep ==
  ASSUME [Next]_vars
  PROVE  \/ outcome' = outcome
         \/ /\ Retrieve
            /\ \E o \in {"aborted", "error", "stream", "missing"} :
                 /\ outcome' = [outcome EXCEPT ![Key] = o]
                 /\ \/ o = "aborted" /\ rpc' = "complete"
                    \/ o = "error" /\ rpc' = "exception"
                    \/ o = "stream" /\ rpc' = "put" /\ stream'
                    \/ o = "missing" /\ rpc' \in {"missing"}
<1>1. CASE Retrieve
  BY <1>1 DEF Retrieve, Comes
<1>2. CASE GetJob \/ AnswerMissing \/ Put
  BY <1>2 DEF GetJob, AnswerMissing, Put
<1>3. CASE WorkComplete \/ WorkException
  BY <1>3 DEF WorkComplete, WorkException, Return
<1>4. CASE ProcessorStep \/ LoseGeard \/ Stop \/ Start \/ UNCHANGED vars
  BY <1>4 DEF ProcessorStep, Take, Store, LoseGeard, Stop, Start, vars, retrieverVars
<1>5. QED BY <1>1, <1>2, <1>3, <1>4 DEF Next, RetrieverStep

(* to the answers, *)
LEMMA AnswersStep ==
  ASSUME [Next]_vars
  PROVE  \/ answers' = answers
         \/ /\ rpc \in {"missing", "complete", "exception"} /\ UNCHANGED outcome
            /\ \E a \in {"complete", "exception"} :
                 /\ answers' = [answers EXCEPT ![Key] = Append(@, a)]
                 /\ a = "complete" => rpc = "complete"
<1>1. CASE AnswerMissing
  BY <1>1 DEF AnswerMissing, Answer, Raises, gearVars
<1>2. CASE WorkComplete
  BY <1>2 DEF WorkComplete, Answer, Raises, gearVars, Return
<1>3. CASE WorkException
  BY <1>3 DEF WorkException, Answer, gearVars, Return
<1>4. CASE GetJob \/ Retrieve \/ Put
  BY <1>4 DEF GetJob, Retrieve, Put, gearVars
<1>5. CASE ProcessorStep \/ LoseGeard \/ Stop \/ Start \/ UNCHANGED vars
  BY <1>5 DEF ProcessorStep, Take, Store, LoseGeard, Stop, Start, Disconnect, vars, gearVars
<1>6. QED BY <1>1, <1>2, <1>3, <1>4, <1>5 DEF Next, RetrieverStep

(* and to the number of runs, which only grows. *)
LEMMA GearRunsStep ==
  ASSUME TypeOK, [Next]_vars, NEW j \in Jobs
  PROVE  gearRuns[j] <= gearRuns'[j]
<1>t. gearRuns \in [Jobs -> Int]
  BY SubunitAssumption DEF TypeOK, GearTypeOK
<1>1. CASE GetJob
  <2>1. PICK k \in Jobs : gearRuns' = [gearRuns EXCEPT ![k] = @ + 1]
    BY <1>1 DEF GetJob
  <2>2. QED BY <1>t, <2>1
<1>2. CASE ~GetJob
  <2>1. CASE AnswerMissing \/ WorkComplete \/ WorkException
    BY <1>t, <2>1 DEF AnswerMissing, WorkComplete, WorkException, Answer, Raises, gearVars
  <2>2. CASE Retrieve \/ Put
    BY <1>t, <2>2 DEF Retrieve, Put, gearVars
  <2>3. CASE ProcessorStep \/ LoseGeard \/ Stop \/ Start \/ UNCHANGED vars
    BY <1>t, <2>3 DEF ProcessorStep, Take, Store, LoseGeard, Stop, Start, Disconnect, vars, gearVars
  <2>4. QED BY <1>2, <2>1, <2>2, <2>3 DEF Next, RetrieverStep
<1>3. QED BY <1>1, <1>2

(* So every answer stays true to the outcome. *)
LEMMA StepFaithful ==
  ASSUME Inv, [Next]_vars
  PROVE  Faithful'
<1>t. TypeOK /\ EventTypeOK /\ OnePlace /\ Faithful /\ RetrieverOK
  BY DEF Inv, TypeOK
<1>o. outcome \in [Runs -> {"none", "aborted", "error", "stream", "missing"}]
  BY <1>t DEF TypeOK, RetrieverTypeOK
(* Only the outcome of a run without a trace changes. *)
<1>1. \A r \in Runs : outcome'[r] # outcome[r] => ~Traced(r) /\ outcome[r] = "none" /\ ~Put
  <2>1. CASE outcome' = outcome
    BY <2>1
  <2>2. CASE outcome' # outcome
    <3>1. PICK o : Retrieve /\ outcome' = [outcome EXCEPT ![Key] = o]
      BY <2>2, OutcomeStep
    <3>2. rpc = "retrieve" /\ outcome[Key] = "none" /\ Key \in Runs /\ ~Put
      BY <1>t, <3>1, KeyType DEF Retrieve, RetrieverOK, Put
    <3>3. ~Traced(Key)
      BY <1>t, <3>2 DEF Faithful
    <3>4. QED BY <1>o, <3>1, <3>2, <3>3
  <2>3. QED BY <2>1, <2>2
<1>2. \A e \in Pending' \cup lost' : e.whole <=> outcome'[e.key] = "stream"
  <2>1. \A e \in Pending \cup lost : e.key \in Runs /\ Traced(e.key)
    <3>1. Pending \cup lost \subseteq Event
      BY <1>t, RangeType DEF EventTypeOK, Pending
    <3>2. QED BY <3>1 DEF Traced, Event
  <2>2. \A e \in Pending \cup lost : e.whole <=> outcome'[e.key] = "stream"
    BY <1>t, <1>1, <2>1 DEF Faithful
  <2>3. CASE Put
    <3> DEFINE e == [key |-> Key, whole |-> stream]
    <3>1. Pending' \cup lost' = Pending \cup lost \cup {e} /\ e.key = Key /\ e.whole = stream
      BY <1>t, <2>3, PutMoves
    <3> HIDE DEF e
    <3>2. rpc = "put" /\ outcome' = outcome
      BY <2>3 DEF Put
    <3>3. stream <=> outcome'[Key] = "stream"
      BY <1>t, <3>2 DEF RetrieverOK
    <3>4. e.whole <=> outcome'[e.key] = "stream"
      BY <3>1, <3>3
    <3>5. QED BY <2>2, <3>1, <3>4
  <2>4. CASE ~Put
    <3>1. Pending' \cup lost' \subseteq Pending \cup lost
      <4>1. CASE Take
        BY <1>t, <4>1, TakeMoves
      <4>2. CASE Store
        BY <1>t, <4>2, StoreMoves DEF Pending
      <4>3. CASE Stop
        BY <4>3, StopMoves
      <4>4. CASE UNCHANGED eventVars
        BY <4>4 DEF eventVars, Pending
      <4>5. QED BY <2>4, <4>1, <4>2, <4>3, <4>4, EventStep
    <3>2. QED BY <2>2, <3>1
  <2>5. QED BY <2>3, <2>4
<1>3. \A r \in stored' : outcome'[r] = "stream"
  <2>1. \A r \in stored : outcome'[r] = "stream"
    <3>1. \A r \in stored : r \in Runs /\ Traced(r)
      BY <1>t DEF EventTypeOK, Traced
    <3>2. QED BY <1>t, <1>1, <3>1 DEF Faithful
  <2>2. CASE Store
    <3>1. hand[1] \in Pending \cup lost /\ (stored' = stored \/ (hand[1].whole /\ stored' = stored \cup {hand[1].key}))
      BY <1>t, <2>2, StoreMoves DEF Pending
    <3>2. outcome' = outcome
      BY <2>2 DEF Store, retrieverVars
    <3>3. hand[1].whole => outcome'[hand[1].key] = "stream"
      BY <1>t, <3>1, <3>2 DEF Faithful
    <3>4. QED BY <2>1, <3>1, <3>3
  <2>3. CASE ~Store
    <3>1. stored' = stored
      BY <1>t, <2>3, EventStep, PutMoves, TakeMoves, StopMoves DEF eventVars
    <3>2. QED BY <2>1, <3>1
  <2>4. QED BY <2>2, <2>3
<1>4. \A r \in Runs : outcome'[r] = "none" => answers'[r] = <<>> /\ ~Traced(r)'
  <2>1. SUFFICES ASSUME NEW r \in Runs, outcome'[r] = "none"
                 PROVE  answers'[r] = <<>> /\ ~Traced(r)'
    OBVIOUS
  <2>2. outcome[r] = "none"
    BY <1>1, <2>1
  <2>3. answers[r] = <<>> /\ ~Traced(r)
    BY <1>t, <2>2 DEF Faithful
  <2>4. answers'[r] = <<>>
    <3>1. CASE answers' = answers
      BY <2>3, <3>1
    <3>2. CASE answers' # answers
      <4>1. PICK a : /\ rpc \in {"missing", "complete", "exception"}
                     /\ answers' = [answers EXCEPT ![Key] = Append(@, a)]
        BY <3>2, AnswersStep
      <4>2. outcome[Key] # "none"
        BY <1>t, <4>1 DEF RetrieverOK
      <4>3. answers'[r] = answers[r]
        BY <2>2, <4>1, <4>2, <1>t DEF TypeOK, GearTypeOK
      <4>4. QED BY <2>3, <4>3
    <3>3. QED BY <3>1, <3>2
  <2>5. ~Traced(r)'
    <3>1. ASSUME Traced(r)' PROVE FALSE
      <4>1. Put /\ r = Key
        BY <1>t, <2>3, <3>1, TracedStep
      <4>2. rpc = "put" /\ outcome[Key] # "none"
        BY <1>t, <4>1 DEF Put, RetrieverOK
      <4>3. QED BY <2>2, <4>1, <4>2
    <3>2. QED BY <3>1
  <2>6. QED BY <2>4, <2>5
<1>5. \A r \in Runs : gearRuns'[r[1]] < r[2] => outcome'[r] = "none"
  <2>1. SUFFICES ASSUME NEW r \in Runs, gearRuns'[r[1]] < r[2]
                 PROVE  outcome'[r] = "none"
    OBVIOUS
  <2>2. r[1] \in Jobs /\ r[2] \in Int /\ gearRuns[r[1]] \in Int /\ gearRuns'[r[1]] \in Int
    BY <1>t, StepGearType, SubunitAssumption DEF Runs, TypeOK, GearTypeOK
  <2>3. gearRuns[r[1]] < r[2]
    BY <1>t, <2>1, <2>2, GearRunsStep
  <2>4. outcome[r] = "none"
    BY <1>t, <2>3 DEF Faithful
  <2>5. outcome'[r] = outcome[r]
    <3>1. CASE outcome' = outcome
      BY <3>1
    <3>2. CASE outcome' # outcome
      <4>1. PICK o : Retrieve /\ outcome' = [outcome EXCEPT ![Key] = o]
        BY <3>2, OutcomeStep
      <4>2. rpc # "idle" /\ Key \in Runs /\ Key = <<job, run>> /\ job \in Jobs
        BY <1>t, <4>1, KeyType DEF Retrieve
      <4>3. run \in 1..gearRuns[job] /\ gearRuns[job] \in Int
        BY <1>t, <4>2, SubunitAssumption DEF RetrieverOK, TypeOK, GearTypeOK
      <4>4. Key[1] = job /\ Key[2] = run
        BY <4>2
      <4>5. r # Key
        BY <2>2, <2>3, <4>3, <4>4
      <4>6. QED BY <1>o, <4>1, <4>5
    <3>3. QED BY <3>1, <3>2
  <2>6. QED BY <2>4, <2>5
<1>6. QED BY <1>2, <1>3, <1>4, <1>5 DEF Faithful

-----------------------------------------------------------------------------
(* The retriever's place.                                                   *)

(* The retriever stays where its job and its link say it can be. *)
LEMMA StepRetrieverOK ==
  ASSUME Inv, [Next]_vars
  PROVE  RetrieverOK'
<1>t. TypeOK /\ EventTypeOK /\ RetrieverTypeOK /\ Faithful /\ RetrieverOK
  BY DEF Inv, TypeOK
<1>k. rpc # "idle" => Key \in Runs /\ job \in Jobs /\ Key = <<job, run>>
  BY <1>t, KeyType
<1>a. answers \in [Runs -> Seq({"complete", "exception"})]
  BY <1>t DEF TypeOK, GearTypeOK
<1>o. outcome \in [Runs -> {"none", "aborted", "error", "stream", "missing"}]
  BY <1>t DEF RetrieverTypeOK
<1>r. rpc # "idle" /\ gearRuns' = gearRuns /\ UNCHANGED <<job, run>>
        => job' \in Jobs /\ run' \in 1..gearRuns'[job'] /\ Key' = Key
  BY <1>t DEF RetrieverOK, Key
<1>1. CASE GetJob
  <2>1. PICK j \in Jobs : /\ gearRuns' = [gearRuns EXCEPT ![j] = @ + 1]
                          /\ gearRuns[j] < MaxRuns
                          /\ job' = j /\ run' = gearRuns[j] + 1
    BY <1>1 DEF GetJob
  <2>2. gearRuns[j] \in Nat /\ gearRuns'[j] = gearRuns[j] + 1
    BY <1>t, <2>1, SubunitAssumption DEF TypeOK, GearTypeOK
  <2>3. job' \in Jobs /\ run' \in 1..gearRuns'[job']
    BY <2>1, <2>2
  <2>4. <<j, gearRuns[j] + 1>> \in Runs /\ Key' = <<j, gearRuns[j] + 1>>
    BY <2>1, <2>2, SubunitAssumption DEF Runs, Key
  <2>5. outcome[<<j, gearRuns[j] + 1>>] = "none"
    BY <1>t, <2>2, <2>4 DEF Faithful
  <2>6. rpc' = "retrieve" /\ outcome' = outcome
    BY <1>1 DEF GetJob
  <2>7. QED BY <2>3, <2>4, <2>5, <2>6 DEF RetrieverOK
<1>2. CASE Retrieve
  <2>1. /\ rpc = "retrieve" /\ gearRuns' = gearRuns /\ answers' = answers
        /\ UNCHANGED <<job, run, linked, subunitq, hand, stored, failed, lost>>
    BY <1>2 DEF Retrieve, gearVars, processorVars
  <2>2. job' \in Jobs /\ run' \in 1..gearRuns'[job'] /\ Key' = Key /\ Key \in Runs
    BY <1>r, <1>k, <2>1
  <2>3. outcome[Key] = "none"
    BY <1>t, <2>1 DEF RetrieverOK
  <2>4. answers[Key] = <<>> /\ ~Traced(Key)
    BY <1>t, <2>2, <2>3 DEF Faithful
  <2>5. ~Traced(Key)'
    BY <2>1, <2>2, <2>4 DEF Traced, Pending
  <2>6. \/ rpc' = "complete" /\ outcome'[Key] = "aborted"
        \/ rpc' = "exception" /\ outcome'[Key] = "error"
        \/ rpc' = "put" /\ outcome'[Key] = "stream" /\ stream'
        \/ rpc' = "missing" /\ outcome'[Key] = "missing" /\ ~stream'
    BY <1>2, <1>o, <2>2 DEF Retrieve, Comes
  <2>7. QED BY <2>1, <2>2, <2>4, <2>5, <2>6 DEF RetrieverOK
<1>3. CASE AnswerMissing
  <2>1. /\ rpc = "missing" /\ gearRuns' = gearRuns /\ rpc' \in {"put", "exception"}
        /\ UNCHANGED <<job, run, linked, stream, outcome, subunitq, hand, stored, failed, lost>>
    BY <1>3 DEF AnswerMissing, Answer, Raises, gearVars, processorVars
  <2>2. job' \in Jobs /\ run' \in 1..gearRuns'[job'] /\ Key' = Key
    BY <1>r, <2>1
  <2>3. outcome[Key] = "missing" /\ ~Traced(Key) /\ ~stream
    BY <1>t, <2>1 DEF RetrieverOK
  <2>4. ~Traced(Key)'
    BY <2>1, <2>2, <2>3 DEF Traced, Pending
  <2>5. QED BY <2>1, <2>2, <2>3, <2>4 DEF RetrieverOK
<1>4. CASE Put
  <2>1. /\ rpc = "put" /\ gearRuns' = gearRuns /\ rpc' = "complete"
        /\ UNCHANGED <<job, run, linked, stream, outcome>>
    BY <1>4 DEF Put, gearVars
  <2>2. job' \in Jobs /\ run' \in 1..gearRuns'[job'] /\ Key' = Key
    BY <1>r, <2>1
  <2>3. Traced(Key)' /\ outcome[Key] # "none"
    BY <1>t, <1>4, <2>1, TracedStep DEF RetrieverOK
  <2>4. QED BY <2>1, <2>2, <2>3 DEF RetrieverOK
<1>5. CASE (WorkComplete \/ WorkException) /\ ~Return
  <2>1. /\ rpc \in {"complete", "exception"} /\ gearRuns' = gearRuns /\ rpc' = "exception"
        /\ UNCHANGED <<job, run, linked, stream, outcome>>
    BY <1>5 DEF WorkComplete, WorkException, Raises, gearVars
  <2>2. job' \in Jobs /\ run' \in 1..gearRuns'[job'] /\ Key' = Key
    BY <1>r, <2>1
  <2>3. outcome[Key] # "none"
    BY <1>t, <2>1 DEF RetrieverOK
  <2>4. QED BY <2>1, <2>2, <2>3 DEF RetrieverOK
<1>6. CASE Return \/ Stop
  <2>1. rpc' = "idle" /\ linked' = FALSE
    BY <1>6 DEF Return, Stop, Disconnect
  <2>2. QED BY <2>1 DEF RetrieverOK
<1>7. CASE ProcessorStep \/ Start \/ LoseGeard \/ UNCHANGED vars
  <2>1. /\ UNCHANGED <<rpc, job, run, stream, outcome, gearRuns, answers>>
        /\ linked' = linked \/ linked' = FALSE
    BY <1>7 DEF ProcessorStep, Take, Store, Start, LoseGeard, Disconnect, vars, gearVars, retrieverVars
  <2>2. Key' = Key
    BY <2>1 DEF Key
  <2>3. Traced(Key)' <=> Traced(Key)
    <3>1. ~Put
      <4>1. ASSUME Put PROVE FALSE
        BY <2>1, <4>1 DEF Put
      <4>2. QED BY <4>1
    <3>2. \A k : k = Key => (Traced(k)' <=> Traced(k))
      BY <1>t, <3>1, TracedStep
    <3>3. QED BY <2>2, <3>2
  <2>4. QED BY <1>t, <2>1, <2>2, <2>3 DEF RetrieverOK
<1>8. QED BY <1>1, <1>2, <1>3, <1>4, <1>5, <1>6, <1>7 DEF Next, RetrieverStep

(* A completed run keeps its trace, and one that becomes complete has one.  *)
LEMMA StepCompletedTraced ==
  ASSUME Inv, [Next]_vars
  PROVE  CompletedTraced'
<1>t. TypeOK /\ EventTypeOK /\ RetrieverTypeOK /\ Faithful /\ RetrieverOK /\ CompletedTraced
  BY DEF Inv, TypeOK
<1>a. answers \in [Runs -> Seq({"complete", "exception"})]
  BY <1>t DEF TypeOK, GearTypeOK
<1>o. outcome \in [Runs -> {"none", "aborted", "error", "stream", "missing"}]
  BY <1>t DEF RetrieverTypeOK
<1>1. SUFFICES ASSUME NEW r \in Runs, outcome'[r] = "stream", "complete" \in Range(answers'[r])
               PROVE  Traced(r)'
  BY DEF CompletedTraced, Promised
<1>2. Traced(r) => Traced(r)'
  BY <1>t, TracedStep
<1>3. CASE outcome'[r] # outcome[r]
  <2>1. PICK o : Retrieve /\ outcome' = [outcome EXCEPT ![Key] = o]
    BY <1>3, OutcomeStep
  <2>2. outcome[r] = "none" /\ answers' = answers
    BY <1>t, <1>o, <1>3, <2>1 DEF Retrieve, RetrieverOK, gearVars
  <2>3. answers'[r] = <<>>
    BY <1>t, <2>2 DEF Faithful
  <2>4. QED BY <1>1, <2>3, RangeOfEmpty
<1>4. CASE outcome'[r] = outcome[r] /\ answers'[r] = answers[r]
  BY <1>1, <1>2, <1>4, <1>t DEF CompletedTraced, Promised
<1>5. CASE outcome'[r] = outcome[r] /\ answers'[r] # answers[r]
  <2>1. PICK a \in {"complete", "exception"} :
          /\ rpc \in {"missing", "complete", "exception"}
          /\ answers' = [answers EXCEPT ![Key] = Append(@, a)]
          /\ a = "complete" => rpc = "complete"
    BY <1>5, AnswersStep
  <2>2. r = Key /\ answers'[r] = Append(answers[r], a)
    BY <1>a, <1>5, <2>1
  <2>3. Range(answers'[r]) = Range(answers[r]) \cup {a}
    BY <1>a, <2>2, RangeOfAppend
  <2>4. CASE a = "complete"
    BY <1>t, <1>1, <1>2, <1>5, <2>1, <2>2, <2>4 DEF RetrieverOK
  <2>5. CASE a = "exception"
    BY <1>t, <1>1, <1>2, <1>5, <2>3, <2>5 DEF CompletedTraced, Promised
  <2>6. QED BY <2>4, <2>5
<1>6. QED BY <1>3, <1>4, <1>5

(* So every step keeps the invariant. *)
LEMMA StepInv == Inv /\ [Next]_vars => Inv'
<1> SUFFICES ASSUME Inv, [Next]_vars PROVE Inv'
  OBVIOUS
<1>1. TypeOK /\ RetrieverOK
  BY DEF Inv
<1>2. TypeOK'
  BY <1>1, StepRetrieverType, StepGearType, StepEventType DEF TypeOK
<1>3. OnePlace' /\ Faithful' /\ RetrieverOK' /\ CompletedTraced'
  BY StepOnePlace, StepFaithful, StepRetrieverOK, StepCompletedTraced
<1>4. QED BY <1>2, <1>3 DEF Inv

(* The invariant holds in every state: the types, one place for each event,  *)
(* and answers that are true to what was retrieved.                          *)
THEOREM Invariance == Spec => []Inv
  BY InitInv, StepInv, PTL DEF Spec

(* Every variable has its type in every state. *)
THEOREM SubunitTypeCorrect == Spec => []TypeOK
<1>1. Inv => TypeOK
  BY DEF Inv
<1>2. QED BY Invariance, <1>1, PTL

(* What is stored was retrieved whole, and no trace of it is left that      *)
(* could be stored again.                                                   *)
THEOREM StreamsStoredOnce == Spec => []StoredOnce
<1>1. Inv => StoredOnce
  BY DEF Inv, StoredOnce, OnePlace, Faithful
<1>2. QED BY Invariance, <1>1, PTL

-----------------------------------------------------------------------------
(* The answers.  The run the retriever is at has none, except that of a     *)
(* missing stream, which has the one exception until the job is completed   *)
(* over it.                                                                 *)

AnsweredSoFar ==
  rpc # "idle" => \/ answers[Key] = <<>>
                  \/ /\ rpc \in {"put", "complete", "exception"} /\ outcome[Key] = "missing"
                     /\ answers[Key] = <<"exception">>

AnswersInv == AnsweredSoFar /\ FirstAnswerStands

(* At the start there is no answer. *)
LEMMA InitAnswers == Init => AnswersInv
<1> SUFFICES ASSUME Init PROVE AnswersInv
  OBVIOUS
<1>1. \A r \in Runs : Len(answers[r]) = 0
  BY DEF Init
<1>2. QED BY <1>1 DEF Init, AnswersInv, AnsweredSoFar, FirstAnswerStands

(* A second answer is one behind the exception for a missing stream.        *)
LEMMA StepFirstAnswer ==
  ASSUME Inv, AnswersInv, [Next]_vars
  PROVE  FirstAnswerStands'
<1>a. answers \in [Runs -> Seq({"complete", "exception"})]
  BY DEF Inv, TypeOK, GearTypeOK
<1>o. outcome \in [Runs -> {"none", "aborted", "error", "stream", "missing"}]
  BY DEF Inv, TypeOK, RetrieverTypeOK
<1>1. SUFFICES ASSUME NEW r \in Runs, Len(answers'[r]) > 1
               PROVE  outcome'[r] = "missing" /\ Len(answers'[r]) = 2 /\ answers'[r][1] = "exception"
  BY DEF FirstAnswerStands
<1>2. CASE answers'[r] = answers[r]
  <2>1. outcome[r] = "missing" /\ Len(answers[r]) = 2 /\ answers[r][1] = "exception"
    BY <1>1, <1>2 DEF AnswersInv, FirstAnswerStands
  <2>2. outcome'[r] = outcome[r]
    BY <1>o, <2>1, OutcomeStep DEF Retrieve, Inv, RetrieverOK
  <2>3. QED BY <1>2, <2>1, <2>2
<1>3. CASE answers'[r] # answers[r]
  <2>1. PICK a \in {"complete", "exception"} :
          /\ rpc \in {"missing", "complete", "exception"}
          /\ answers' = [answers EXCEPT ![Key] = Append(@, a)]
    BY <1>3, AnswersStep
  <2>2. r = Key /\ answers'[r] = Append(answers[r], a)
    BY <1>a, <1>3, <2>1
  <2>3. outcome'[r] = outcome[r]
    BY <2>1, OutcomeStep DEF Retrieve
  <2>4. answers[r] # <<>>
    BY <1>1, <2>2
  <2>5. outcome[r] = "missing" /\ answers[r] = <<"exception">>
    BY <2>1, <2>2, <2>4 DEF AnswersInv, AnsweredSoFar
  <2>6. QED BY <2>2, <2>3, <2>5
<1>4. QED BY <1>2, <1>3

(* Every step keeps what is known of the first answers. *)
LEMMA StepAnsweredSoFar ==
  ASSUME Inv, AnswersInv, [Next]_vars
  PROVE  AnsweredSoFar'
<1>t. TypeOK /\ Faithful /\ RetrieverOK /\ AnsweredSoFar
  BY DEF Inv, AnswersInv
<1>a. answers \in [Runs -> Seq({"complete", "exception"})]
  BY <1>t DEF TypeOK, GearTypeOK
<1>o. outcome \in [Runs -> {"none", "aborted", "error", "stream", "missing"}]
  BY <1>t DEF TypeOK, RetrieverTypeOK
<1>1. CASE GetJob
  <2>1. PICK j \in Jobs : /\ gearRuns[j] < MaxRuns /\ job' = j /\ run' = gearRuns[j] + 1
                          /\ UNCHANGED answers
    BY <1>1 DEF GetJob
  <2>2. gearRuns[j] \in 0..MaxRuns
    BY <1>t DEF TypeOK, GearTypeOK
  <2>3. Key' \in Runs /\ Key'[1] = j /\ Key'[2] = gearRuns[j] + 1
    BY <2>1, <2>2, SubunitAssumption DEF Key, Runs
  <2>4. gearRuns[Key'[1]] < Key'[2]
    BY <2>2, <2>3, SubunitAssumption
  <2>5. answers[Key'] = <<>>
    BY <1>t, <2>3, <2>4 DEF Faithful
  <2>6. QED BY <2>1, <2>5 DEF AnsweredSoFar
<1>2. CASE Retrieve
  <2>1. rpc = "retrieve" /\ UNCHANGED <<answers, job, run>>
    BY <1>2 DEF Retrieve, gearVars
  <2>2. answers[Key] = <<>> /\ Key' = Key
    BY <1>t, <2>1 DEF AnsweredSoFar, Key
  <2>3. QED BY <2>1, <2>2 DEF AnsweredSoFar
<1>3. CASE AnswerMissing
  <2>1. rpc = "missing" /\ rpc' \in {"put", "exception"} /\ UNCHANGED <<job, run, outcome>>
    BY <1>3 DEF AnswerMissing, Raises
  <2>2. Key \in Runs /\ Key' = Key /\ answers[Key] = <<>> /\ outcome[Key] = "missing"
    BY <1>t, <2>1, KeyType DEF AnsweredSoFar, Key, RetrieverOK
  <2>3. CASE Answer("exception")
    <3>1. answers'[Key] = Append(<<>>, "exception")
      BY <1>a, <2>2, <2>3 DEF Answer
    <3>2. QED BY <2>1, <2>2, <3>1 DEF AnsweredSoFar
  <2>4. CASE UNCHANGED gearVars
    BY <2>1, <2>2, <2>4 DEF AnsweredSoFar, gearVars
  <2>5. QED BY <1>3, <2>3, <2>4 DEF AnswerMissing, Raises
<1>4. CASE Put \/ ((WorkComplete \/ WorkException) /\ ~Return)
  <2>1. rpc \in {"put", "complete"} /\ rpc' \in {"complete", "exception"}
        /\ UNCHANGED <<job, run, outcome, answers>>
    BY <1>4 DEF Put, WorkComplete, WorkException, Raises, gearVars
  <2>2. Key' = Key
    BY <2>1 DEF Key
  <2>3. QED BY <1>t, <2>1, <2>2 DEF AnsweredSoFar
<1>5. CASE Return \/ Stop
  BY <1>5 DEF Return, Stop, AnsweredSoFar
<1>6. CASE ProcessorStep \/ LoseGeard \/ Start \/ UNCHANGED vars
  <2>1. UNCHANGED <<rpc, job, run, outcome, answers>>
    BY <1>6 DEF ProcessorStep, Take, Store, LoseGeard, Disconnect, Start, vars, gearVars, retrieverVars
  <2>2. QED BY <1>t, <2>1 DEF AnsweredSoFar, Key
<1>7. QED BY <1>1, <1>2, <1>3, <1>4, <1>5, <1>6 DEF Next, RetrieverStep

(* Of two answers for a run the first, the one geard keeps, is the          *)
(* exception for a stream that could not be retrieved.                      *)
THEOREM FirstAnswerIsTheException == Spec => []FirstAnswerStands
<1>1. Inv /\ AnswersInv /\ [Next]_vars => AnswersInv'
  BY StepFirstAnswer, StepAnsweredSoFar DEF AnswersInv
<1>2. AnswersInv => FirstAnswerStands
  BY DEF AnswersInv
<1>3. QED BY Invariance, InitAnswers, <1>1, <1>2, PTL DEF Spec

-----------------------------------------------------------------------------
(* Refinement.  The invariant makes the four stages exclusive: a retrieved  *)
(* run without a trace waits, and one with a trace is in exactly one place. *)

StageFacts ==
  \A r \in Runs :
    /\ StageOf(r) = "delivered" <=> r \in stored
    /\ StageOf(r) = "dropped"
         <=> outcome[r] = "stream" /\ (r \in failed \/ \E e \in lost : e.key = r)
    /\ StageOf(r) = "held" <=> outcome[r] = "stream" /\ \E e \in Pending : e.key = r
    /\ StageOf(r) = "waiting" <=> outcome[r] # "stream" \/ ~Traced(r)
    /\ StageOf(r) \in {"waiting", "held", "delivered", "dropped"}

(* The stage of an item, read from where its event is. *)
LEMMA StageIs == Inv => StageFacts
<1> SUFFICES ASSUME Inv, NEW r \in Runs
             PROVE  /\ StageOf(r) = "delivered" <=> r \in stored
                    /\ StageOf(r) = "dropped"
                         <=> outcome[r] = "stream" /\ (r \in failed \/ \E e \in lost : e.key = r)
                    /\ StageOf(r) = "held" <=> outcome[r] = "stream" /\ \E e \in Pending : e.key = r
                    /\ StageOf(r) = "waiting" <=> outcome[r] # "stream" \/ ~Traced(r)
                    /\ StageOf(r) \in {"waiting", "held", "delivered", "dropped"}
  BY DEF StageFacts
<1>1. /\ r \in stored => outcome[r] = "stream" /\ r \notin failed
      /\ \A e \in Pending \cup lost : e.key = r => r \notin stored \cup failed
      /\ \A e \in Pending, f \in lost : ~(e.key = r /\ f.key = r)
  BY DEF Inv, OnePlace, Faithful
<1>2. \A e \in Pending \cup lost : e.key = r => (e.whole <=> outcome[r] = "stream")
  BY DEF Inv, Faithful
<1>3. Among(r, lost) <=> outcome[r] = "stream" /\ \E e \in lost : e.key = r
  BY <1>2 DEF Among
<1>4. Among(r, Pending) <=> outcome[r] = "stream" /\ \E e \in Pending : e.key = r
  BY <1>2 DEF Among
<1>5. QED BY <1>1, <1>3, <1>4 DEF StageOf, Traced

Stages == [r \in Runs |-> StageOf(r)]

(* Where the events lie decides the stage.                                  *)
LEMMA StagesKept ==
  ASSUME StageFacts, StageFacts', UNCHANGED <<stored, failed, lost>>, Pending' = Pending,
         \A r \in Runs : outcome'[r] = outcome[r] \/ (~Traced(r) /\ r \notin stored)
  PROVE  Stages' = Stages
<1>1. ASSUME NEW r \in Runs PROVE StageOf(r)' = StageOf(r)
  <2>1. Traced(r)' <=> Traced(r)
    BY DEF Traced
  <2>2. CASE outcome'[r] = outcome[r]
    BY <2>1, <2>2 DEF StageFacts
  <2>3. CASE ~Traced(r) /\ r \notin stored
    <3>1. StageOf(r) = "waiting" /\ StageOf(r)' = "waiting"
      BY <2>1, <2>3 DEF StageFacts
    <3>2. QED BY <3>1
  <2>4. QED BY <2>2, <2>3
<1>2. QED BY <1>1 DEF Stages

(* Initial states map to initial states. *)
LEMMA InitRefines == Init => Worker!Init
<1> SUFFICES ASSUME Init PROVE Worker!Init
  OBVIOUS
<1>1. \A r \in Runs : outcome[r] = "none" /\ answers[r] = <<>> /\ stored = {}
  BY DEF Init
<1>2. \A r \in Runs : StageOf(r) = "waiting"
  BY <1>1, InitInv, StageIs DEF StageFacts
<1>3. Promised = {}
  BY <1>1 DEF Promised
<1>4. QED BY <1>2, <1>3 DEF Worker!Init

(* Every step maps to a step of Handover or to none. *)
LEMMA StepRefines ==
  ASSUME Inv, Inv', StageFacts, StageFacts', [Next]_vars
  PROVE  [Worker!Next]_(Worker!vars)
<1>t. TypeOK /\ EventTypeOK /\ RetrieverTypeOK /\ OnePlace /\ Faithful /\ RetrieverOK
  BY DEF Inv, TypeOK
<1>a. answers \in [Runs -> Seq({"complete", "exception"})]
  BY <1>t DEF TypeOK, GearTypeOK
<1>o. outcome \in [Runs -> {"none", "aborted", "error", "stream", "missing"}]
  BY <1>t DEF RetrieverTypeOK
<1>s. Stages = [r \in Runs |-> StageOf(r)] /\ Stages' = [r \in Runs |-> StageOf(r)']
  BY DEF Stages
<1>1. CASE Put /\ stream
  <2>1. /\ rpc = "put" /\ UNCHANGED <<outcome, answers>> /\ Key \in Runs
    BY <1>1, <1>t, KeyType DEF Put, gearVars
  <2>2. outcome[Key] = "stream" /\ ~Traced(Key)
    BY <1>1, <1>t, <2>1 DEF RetrieverOK
  <2>3. StageOf(Key) = "waiting"
    BY <2>1, <2>2 DEF StageFacts
  <2> DEFINE e == [key |-> Key, whole |-> stream]
  <2>4. Pending' = Pending \cup {e} /\ UNCHANGED <<stored, failed, lost>> /\ e.key = Key
    BY <1>1, <1>t, PutMoves
  <2> HIDE DEF e
  <2>5. ASSUME NEW r \in Runs PROVE StageOf(r)' = IF r = Key THEN "held" ELSE StageOf(r)
    <3>1. CASE r = Key
      BY <2>1, <2>2, <2>4, <3>1 DEF StageFacts
    <3>2. CASE r # Key
      <4>1. (\E f \in Pending' : f.key = r) <=> (\E f \in Pending : f.key = r)
        BY <2>4, <3>2
      <4>2. Traced(r)' <=> Traced(r)
        BY <2>4, <4>1 DEF Traced
      <4>3. QED BY <2>1, <2>4, <3>2, <4>1, <4>2 DEF StageFacts
    <3>3. QED BY <3>1, <3>2
  <2>6. Promised' = Promised
    BY <2>1 DEF Promised
  <2>7. Stages' = [Stages EXCEPT ![Key] = "held"]
    BY <1>s, <2>1, <2>5
  <2>8. Worker!TakeOver
    BY <2>1, <2>3, <2>6, <2>7 DEF Worker!TakeOver, Stages
  <2>9. QED BY <2>8 DEF Worker!Next
<1>2. CASE Store /\ UNCHANGED failed
  <2>1. /\ hand[1].whole /\ stored' = stored \cup {hand[1].key}
        /\ Range(hand) = {hand[1]} /\ Range(hand') = {} /\ UNCHANGED <<subunitq, lost, failed>>
    <3>1. hand[1].key \notin failed
      BY <1>2, <1>t, StoreMoves DEF OnePlace, Pending
    <3>2. QED BY <1>2, <1>t, <3>1, StoreMoves
  <2>2. UNCHANGED <<outcome, answers>>
    BY <1>2 DEF Store, gearVars, retrieverVars
  <2> DEFINE k == hand[1].key
  <2>3. k \in Runs
    BY <1>2, <1>t, HandIsSingle DEF Store, Event
  <2>4. Pending = Range(subunitq) \cup {hand[1]} /\ Pending' = Range(subunitq)
    BY <2>1 DEF Pending
  <2>5. StageOf(k) = "held"
    <3>1. hand[1] \in Pending
      BY <2>4
    <3>2. outcome[k] = "stream"
      BY <1>t, <2>1, <3>1 DEF Faithful
    <3>3. QED BY <2>3, <3>1, <3>2 DEF StageFacts
  <2> HIDE DEF k
  <2>6. ASSUME NEW r \in Runs PROVE StageOf(r)' = IF r = k THEN "delivered" ELSE StageOf(r)
    <3>1. CASE r = k
      BY <2>1, <3>1 DEF StageFacts, k
    <3>2. CASE r # k
      <4>1. (\E f \in Pending' : f.key = r) <=> (\E f \in Pending : f.key = r)
        BY <2>4, <3>2 DEF k
      <4>2. r \in stored' <=> r \in stored
        BY <2>1, <3>2 DEF k
      <4>3. Traced(r)' <=> Traced(r)
        BY <2>1, <4>1, <4>2 DEF Traced
      <4>4. QED BY <2>1, <2>2, <3>2, <4>1, <4>2, <4>3 DEF StageFacts
    <3>3. QED BY <3>1, <3>2
  <2>7. Stages' = [Stages EXCEPT ![k] = "delivered"]
    BY <1>s, <2>3, <2>6
  <2>8. Promised' = Promised
    BY <2>2 DEF Promised
  <2>9. Worker!Deliver
    BY <2>3, <2>5, <2>7, <2>8 DEF Worker!Deliver, Stages
  <2>10. QED BY <2>9 DEF Worker!Next
(* A failure of the database or of the parser, and a stop, drop what they   *)
(* find in the pipeline.                                                    *)
<1>3. CASE (Store /\ ~UNCHANGED failed) \/ Stop
  <2> DEFINE Gone == {r \in Runs : StageOf(r) = "held" /\ StageOf(r)' # "held"}
  <2>1. UNCHANGED <<outcome, answers, stored>>
    <3>1. CASE Store /\ ~UNCHANGED failed
      BY <1>t, <3>1, StoreMoves DEF Store, gearVars, retrieverVars
    <3>2. CASE Stop
      BY <3>2 DEF Stop, Disconnect
    <3>3. QED BY <1>3, <3>1, <3>2
  <2>2. Pending' \subseteq Pending /\ failed \subseteq failed' /\ lost \subseteq lost' /\ ~Put
    <3>1. CASE Store
      BY <1>t, <3>1, StoreMoves DEF Pending, Put, Store, processorVars
    <3>2. CASE Stop
      BY <3>2, StopMoves DEF Put, Stop
    <3>3. QED BY <1>3, <3>1, <3>2
  <2>3. ASSUME NEW r \in Runs
        PROVE  StageOf(r)' = IF r \in Gone THEN "dropped" ELSE StageOf(r)
    <3>1. Traced(r)' <=> Traced(r)
      BY <1>t, <2>2, TracedStep
    <3>2. StageOf(r) = "waiting" <=> StageOf(r)' = "waiting"
      BY <2>1, <3>1 DEF StageFacts
    <3>3. StageOf(r) = "delivered" <=> StageOf(r)' = "delivered"
      BY <2>1 DEF StageFacts
    <3>4. StageOf(r) = "dropped" => StageOf(r)' = "dropped"
      BY <2>1, <2>2 DEF StageFacts
    <3>5. StageOf(r)' = "held" => StageOf(r) = "held"
      BY <2>1, <2>2 DEF StageFacts
    <3>6. /\ StageOf(r) \in {"waiting", "held", "delivered", "dropped"}
          /\ StageOf(r)' \in {"waiting", "held", "delivered", "dropped"}
      BY DEF StageFacts
    <3>7. QED BY <3>2, <3>3, <3>4, <3>5, <3>6
  <2> HIDE DEF Gone
  <2>4. Gone \in SUBSET {r \in Runs : Stages[r] = "held"}
    BY DEF Gone, Stages
  <2>5. Stages' = [r \in Runs |-> IF r \in Gone THEN "dropped" ELSE Stages[r]]
    BY <1>s, <2>3
  <2>6. Promised' = Promised
    BY <2>1 DEF Promised
  <2>7. Worker!Drop
    BY <2>4, <2>5, <2>6 DEF Worker!Drop, Stages
  <2>8. QED BY <2>7 DEF Worker!Next
<1>4. CASE Take \/ (Put /\ ~stream) \/ UNCHANGED eventVars
  <2>1. Stages' = Stages
    <3>1. CASE Put /\ ~stream
      <4>1. /\ rpc = "put" /\ outcome' = outcome /\ Key \in Runs
        BY <3>1, <1>t, KeyType DEF Put
      <4>2. outcome[Key] # "stream"
        BY <1>t, <3>1, <4>1 DEF RetrieverOK
      <4> DEFINE e == [key |-> Key, whole |-> stream]
      <4>3. Pending' = Pending \cup {e} /\ UNCHANGED <<stored, failed, lost>> /\ e.key = Key
        BY <1>t, <3>1, PutMoves
      <4> HIDE DEF e
      <4>4. ASSUME NEW r \in Runs PROVE StageOf(r)' = StageOf(r)
        <5>1. CASE r = Key
          <6>1. StageOf(r) = "waiting" /\ StageOf(r)' = "waiting"
            BY <4>1, <4>2, <5>1 DEF StageFacts
          <6>2. QED BY <6>1
        <5>2. CASE r # Key
          <6>1. (\E f \in Pending' : f.key = r) <=> (\E f \in Pending : f.key = r)
            BY <4>3, <5>2
          <6>2. Traced(r)' <=> Traced(r)
            BY <4>3, <6>1 DEF Traced
          <6>3. QED BY <4>1, <4>3, <6>1, <6>2 DEF StageFacts
        <5>3. QED BY <5>1, <5>2
      <4>5. QED BY <1>s, <4>4
    <3>2. CASE Take \/ UNCHANGED eventVars
      <4>1. UNCHANGED <<stored, failed, lost>> /\ Pending' = Pending
        BY <1>t, <3>2, TakeMoves DEF eventVars, Pending
      <4>2. \A r \in Runs : outcome'[r] = outcome[r] \/ (~Traced(r) /\ r \notin stored)
        <5>1. CASE outcome' = outcome
          BY <5>1
        <5>2. CASE outcome' # outcome
          <6>1. PICK o : Retrieve /\ outcome' = [outcome EXCEPT ![Key] = o]
            BY <5>2, OutcomeStep
          <6>2. outcome[Key] = "none" /\ Key \in Runs
            BY <1>t, <6>1, KeyType DEF Retrieve, RetrieverOK
          <6>3. ~Traced(Key) /\ Key \notin stored
            BY <1>t, <6>2 DEF Faithful
          <6>4. QED BY <1>o, <6>1, <6>3
        <5>3. QED BY <5>1, <5>2
      <4>3. QED BY <4>1, <4>2, StagesKept
    <3>3. QED BY <1>4, <3>1, <3>2
  <2>2. Promised \subseteq Promised'
    <3>1. ASSUME NEW r \in Promised PROVE r \in Promised'
      <4>1. r \in Runs /\ outcome[r] = "stream" /\ "complete" \in Range(answers[r])
        BY <3>1 DEF Promised
      <4>2. outcome'[r] = "stream"
        BY <1>t, <1>o, <4>1, OutcomeStep DEF Retrieve, RetrieverOK
      <4>3. "complete" \in Range(answers'[r])
        <5>1. CASE answers'[r] = answers[r]
          BY <4>1, <5>1
        <5>2. CASE answers'[r] # answers[r]
          <6>1. PICK a : answers' = [answers EXCEPT ![Key] = Append(@, a)]
            BY <5>2, AnswersStep
          <6>2. answers'[r] = Append(answers[r], a)
            BY <1>a, <4>1, <5>2, <6>1
          <6>3. QED BY <1>a, <4>1, <6>2, RangeOfAppend
        <5>3. QED BY <5>1, <5>2
      <4>4. QED BY <4>1, <4>2, <4>3 DEF Promised
    <3>2. QED BY <3>1
  <2>3. Promised' \subseteq {r \in Runs : StageOf(r) # "waiting"}
    <3>1. \A r \in Promised' : r \in Runs /\ outcome'[r] = "stream" /\ Traced(r)'
      BY DEF Promised, Inv, CompletedTraced
    <3>2. \A r \in Promised' : StageOf(r)' # "waiting"
      BY <3>1 DEF StageFacts
    <3>3. \A r \in Runs : StageOf(r)' = StageOf(r)
      BY <1>s, <2>1
    <3>4. QED BY <3>1, <3>2, <3>3
  <2>4. Promised' \in SUBSET {r \in Runs : Stages[r] # "waiting"} /\ Promised' = Promised \cup Promised'
    BY <2>2, <2>3 DEF Stages
  <2>5. Worker!Promise
    BY <2>1, <2>4 DEF Worker!Promise, Stages
  <2>6. QED BY <2>5 DEF Worker!Next
<1>5. QED BY <1>1, <1>2, <1>3, <1>4, EventStep

(* The worker implements Handover: every stream is taken over once, goes to *)
(* the database or down and never both, and a completed job's stream has    *)
(* been taken over.                                                         *)
THEOREM SubunitImplementsHandover == Spec => ImplementsHandover
<1>1. Inv => StageFacts
  BY StageIs
<1>2. Inv /\ Inv' /\ StageFacts /\ StageFacts' /\ [Next]_vars => [Worker!Next]_(Worker!vars)
  BY StepRefines
<1>3. QED BY Invariance, InitRefines, <1>1, <1>2, PTL DEF Spec, ImplementsHandover, Worker!Spec

=============================================================================

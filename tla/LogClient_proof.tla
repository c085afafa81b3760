--------------------------- MODULE LogClient_proof ---------------------------
(***************************************************************************)
(* Proofs about LogClient for any number of processors, files and events   *)
(* and any size of the buffers.                                            *)
(***************************************************************************)
EXTENDS LogClient, SequenceFacts

-----------------------------------------------------------------------------
(* TYPES *)

RestTypeOK ==
    /\ published \in 0..MaxEvents
    /\ linked \in BOOLEAN
    /\ submitted \in [Proc -> Seq(Job)] /\ erred \subseteq Proc
    /\ breaks \in 0..MaxBreaks /\ stops \in 0..MaxStops

End == {"pending", "submitted", "refused", "unwanted", "spoilt", "lost"}

(* Moving events from one fate to another keeps the types of the fates. *)
LEMMA BecomesType ==
  ASSUME FateTypeOK, NEW P, NEW E, NEW s \in End, Becomes(P, E, s)
  PROVE  FateTypeOK'
  BY DEF FateTypeOK, Becomes, End

(* The types hold at the start. *)
LEMMA InitTypes == Init => TypeOK
<1> SUFFICES ASSUME Init PROVE TypeOK
  OBVIOUS
<1>1. published \in 0..MaxEvents /\ breaks \in 0..MaxBreaks /\ stops \in 0..MaxStops
  BY ClientAssumption DEF Init
<1>2. pc \in [Proc -> {"none", "made", "recv", "file", "reconnect", "dead", "deaf", "gone"}]
  BY DEF Init
<1>3. event \in [Proc -> Event \cup {0}]
  BY DEF Init
<1>4. next \in [Proc -> 1..(Files + 1)]
  BY ClientAssumption DEF Init
<1>5. \A p \in Proc : (event[p] # 0) <=> (pc[p] = "file")
  BY DEF Init
<1>6. subscribed \in [Proc -> BOOLEAN]
  BY DEF Init
<1>7. <<>> \in Seq(Event) /\ <<>> \in Seq(Job) /\ Len(<<>>) = 0
  OBVIOUS
<1>8. socket \in [Proc -> Seq(Event)] /\ submitted \in [Proc -> Seq(Job)]
  BY <1>7 DEF Init
<1>9. \A p \in Proc : Len(socket[p]) <= HighWater
  BY <1>7, ClientAssumption DEF Init
<1>10. linked \in BOOLEAN
  BY DEF Init
<1>11. FateTypeOK
  BY DEF Init, FateTypeOK
<1>12. erred \subseteq Proc
  BY DEF Init
<1>13. ProcTypeOK
  BY <1>2, <1>3, <1>4, <1>5 DEF ProcTypeOK
<1>14. SocketTypeOK
  BY <1>6, <1>8, <1>9 DEF SocketTypeOK
<1>15. QED BY <1>1, <1>8, <1>10, <1>11, <1>12, <1>13, <1>14 DEF TypeOK

(* Every step of a thread of a process keeps them, *)
LEMMA ThreadTypes ==
  ASSUME TypeOK, NEW p \in Proc, Thread(p)
  PROVE  TypeOK'
<1>t. ProcTypeOK /\ SocketTypeOK /\ FateTypeOK /\ RestTypeOK
  BY DEF TypeOK, RestTypeOK
<1>q. SUFFICES ProcTypeOK' /\ SocketTypeOK' /\ FateTypeOK' /\ RestTypeOK'
  BY DEF TypeOK, RestTypeOK
<1>1. CASE Recv(p)
  <2>1. socket[p] \in Seq(Event) /\ socket[p] # <<>> /\ pc[p] = "recv"
    BY <1>t, <1>1 DEF SocketTypeOK, Recv
  <2>2. /\ Head(socket[p]) \in Event /\ Head(socket[p]) # 0
        /\ Tail(socket[p]) \in Seq(Event) /\ Len(Tail(socket[p])) <= HighWater
    <3>1. Head(socket[p]) \in Event /\ Tail(socket[p]) \in Seq(Event)
          /\ Len(Tail(socket[p])) = Len(socket[p]) - 1 /\ Len(socket[p]) \in Nat
      BY <2>1, TypeOfTail
    <3>2. \A e \in Event : e # 0
      BY DEF Event
    <3>3. Len(socket[p]) - 1 <= HighWater
      BY <1>t, <3>1, ClientAssumption DEF SocketTypeOK
    <3>4. QED BY <3>1, <3>2, <3>3
  <2>3. socket' = [socket EXCEPT ![p] = Tail(@)]
        /\ UNCHANGED <<published, subscribed, next, linked, submitted, erred, breaks, stops>>
    BY <1>1 DEF Recv, netVars, bounds
  <2>4. SocketTypeOK'
    <3>1. subscribed' \in [Proc -> BOOLEAN]
      BY <1>t, <2>3 DEF SocketTypeOK
    <3>2. socket' \in [Proc -> Seq(Event)] /\ \A q \in Proc : Len(socket'[q]) <= HighWater
      BY <1>t, <2>2, <2>3 DEF SocketTypeOK
    <3>3. QED BY <3>1, <3>2 DEF SocketTypeOK
  <2>5. CASE /\ Becomes({p}, {Head(socket[p])}, "spoilt")
             /\ pc' = [pc EXCEPT ![p] = "reconnect"] /\ UNCHANGED event
    <3>1. FateTypeOK'
      BY <1>t, <2>5, BecomesType DEF End
    <3>2. ProcTypeOK'
      BY <1>t, <2>1, <2>3, <2>5 DEF ProcTypeOK
    <3>3. RestTypeOK'
      BY <1>t, <2>3 DEF RestTypeOK
    <3>4. QED BY <2>4, <3>1, <3>2, <3>3
  <2>6. CASE /\ event' = [event EXCEPT ![p] = Head(socket[p])]
             /\ pc' = [pc EXCEPT ![p] = "file"] /\ UNCHANGED fate
    <3>1. FateTypeOK'
      BY <1>t, <2>6 DEF FateTypeOK
    <3>2. ProcTypeOK'
      BY <1>t, <2>1, <2>2, <2>3, <2>6 DEF ProcTypeOK
    <3>3. RestTypeOK'
      BY <1>t, <2>3 DEF RestTypeOK
    <3>4. QED BY <2>4, <3>1, <3>2, <3>3
  <2>7. QED BY <1>1, <2>5, <2>6 DEF Recv
<1>2. CASE Return(p)
  <2>1. /\ pc[p] = "file" /\ pc' = [pc EXCEPT ![p] = "recv"]
        /\ event' = [event EXCEPT ![p] = 0] /\ next' = [next EXCEPT ![p] = 1]
        /\ UNCHANGED <<published, subscribed, socket, linked, submitted, fate, erred, breaks, stops>>
    BY <1>2 DEF Return, Forget, netVars, bounds
  <2>2. ProcTypeOK'
    BY <1>t, <2>1, ClientAssumption DEF ProcTypeOK
  <2>3. SocketTypeOK' /\ FateTypeOK' /\ RestTypeOK'
    BY <1>t, <2>1 DEF SocketTypeOK, FateTypeOK, RestTypeOK
  <2>4. QED BY <2>2, <2>3
<1>3. ASSUME NEW s \in End, Continue(p, s), submitted' \in [Proc -> Seq(Job)]
      PROVE  ProcTypeOK' /\ SocketTypeOK' /\ FateTypeOK' /\ RestTypeOK'
  <2>1. /\ pc[p] = "file" /\ next[p] <= Files
        /\ fate' = [fate EXCEPT ![<<p, Current(p)>>] = s]
        /\ next' = [next EXCEPT ![p] = @ + 1]
        /\ UNCHANGED <<published, subscribed, socket, pc, event, linked, erred, breaks, stops>>
    BY <1>3 DEF Continue, netVars, bounds
  <2>2. ProcTypeOK'
    BY <1>t, <2>1, ClientAssumption DEF ProcTypeOK
  <2>3. FateTypeOK'
    BY <1>t, <2>1 DEF FateTypeOK, End
  <2>4. SocketTypeOK' /\ RestTypeOK'
    BY <1>t, <1>3, <2>1 DEF SocketTypeOK, RestTypeOK
  <2>5. QED BY <2>2, <2>3, <2>4
<1>4. CASE Filter(p)
  BY <1>t, <1>3, <1>4 DEF Filter, End, RestTypeOK
<1>5. CASE Submit(p)
  <2>1. ASSUME Accept(p), pc[p] = "file", next[p] <= Files PROVE submitted' \in [Proc -> Seq(Job)]
    <3>1. Current(p) \in Job
      BY <1>t, <2>1 DEF ProcTypeOK, Current, Job, File
    <3>2. Append(submitted[p], Current(p)) \in Seq(Job)
      BY <1>t, <3>1 DEF RestTypeOK
    <3>3. QED BY <1>t, <2>1, <3>2 DEF RestTypeOK, Accept
  <2>2. QED BY <1>t, <1>3, <1>5, <2>1 DEF Submit, End, RestTypeOK, Continue
<1>6. CASE Raise(p)
  <2>1. /\ pc[p] = "file" /\ Becomes({p}, {event[p]}, "spoilt") /\ pc' = [pc EXCEPT ![p] = "reconnect"]
        /\ event' = [event EXCEPT ![p] = 0] /\ next' = [next EXCEPT ![p] = 1]
        /\ UNCHANGED <<published, subscribed, socket, linked, submitted, erred, breaks, stops>>
    BY <1>6 DEF Raise, Forget, netVars, bounds
  <2>2. ProcTypeOK'
    BY <1>t, <2>1, ClientAssumption DEF ProcTypeOK
  <2>3. FateTypeOK'
    BY <1>t, <2>1, BecomesType DEF End
  <2>4. SocketTypeOK' /\ RestTypeOK'
    BY <1>t, <2>1 DEF SocketTypeOK, RestTypeOK
  <2>5. QED BY <2>2, <2>3, <2>4
<1>7. CASE Reconnect(p)
  <2>1. /\ pc[p] = "reconnect" /\ Becomes({p}, In(p), "lost") /\ socket' = [socket EXCEPT ![p] = <<>>]
        /\ subscribed' = [subscribed EXCEPT ![p] = FALSE]
        /\ \E s \in {"recv", "deaf"} : pc' = [pc EXCEPT ![p] = s]
        /\ UNCHANGED <<published, event, next, linked, submitted, erred, breaks, stops>>
    BY <1>7 DEF Reconnect, bounds
  <2>2. ProcTypeOK'
    BY <1>t, <2>1 DEF ProcTypeOK
  <2>3. FateTypeOK'
    BY <1>t, <2>1, BecomesType DEF End
  <2>4. subscribed' \in [Proc -> BOOLEAN]
    BY <1>t, <2>1 DEF SocketTypeOK
  <2>5. socket' \in [Proc -> Seq(Event)] /\ \A q \in Proc : Len(socket'[q]) <= HighWater
    <3>1. <<>> \in Seq(Event) /\ Len(<<>>) = 0
      OBVIOUS
    <3>2. QED BY <1>t, <2>1, <3>1, ClientAssumption DEF SocketTypeOK
  <2>6. SocketTypeOK' /\ RestTypeOK'
    BY <1>t, <2>1, <2>4, <2>5 DEF SocketTypeOK, RestTypeOK
  <2>7. QED BY <2>2, <2>3, <2>6
<1>8. QED BY <1>1, <1>2, <1>4, <1>5, <1>6, <1>7 DEF Thread

(* every step of its main program and of its subscription, *)
LEMMA ControlTypes ==
  ASSUME TypeOK, NEW p \in Proc,
         \/ Make(p) \/ Start(p) \/ Subscribe(p) \/ BreakSubscription(p) \/ RecvFails(p)
         \/ ReconnectFails(p)
  PROVE  TypeOK'
<1>t. ProcTypeOK /\ SocketTypeOK /\ FateTypeOK /\ RestTypeOK
  BY DEF TypeOK, RestTypeOK
<1>q. SUFFICES ProcTypeOK' /\ SocketTypeOK' /\ FateTypeOK' /\ RestTypeOK'
  BY DEF TypeOK, RestTypeOK
<1>1. ASSUME NEW s \in {"made", "recv", "reconnect", "dead"}, pc[p] # "file",
             pc' = [pc EXCEPT ![p] = s], UNCHANGED <<event, next>>
      PROVE  ProcTypeOK'
  BY <1>t, <1>1 DEF ProcTypeOK
<1>2. FateTypeOK' /\ UNCHANGED <<published, socket, event, next, linked, submitted>>
  BY <1>t DEF FateTypeOK, Make, Start, Subscribe, BreakSubscription, RecvFails,
              ReconnectFails, netVars, threadVars, bounds
<1>3. ProcTypeOK'
  <2>1. CASE UNCHANGED <<pc, event, next>>
    BY <1>t, <2>1 DEF ProcTypeOK
  <2>2. CASE Make(p) \/ Start(p) \/ RecvFails(p) \/ ReconnectFails(p)
    BY <1>1, <1>2, <2>2 DEF Make, Constructs, Start, RecvFails, ReconnectFails
  <2>3. QED BY <2>1, <2>2 DEF Subscribe, BreakSubscription, threadVars
<1>4. SocketTypeOK'
  <2>1. subscribed' \in [Proc -> BOOLEAN]
    <3>1. subscribed' = subscribed \/ \E b \in BOOLEAN : subscribed' = [subscribed EXCEPT ![p] = b]
      BY DEF Make, Start, Subscribe, BreakSubscription, RecvFails, ReconnectFails, netVars
    <3>2. QED BY <1>t, <3>1 DEF SocketTypeOK
  <2>2. QED BY <1>t, <1>2, <2>1 DEF SocketTypeOK
<1>5. RestTypeOK'
  <2>1. breaks' \in 0..MaxBreaks /\ stops' = stops /\ erred' \subseteq Proc
    <3>1. /\ breaks' = breaks \/ (breaks < MaxBreaks /\ breaks' = breaks + 1)
          /\ stops' = stops /\ (erred' = erred \/ erred' = erred \cup {p})
      BY DEF Make, Start, Subscribe, BreakSubscription, RecvFails, ReconnectFails, bounds
    <3>2. QED BY <1>t, <3>1, ClientAssumption DEF RestTypeOK
  <2>2. QED BY <1>t, <1>2, <2>1 DEF RestTypeOK
<1>6. QED BY <1>2, <1>3, <1>4, <1>5

(* every event of Jenkins, *)
LEMMA PublishTypes == TypeOK /\ Publish => TypeOK'
<1> SUFFICES ASSUME TypeOK, Publish PROVE TypeOK'
  OBVIOUS
<1>t. ProcTypeOK /\ SocketTypeOK /\ FateTypeOK /\ RestTypeOK
  BY DEF TypeOK, RestTypeOK
<1>1. /\ published < MaxEvents /\ published' = published + 1
      /\ UNCHANGED <<subscribed, pc, event, next, linked, submitted, erred, breaks, stops>>
  BY DEF Publish, threadVars, bounds
<1>2. published' \in Event
  BY <1>t, <1>1, ClientAssumption DEF RestTypeOK, Event
<1>3. ProcTypeOK' /\ RestTypeOK'
  BY <1>t, <1>1, ClientAssumption DEF ProcTypeOK, RestTypeOK
<1>4. FateTypeOK'
  BY <1>t DEF Publish, FateTypeOK
<1>5. subscribed' \in [Proc -> BOOLEAN]
  BY <1>t, <1>1 DEF SocketTypeOK
<1>6. ASSUME NEW q \in Proc
      PROVE  LET s == IF Listening(q) THEN Append(socket[q], published') ELSE socket[q]
             IN  s \in Seq(Event) /\ Len(s) <= HighWater
  <2>1. socket[q] \in Seq(Event) /\ Len(socket[q]) \in Nat /\ Len(socket[q]) <= HighWater
    BY <1>t DEF SocketTypeOK
  <2>2. /\ Append(socket[q], published') \in Seq(Event)
        /\ Len(Append(socket[q], published')) = Len(socket[q]) + 1
    BY <1>2, <2>1, TypeOfAppend
  <2>3. QED BY <2>1, <2>2, ClientAssumption DEF Listening
<1>7. socket' \in [Proc -> Seq(Event)] /\ \A q \in Proc : Len(socket'[q]) <= HighWater
  BY <1>6 DEF Publish
<1>8. SocketTypeOK'
  BY <1>5, <1>7 DEF SocketTypeOK
<1>9. QED BY <1>3, <1>4, <1>8 DEF TypeOK, RestTypeOK

(* what befalls the links, *)
LEMMA LinkTypes == TypeOK /\ (Link \/ BreakLink) => TypeOK'
<1> SUFFICES ASSUME TypeOK, Link \/ BreakLink PROVE TypeOK'
  OBVIOUS
<1>t. ProcTypeOK /\ SocketTypeOK /\ FateTypeOK /\ RestTypeOK
  BY DEF TypeOK, RestTypeOK
<1>1. /\ UNCHANGED <<published, subscribed, socket, pc, event, next, submitted, fate, erred, stops>>
      /\ breaks' = breaks \/ (breaks < MaxBreaks /\ breaks' = breaks + 1)
      /\ linked' \in BOOLEAN
  BY DEF Link, BreakLink, netVars, threadVars, bounds
<1>2. ProcTypeOK' /\ SocketTypeOK' /\ FateTypeOK'
  BY <1>t, <1>1 DEF ProcTypeOK, SocketTypeOK, FateTypeOK
<1>3. RestTypeOK'
  BY <1>t, <1>1, ClientAssumption DEF RestTypeOK
<1>4. QED BY <1>2, <1>3 DEF TypeOK, RestTypeOK

(* and the end of the process. *)
LEMMA EndTypes ==
  ASSUME TypeOK, NEW s \in {"none", "gone"}, ProcessEnds(s), stops' \in 0..MaxStops
  PROVE  TypeOK'
<1>t. ProcTypeOK /\ SocketTypeOK /\ FateTypeOK /\ RestTypeOK
  BY DEF TypeOK, RestTypeOK
<1>1. /\ linked' = FALSE /\ UNCHANGED <<published, submitted, erred, breaks>>
      /\ subscribed' = [p \in Proc |-> FALSE] /\ socket' = [p \in Proc |-> <<>>]
  BY DEF ProcessEnds
<1>2. RestTypeOK'
  <2>1. linked' \in BOOLEAN
    BY <1>1
  <2>2. QED BY <1>t, <1>1, <2>1 DEF RestTypeOK
<1>3. FateTypeOK'
  BY <1>t DEF ProcessEnds, FateTypeOK
<1>4. ProcTypeOK'
  BY ClientAssumption DEF ProcessEnds, ProcTypeOK
<1>5. <<>> \in Seq(Event) /\ Len(<<>>) = 0
  OBVIOUS
<1>6. subscribed' \in [Proc -> BOOLEAN]
  BY <1>1
<1>7. socket' \in [Proc -> Seq(Event)] /\ \A q \in Proc : Len(socket'[q]) <= HighWater
  BY <1>1, <1>5, ClientAssumption
<1>8. QED BY <1>2, <1>3, <1>4, <1>6, <1>7 DEF TypeOK, RestTypeOK, SocketTypeOK

(* So every step does. *)
LEMMA StepTypes == TypeOK /\ [Next]_vars => TypeOK'
<1>1. TypeOK /\ UNCHANGED vars => TypeOK'
  BY DEF TypeOK, ProcTypeOK, SocketTypeOK, FateTypeOK, vars, netVars, threadVars, bounds
<1>2. TypeOK /\ (Restart \/ \E p \in Proc : MakeFails(p)) => TypeOK'
  BY EndTypes, ClientAssumption DEF Restart, MakeFails, TypeOK
<1>3. QED BY <1>1, <1>2, ThreadTypes, ControlTypes, PublishTypes, LinkTypes DEF Next

(* No socket buffers more than its high-water mark, and a thread has an     *)
(* event exactly while it is in the loop over the files.                    *)
THEOREM ClientTypeCorrect == Spec => []TypeOK
  BY InitTypes, StepTypes, PTL DEF Spec

-----------------------------------------------------------------------------
(* THE INVARIANT *)
(* That no file is forgotten and no job is out of order rests on the events *)
(* being read in the order in which they were published.                    *)

Ascending(s) == \A i, j \in DOMAIN s : i < j => s[i] < s[j]

ReadOK(q) ==
    /\ event[q] <= published
    /\ Ascending(socket[q])
    /\ \A e \in In(q) : event[q] < e /\ e <= published
    /\ pc[q] # "file" => next[q] = 1

Ordered(s) == \A i, j \in DOMAIN s : i < j => Before(s[i], s[j])

SubmittedOK(q) ==
    /\ Ordered(submitted[q])
    /\ \A x \in Range(submitted[q]) :
          /\ x[1] <= published
          /\ \A e \in In(q) : x[1] < e
          /\ pc[q] = "file" => Before(x, Current(q))

HeldOK(q) ==
    \A e \in Event, f \in File :
        fate[<<q, <<e, f>>>>] = "pending" <=> e \in In(q) \/ (event[q] = e /\ next[q] <= f)

ProcOK(q) == ReadOK(q) /\ SubmittedOK(q) /\ HeldOK(q)

Inv == TypeOK /\ \A q \in Proc : ProcOK(q)

(* The tail of an ascending sequence is ascending and behind its head. *)
LEMMA AscendingTail ==
  ASSUME NEW s \in Seq(Event), s # <<>>, Ascending(s)
  PROVE  Ascending(Tail(s)) /\ \A e \in Range(Tail(s)) : Head(s) < e
<1> DEFINE t == Tail(s)
<1>1. /\ Len(s) \in Nat \ {0} /\ DOMAIN s = 1..Len(s) /\ DOMAIN t = 1..(Len(s) - 1)
      /\ Head(s) = s[1] /\ \A i \in 1..(Len(s) - 1) : t[i] = s[i + 1]
  OBVIOUS
<1> HIDE DEF t
<1>2. Ascending(t)
  BY <1>1 DEF Ascending
<1>3. ASSUME NEW e \in Range(t) PROVE Head(s) < e
  <2>1. PICK i \in DOMAIN t : e = t[i]
    BY <1>3 DEF Range
  <2>2. i + 1 \in DOMAIN s /\ 1 \in DOMAIN s /\ 1 < i + 1 /\ e = s[i + 1]
    BY <1>1, <2>1
  <2>3. QED BY <1>1, <2>2 DEF Ascending
<1>4. QED BY <1>2, <1>3 DEF t

(* An event later than all others may be appended to one. *)
LEMMA AscendingAppend ==
  ASSUME NEW s \in Seq(Event), NEW x \in Event, Ascending(s), \A e \in Range(s) : e < x
  PROVE  Ascending(Append(s, x))
<1> DEFINE t == Append(s, x)
<1>1. /\ Len(s) \in Nat /\ DOMAIN s = 1..Len(s) /\ DOMAIN t = 1..(Len(s) + 1)
      /\ t[Len(s) + 1] = x /\ \A i \in 1..Len(s) : t[i] = s[i]
  OBVIOUS
<1> HIDE DEF t
<1>2. ASSUME NEW i \in DOMAIN t, NEW j \in DOMAIN t, i < j PROVE t[i] < t[j]
  <2>1. i \in 1..Len(s) /\ s[i] \in Range(s)
    BY <1>1, <1>2 DEF Range
  <2>2. CASE j = Len(s) + 1
    BY <1>1, <2>1, <2>2
  <2>3. CASE j \in 1..Len(s)
    BY <1>1, <1>2, <2>1, <2>3 DEF Ascending
  <2>4. QED BY <1>1, <2>2, <2>3
<1>3. QED BY <1>2 DEF t, Ascending

(* And a job behind all others to a sequence in order. *)
LEMMA OrderedAppend ==
  ASSUME NEW s \in Seq(Job), NEW x \in Job, Ordered(s), \A y \in Range(s) : Before(y, x)
  PROVE  Ordered(Append(s, x))
<1> DEFINE t == Append(s, x)
<1>1. /\ Len(s) \in Nat /\ DOMAIN s = 1..Len(s) /\ DOMAIN t = 1..(Len(s) + 1)
      /\ t[Len(s) + 1] = x /\ \A i \in 1..Len(s) : t[i] = s[i]
  OBVIOUS
<1> HIDE DEF t
<1>2. ASSUME NEW i \in DOMAIN t, NEW j \in DOMAIN t, i < j PROVE Before(t[i], t[j])
  <2>1. i \in 1..Len(s) /\ s[i] \in Range(s)
    BY <1>1, <1>2 DEF Range
  <2>2. CASE j = Len(s) + 1
    BY <1>1, <2>1, <2>2
  <2>3. CASE j \in 1..Len(s)
    BY <1>1, <1>2, <2>1, <2>3 DEF Ordered
  <2>4. QED BY <1>1, <2>2, <2>3
<1>3. QED BY <1>2 DEF t, Ordered

(* The invariant holds at the start. *)
LEMMA InitInv == Init => Inv
<1> SUFFICES ASSUME Init, NEW q \in Proc PROVE ProcOK(q)
  BY InitTypes DEF Inv
<1>1. socket[q] = <<>> /\ submitted[q] = <<>> /\ event[q] = 0 /\ next[q] = 1 /\ published = 0
      /\ pc[q] = "none" /\ \A j \in Job : fate[<<q, j>>] = "coming"
  BY DEF Init
<1>2. In(q) = {} /\ Range(submitted[q]) = {} /\ DOMAIN submitted[q] = {} /\ DOMAIN socket[q] = {}
  BY <1>1, RangeOfEmpty DEF In
<1>3. ReadOK(q) /\ SubmittedOK(q)
  BY <1>1, <1>2 DEF ReadOK, SubmittedOK, Ascending, Ordered
<1>4. HeldOK(q)
  BY <1>1, <1>2 DEF HeldOK, Event, Job
<1>5. QED BY <1>3, <1>4 DEF ProcOK

(* A step that does not concern a processor: its thread may move on to or   *)
(* from recv(), outside of the loop over the files.                         *)
LEMMA Untouched ==
  ASSUME NEW q \in Proc, ProcOK(q), published' = published,
         socket'[q] = socket[q], event'[q] = event[q], next'[q] = next[q],
         submitted'[q] = submitted[q],
         pc'[q] = pc[q] \/ (pc[q] # "file" /\ pc'[q] # "file"),
         \A j \in Job : fate'[<<q, j>>] = fate[<<q, j>>]
  PROVE  ProcOK(q)'
<1>1. In(q)' = In(q) /\ Current(q)' = Current(q)
  BY DEF In, Current
<1>2. ReadOK(q)'
  BY <1>1 DEF ProcOK, ReadOK, Ascending
<1>3. SubmittedOK(q)'
  BY <1>1 DEF ProcOK, SubmittedOK, Ordered
<1>4. HeldOK(q)'
  BY <1>1 DEF ProcOK, HeldOK, Job
<1>5. QED BY <1>2, <1>3, <1>4 DEF ProcOK

(* Receiving an event keeps what is true of a process. *)
LEMMA RecvOK ==
  ASSUME TypeOK, NEW p \in Proc, ProcOK(p), Recv(p)
  PROVE  ProcOK(p)'
<1> DEFINE h == Head(socket[p])
           t == Tail(socket[p])
<1>1. socket[p] \in Seq(Event) /\ socket[p] # <<>> /\ pc[p] = "recv"
  BY DEF TypeOK, SocketTypeOK, Recv
<1>2. In(p) = {h} \cup Range(t) /\ h \in Event
  BY <1>1, RangeOfTail, TypeOfTail DEF In
<1>3. Ascending(t) /\ \A e \in Range(t) : h < e
  BY <1>1, AscendingTail DEF ProcOK, ReadOK
<1>4. /\ socket' = [socket EXCEPT ![p] = t]
      /\ UNCHANGED <<published, next, submitted>>
  BY DEF Recv, netVars
<1>5. socket'[p] = t /\ In(p)' = Range(t) /\ next[p] = 1 /\ event[p] = 0
  BY <1>1, <1>4 DEF In, ProcOK, ReadOK, TypeOK, SocketTypeOK, ProcTypeOK
<1>6. /\ h <= published
      /\ \A e \in Range(t) : e <= published /\ e \in Event
  BY <1>1, <1>2, RangeType DEF In, ProcOK, ReadOK
<1>p. published \in Nat /\ \A e \in Event : 0 < e
  BY ClientAssumption DEF TypeOK, Event
<1> HIDE DEF h, t
<1>7. CASE /\ Becomes({p}, {h}, "spoilt")
           /\ pc' = [pc EXCEPT ![p] = "reconnect"] /\ UNCHANGED event
  <2>1. pc'[p] = "reconnect"
    BY <1>7 DEF TypeOK, ProcTypeOK
  <2>2. ReadOK(p)'
    BY <1>3, <1>4, <1>5, <1>6, <1>p, <1>7, <2>1 DEF ReadOK
  <2>3. SubmittedOK(p)'
    BY <1>2, <1>4, <1>5, <2>1 DEF ProcOK, SubmittedOK
  <2>4. ASSUME NEW e \in Event, NEW f \in File
        PROVE  fate'[<<p, <<e, f>>>>] = "pending" <=> e \in Range(t)
    <3>1. fate'[<<p, <<e, f>>>>] = IF e = h /\ fate[<<p, <<e, f>>>>] \in {"coming", "pending"}
                                   THEN "spoilt" ELSE fate[<<p, <<e, f>>>>]
      BY <1>7 DEF Becomes, Job
    <3>2. fate[<<p, <<e, f>>>>] = "pending" <=> e = h \/ e \in Range(t)
      BY <1>2, <1>5, <1>p DEF ProcOK, HeldOK
    <3>3. h \notin Range(t)
      BY <1>2, <1>3 DEF Event
    <3>4. QED BY <3>1, <3>2, <3>3
  <2>5. HeldOK(p)'
    BY <1>5, <1>7, <1>p, <2>4 DEF HeldOK
  <2>6. QED BY <2>2, <2>3, <2>5 DEF ProcOK
<1>8. CASE /\ event' = [event EXCEPT ![p] = h]
           /\ pc' = [pc EXCEPT ![p] = "file"] /\ UNCHANGED fate
  <2>1. pc'[p] = "file" /\ event'[p] = h /\ next'[p] = 1
    BY <1>4, <1>5, <1>8 DEF TypeOK, ProcTypeOK
  <2>2. ReadOK(p)'
    BY <1>3, <1>4, <1>5, <1>6, <2>1 DEF ReadOK
  <2>3. ASSUME NEW x \in Range(submitted'[p])
        PROVE  /\ x[1] <= published' /\ \A e \in In(p)' : x[1] < e
               /\ Before(x, <<h, 1>>)
    BY <1>2, <1>4, <1>5 DEF ProcOK, SubmittedOK, Before
  <2>4. SubmittedOK(p)'
    BY <1>4, <2>1, <2>3 DEF ProcOK, SubmittedOK, Current
  <2>5. HeldOK(p)'
    BY <1>2, <1>5, <1>8, <1>p, <2>1 DEF ProcOK, HeldOK, File
  <2>6. QED BY <2>2, <2>4, <2>5 DEF ProcOK
<1>9. QED BY <1>7, <1>8 DEF Recv, h

(* So does being done with one event, whatever has become of it, *)
LEMMA ContinueOK ==
  ASSUME TypeOK, NEW p \in Proc, ProcOK(p), NEW s \in End \ {"pending"}, Continue(p, s),
         UNCHANGED submitted \/ Accept(p)
  PROVE  ProcOK(p)'
<1>1. /\ pc[p] = "file" /\ next[p] <= Files
      /\ fate' = [fate EXCEPT ![<<p, Current(p)>>] = s]
      /\ next' = [next EXCEPT ![p] = @ + 1]
      /\ UNCHANGED <<published, socket, pc, event>>
  BY DEF Continue, netVars
<1>2. next'[p] = next[p] + 1 /\ next[p] \in File /\ event[p] \in Event
  BY <1>1 DEF TypeOK, ProcTypeOK, File
<1>3. In(p)' = In(p) /\ Current(p)' = <<event[p], next[p] + 1>> /\ Current(p) \in Job
  BY <1>1, <1>2 DEF In, Current, Job
<1>4. ReadOK(p)'
  BY <1>1, <1>3 DEF ProcOK, ReadOK, Ascending
<1>r. \A x \in Range(submitted[p]) : x \in Job
  BY RangeType DEF TypeOK
<1>5. ASSUME NEW x \in Job, Before(x, Current(p)) PROVE Before(x, Current(p)')
  <2>1. x[1] < event[p] \/ (x[1] = event[p] /\ x[2] < next[p])
    BY <1>5 DEF Before, Current
  <2>2. x[2] < next[p] => x[2] < next[p] + 1
    BY <1>2 DEF Job, File
  <2>3. QED BY <1>3, <2>1, <2>2 DEF Before
<1>6. SubmittedOK(p)'
  <2>1. CASE UNCHANGED submitted
    BY <1>1, <1>3, <1>5, <1>r, <2>1 DEF ProcOK, SubmittedOK, Ordered
  <2>2. CASE Accept(p)
    <3>1. submitted[p] \in Seq(Job) /\ submitted'[p] = Append(submitted[p], Current(p))
      BY <2>2 DEF TypeOK, Accept
    <3>2. Range(submitted'[p]) = Range(submitted[p]) \cup {Current(p)}
      BY <1>3, <3>1, RangeOfAppend
    <3>3. Ordered(submitted'[p])
      BY <1>1, <1>3, <3>1, OrderedAppend DEF ProcOK, SubmittedOK
    <3>4. /\ Current(p)[1] <= published /\ \A e \in In(p) : Current(p)[1] < e
          /\ Before(Current(p), Current(p)')
      BY <1>2, <1>3 DEF ProcOK, ReadOK, Current, Before, File
    <3>5. QED BY <1>1, <1>3, <1>5, <1>r, <3>2, <3>3, <3>4 DEF ProcOK, SubmittedOK
  <2>3. QED BY <2>1, <2>2
<1>7. HeldOK(p)'
  <2>1. ASSUME NEW e \in Event, NEW f \in File
        PROVE  fate'[<<p, <<e, f>>>>] = "pending"
                 <=> e \in In(p) \/ (event[p] = e /\ next[p] + 1 <= f)
    <3>1. fate[<<p, <<e, f>>>>] = "pending" <=> e \in In(p) \/ (event[p] = e /\ next[p] <= f)
      BY DEF ProcOK, HeldOK
    <3>2. fate'[<<p, <<e, f>>>>] = IF e = event[p] /\ f = next[p] THEN s ELSE fate[<<p, <<e, f>>>>]
      BY <1>1 DEF TypeOK, FateTypeOK, Current, Job
    <3>3. e \in In(p) => event[p] < e
      BY DEF ProcOK, ReadOK
    <3>4. f # next[p] => (next[p] <= f <=> next[p] + 1 <= f)
      BY <1>2 DEF File
    <3>5. ~(next[p] + 1 <= next[p]) /\ ~(event[p] < event[p])
      BY <1>2 DEF File, Event
    <3>6. CASE e = event[p] /\ f = next[p]
      BY <3>2, <3>3, <3>5, <3>6
    <3>7. CASE ~(e = event[p] /\ f = next[p])
      BY <3>1, <3>2, <3>4, <3>7
    <3>8. QED BY <3>6, <3>7
  <2>2. QED BY <1>1, <1>2, <1>3, <2>1 DEF HeldOK
<1>8. QED BY <1>4, <1>6, <1>7 DEF ProcOK

(* A thread leaves its event: what it still had to do of it is done or is   *)
(* given up.                                                                *)
LEMMA ForgetOK ==
  ASSUME TypeOK, NEW p \in Proc, ProcOK(p), Return(p) \/ Raise(p)
  PROVE  ProcOK(p)'
<1>1. /\ pc[p] = "file" /\ pc'[p] # "file" /\ event'[p] = 0 /\ next'[p] = 1
      /\ UNCHANGED <<published, socket, submitted>>
  BY DEF Return, Raise, Forget, netVars, TypeOK, ProcTypeOK
<1>2. In(p)' = In(p) /\ (\A e \in In(p) : e \in Event /\ 0 < e) /\ 0 <= published
  <2>1. In(p) \subseteq Event
    BY RangeType DEF In, TypeOK, SocketTypeOK
  <2>2. QED BY <1>1, <2>1, ClientAssumption DEF In, Event, TypeOK
<1>3. ReadOK(p)'
  BY <1>1, <1>2 DEF ProcOK, ReadOK, Ascending
<1>4. SubmittedOK(p)'
  BY <1>1, <1>2 DEF ProcOK, SubmittedOK, Ordered
<1>5. ASSUME NEW e \in Event, NEW f \in File
      PROVE  fate'[<<p, <<e, f>>>>] = "pending" <=> e \in In(p)
  <2>1. fate[<<p, <<e, f>>>>] = "pending" <=> e \in In(p) \/ (event[p] = e /\ next[p] <= f)
    BY DEF ProcOK, HeldOK
  <2>2. CASE Return(p)
    <3>1. next[p] > Files /\ UNCHANGED fate
      BY <2>2 DEF Return
    <3>2. ~(next[p] <= f)
      BY <3>1, ClientAssumption DEF TypeOK, ProcTypeOK, File
    <3>3. QED BY <2>1, <3>1, <3>2
  <2>3. CASE Raise(p)
    <3>1. fate'[<<p, <<e, f>>>>]
            = IF e = event[p] /\ fate[<<p, <<e, f>>>>] \in {"coming", "pending"}
              THEN "spoilt" ELSE fate[<<p, <<e, f>>>>]
      BY <2>3 DEF Raise, Becomes, Job
    <3>2. e = event[p] => e \notin In(p)
      BY DEF ProcOK, ReadOK, Event
    <3>3. QED BY <2>1, <3>1, <3>2
  <2>4. QED BY <2>2, <2>3
<1>6. HeldOK(p)'
  BY <1>1, <1>2, <1>5 DEF HeldOK, Event
<1>7. QED BY <1>3, <1>4, <1>6 DEF ProcOK

(* connecting again, *)
LEMMA ReconnectOK ==
  ASSUME TypeOK, NEW p \in Proc, ProcOK(p), Reconnect(p)
  PROVE  ProcOK(p)'
<1>1. /\ pc[p] = "reconnect" /\ pc'[p] \in {"recv", "deaf"} /\ socket'[p] = <<>>
      /\ Becomes({p}, In(p), "lost") /\ UNCHANGED <<published, event, next, submitted>>
  BY DEF Reconnect, TypeOK, ProcTypeOK, SocketTypeOK
<1>2. In(p)' = {} /\ DOMAIN socket'[p] = {} /\ event[p] = 0
  BY <1>1, RangeOfEmpty DEF In, TypeOK, ProcTypeOK
<1>3. ReadOK(p)' /\ SubmittedOK(p)'
  BY <1>1, <1>2 DEF ProcOK, ReadOK, SubmittedOK, Ascending, Ordered
<1>4. ASSUME NEW e \in Event, NEW f \in File PROVE fate'[<<p, <<e, f>>>>] # "pending"
  <2>1. fate[<<p, <<e, f>>>>] = "pending" => e \in In(p)
    BY <1>2 DEF ProcOK, HeldOK, Event
  <2>2. fate'[<<p, <<e, f>>>>] = IF e \in In(p) /\ fate[<<p, <<e, f>>>>] \in {"coming", "pending"}
                                 THEN "lost" ELSE fate[<<p, <<e, f>>>>]
    BY <1>1 DEF Becomes, Job
  <2>3. QED BY <2>1, <2>2
<1>5. HeldOK(p)'
  BY <1>1, <1>2, <1>4 DEF HeldOK, Event
<1>6. QED BY <1>3, <1>5 DEF ProcOK

(* an event of Jenkins, *)
LEMMA PublishOK ==
  ASSUME TypeOK, NEW q \in Proc, ProcOK(q), Publish
  PROVE  ProcOK(q)'
<1> DEFINE e0 == published + 1
<1>1. /\ published' = e0 /\ published < e0 /\ e0 \in Event
      /\ UNCHANGED <<pc, event, next, submitted>>
  BY ClientAssumption DEF Publish, TypeOK, Event, threadVars
<1>2. socket[q] \in Seq(Event) /\ event[q] \in 0..MaxEvents /\ published \in Nat
  BY ClientAssumption DEF TypeOK, SocketTypeOK, ProcTypeOK, Event
<1> HIDE DEF e0
<1>3. \A e \in In(q) : e \in Event /\ event[q] < e /\ e <= published /\ e < e0
  <2>1. \A e \in In(q) : e \in Event /\ event[q] < e /\ e <= published
    BY <1>2, RangeType DEF In, ProcOK, ReadOK
  <2>2. QED BY <1>1, <1>2, <2>1 DEF Event
<1>4. event[q] <= published' /\ event[q] < e0
  BY <1>1, <1>2 DEF ProcOK, ReadOK, Event
<1>5. /\ socket'[q] \in {socket[q], Append(socket[q], e0)}
      /\ In(q)' = In(q) \cup (IF Listening(q) THEN {e0} ELSE {})
  <2>1. socket'[q] = IF Listening(q) THEN Append(socket[q], e0) ELSE socket[q]
    BY <1>1 DEF Publish
  <2>2. Range(Append(socket[q], e0)) = In(q) \cup {e0}
    BY <1>2, RangeOfAppend DEF In
  <2>3. QED BY <2>1, <2>2 DEF In
<1>6. ReadOK(q)'
  <2>1. Ascending(socket'[q])
    BY <1>1, <1>2, <1>3, <1>5, AscendingAppend DEF In, ProcOK, ReadOK
  <2>2. \A e \in In(q)' : event[q] < e /\ e <= e0
    BY <1>1, <1>2, <1>3, <1>4, <1>5 DEF Event
  <2>3. QED BY <1>1, <1>4, <2>1, <2>2 DEF ProcOK, ReadOK
<1>7. SubmittedOK(q)'
  <2>1. ASSUME NEW x \in Range(submitted[q])
        PROVE  x[1] <= e0 /\ \A e \in In(q)' : x[1] < e
    <3>1. x[1] \in Event /\ x[1] <= published /\ \A e \in In(q) : x[1] < e
      BY RangeType DEF TypeOK, Job, ProcOK, SubmittedOK
    <3>2. x[1] <= e0 /\ x[1] < e0
      BY <1>1, <1>2, <3>1 DEF Event
    <3>3. QED BY <1>5, <3>1, <3>2
  <2>2. Current(q)' = Current(q)
    BY <1>1 DEF Current
  <2>3. QED BY <1>1, <2>1, <2>2 DEF ProcOK, SubmittedOK
<1>8. ASSUME NEW e \in Event, NEW f \in File
      PROVE  fate'[<<q, <<e, f>>>>] = "pending"
               <=> e \in In(q)' \/ (event[q] = e /\ next[q] <= f)
  <2>1. fate[<<q, <<e, f>>>>] = "pending" <=> e \in In(q) \/ (event[q] = e /\ next[q] <= f)
    BY DEF ProcOK, HeldOK
  <2>2. fate'[<<q, <<e, f>>>>] = IF e # e0 THEN fate[<<q, <<e, f>>>>]
                                 ELSE IF Listening(q) THEN "pending" ELSE "lost"
    BY <1>1 DEF Publish, Job
  <2>3. e0 \notin In(q) /\ event[q] # e0
    BY <1>1, <1>2, <1>3, <1>4 DEF Event
  <2>4. QED BY <1>5, <2>1, <2>2, <2>3
<1>9. HeldOK(q)'
  BY <1>1, <1>8 DEF HeldOK
<1>10. QED BY <1>6, <1>7, <1>9 DEF ProcOK

(* and the end of the process, after which it has nothing. *)
LEMMA EndOK ==
  ASSUME TypeOK, NEW q \in Proc, ProcOK(q), NEW s \in {"none", "gone"}, ProcessEnds(s)
  PROVE  ProcOK(q)'
<1>1. /\ socket'[q] = <<>> /\ pc'[q] # "file" /\ event'[q] = 0 /\ next'[q] = 1
      /\ UNCHANGED <<published, submitted>> /\ 0 <= published
  BY ClientAssumption DEF ProcessEnds, TypeOK
<1>2. In(q)' = {} /\ DOMAIN socket'[q] = {}
  BY <1>1, RangeOfEmpty DEF In
<1>3. ReadOK(q)' /\ SubmittedOK(q)'
  BY <1>1, <1>2 DEF ProcOK, ReadOK, SubmittedOK, Ascending, Ordered
<1>4. \A e \in Event, f \in File : fate'[<<q, <<e, f>>>>] # "pending"
  BY DEF ProcessEnds, Job
<1>5. HeldOK(q)'
  BY <1>1, <1>2, <1>4 DEF HeldOK, Event
<1>6. QED BY <1>3, <1>5 DEF ProcOK

(* What the thread of p does it does to its own socket, event and jobs.     *)
LEMMA OthersOK ==
  ASSUME TypeOK, NEW p \in Proc, NEW q \in Proc \ {p}, ProcOK(q), Thread(p)
  PROVE  ProcOK(q)'
<1>1. published' = published
  BY DEF Thread, Recv, Return, Filter, Submit, Continue, Raise, Reconnect, netVars
<1>2. socket'[q] = socket[q]
  BY DEF Thread, Recv, Return, Filter, Submit, Continue, Raise, Reconnect, TypeOK, SocketTypeOK
<1>3. event'[q] = event[q] /\ pc'[q] = pc[q]
  BY DEF Thread, Recv, Return, Filter, Submit, Continue, Raise, Reconnect, Forget, TypeOK, ProcTypeOK
<1>4. next'[q] = next[q]
  BY DEF Thread, Recv, Return, Filter, Submit, Continue, Raise, Reconnect, Forget, TypeOK, ProcTypeOK
<1>5. submitted'[q] = submitted[q]
  BY DEF Thread, Recv, Return, Filter, Submit, Raise, Reconnect, Accept, TypeOK
<1>6. ASSUME NEW j \in Job PROVE fate'[<<q, j>>] = fate[<<q, j>>]
  <2>1. ASSUME NEW E, NEW s, Becomes({p}, E, s) PROVE fate'[<<q, j>>] = fate[<<q, j>>]
    BY <2>1 DEF Becomes
  <2>2. ASSUME NEW s, Continue(p, s) PROVE fate'[<<q, j>>] = fate[<<q, j>>]
    BY <2>2 DEF Continue, TypeOK, FateTypeOK
  <2>3. CASE UNCHANGED fate
    BY <2>3
  <2>4. QED BY <2>1, <2>2, <2>3 DEF Thread, Recv, Return, Filter, Submit, Raise, Reconnect
<1>7. QED BY <1>1, <1>2, <1>3, <1>4, <1>5, <1>6, Untouched

(* So every step of its thread does, *)
LEMMA ThreadOK ==
  ASSUME TypeOK, NEW p \in Proc, ProcOK(p), Thread(p)
  PROVE  ProcOK(p)'
<1>1. CASE Filter(p) \/ Submit(p)
  BY <1>1, ContinueOK DEF Filter, Submit, End
<1>2. QED BY <1>1, RecvOK, ForgetOK, ReconnectOK DEF Thread

(* and every step around it. *)
LEMMA ControlOK ==
  ASSUME TypeOK, NEW q \in Proc, ProcOK(q), NEW p \in Proc,
         \/ Make(p) \/ Start(p) \/ Subscribe(p) \/ BreakSubscription(p) \/ RecvFails(p)
         \/ ReconnectFails(p) \/ Link \/ BreakLink
  PROVE  ProcOK(q)'
<1>1. UNCHANGED <<published, socket, event, next, submitted, fate>>
  BY DEF Make, Start, Subscribe, BreakSubscription, RecvFails, ReconnectFails, Link, BreakLink,
         netVars, threadVars
<1>2. pc'[q] = pc[q] \/ (pc[q] # "file" /\ pc'[q] # "file")
  BY DEF Make, Constructs, Start, Subscribe, BreakSubscription, RecvFails, ReconnectFails, Link,
         BreakLink, threadVars, TypeOK, ProcTypeOK
<1>3. QED BY <1>1, <1>2, Untouched

(* So every step keeps the invariant. *)
LEMMA StepInv == Inv /\ [Next]_vars => Inv'
<1> SUFFICES ASSUME Inv, [Next]_vars, NEW q \in Proc PROVE ProcOK(q)'
  BY StepTypes DEF Inv
<1>1. TypeOK /\ ProcOK(q)
  BY DEF Inv
<1>2. CASE UNCHANGED vars
  BY <1>1, <1>2, Untouched DEF vars, netVars, threadVars
<1>3. ASSUME NEW p \in Proc, Thread(p) PROVE ProcOK(q)'
  BY <1>1, <1>3, ThreadOK, OthersOK
<1>4. ASSUME NEW p \in Proc,
             \/ Make(p) \/ Start(p) \/ Subscribe(p) \/ BreakSubscription(p) \/ RecvFails(p)
             \/ ReconnectFails(p)
      PROVE  ProcOK(q)'
  BY <1>1, <1>4, ControlOK
<1>5. CASE Link \/ BreakLink
  BY <1>1, <1>5, ControlOK
<1>6. CASE Restart \/ \E p \in Proc : MakeFails(p)
  BY <1>1, <1>6, EndOK DEF Restart, MakeFails
<1>7. QED BY <1>1, <1>2, <1>3, <1>4, <1>5, <1>6, PublishOK DEF Next

(* In every state each process has events in the order of publication before *)
(* it and behind it only jobs in order, and a file is pending exactly while  *)
(* its event is in the socket or the loop has not come to it.                *)
THEOREM Invariance == Spec => []Inv
  BY InitInv, StepInv, PTL DEF Spec

-----------------------------------------------------------------------------
(* WHAT THE CLIENT KEEPS *)

(* However many processors, files and events there are: a file waits as     *)
(* long as its event is in the socket or the loop has not come to it.       *)
THEOREM NoFileForgotten == Spec => []PendingIsHeld
<1>1. Inv => PendingIsHeld
  BY DEF Inv, ProcOK, HeldOK, PendingIsHeld
<1>2. QED BY Invariance, <1>1, PTL

(* The jobs of a processor come to geard in the order of the events and of  *)
(* the list of files, each once, over all reconnections and restarts.       *)
THEOREM JobsInOrderOnce == Spec => []InOrderOnce
<1>1. Inv => InOrderOnce
  BY DEF Inv, ProcOK, SubmittedOK, Ordered, InOrderOnce
<1>2. QED BY Invariance, <1>1, PTL

-----------------------------------------------------------------------------
(* WHY EVENTS ARE LOST *)

(* A thread that is about to reconnect has seen recv() raise, or there is a *)
(* spoilt event that is older than all its socket holds.                    *)
CauseOK(p) ==
    pc[p] = "reconnect" /\ File # {}
      => \/ p \in erred
         \/ \E d \in Event, g \in File : /\ fate[<<p, <<d, g>>>>] = "spoilt" /\ d <= published
                                       /\ \A e \in In(p) : d < e

Causes == \A p \in Proc : CauseOK(p)

(* What is spoilt stays so.                                                 *)
LEMMA SpoiltStays ==
  ASSUME Inv, Next, NEW p \in Proc, NEW d \in Event, NEW g \in File,
         fate[<<p, <<d, g>>>>] = "spoilt", d <= published
  PROVE  fate'[<<p, <<d, g>>>>] = "spoilt" /\ d <= published'
<1>t. TypeOK /\ ProcOK(p) /\ <<p, <<d, g>>>> \in Proc \X Job
  BY DEF Inv, Job
<1>1. ASSUME NEW P, NEW E, NEW s, Becomes(P, E, s) PROVE fate'[<<p, <<d, g>>>>] = "spoilt"
  BY <1>t, <1>1 DEF Becomes
<1>2. ASSUME NEW q \in Proc, NEW s, Continue(q, s) PROVE fate'[<<p, <<d, g>>>>] = "spoilt"
  <2>1. fate' = [fate EXCEPT ![<<q, Current(q)>>] = s] /\ pc[q] = "file" /\ next[q] <= Files
    BY <1>2 DEF Continue
  <2>2. event[q] \in Event /\ next[q] \in File
    BY <1>t, <2>1 DEF TypeOK, ProcTypeOK, File
  <2>3. fate[<<q, Current(q)>>] = "pending"
    <3>1. HeldOK(q)
      BY DEF Inv, ProcOK
    <3>2. next[q] <= next[q]
      BY <2>2 DEF File
    <3>3. QED BY <2>2, <3>1, <3>2 DEF HeldOK, Current
  <2>4. QED BY <1>t, <2>1, <2>3 DEF TypeOK, FateTypeOK
<1>3. CASE Publish
  <2>1. d # published + 1 /\ published' = published + 1 /\ d <= published + 1
    BY <1>t, <1>3, ClientAssumption DEF Publish, TypeOK, Event
  <2>2. QED BY <1>t, <1>3, <2>1 DEF Publish
<1>4. CASE Restart \/ \E q \in Proc : MakeFails(q)
  BY <1>t, <1>4 DEF Restart, MakeFails, ProcessEnds
<1>5. CASE UNCHANGED <<fate, published>>
  BY <1>5
<1>6. ASSUME NEW q \in Proc, Thread(q) PROVE fate'[<<p, <<d, g>>>>] = "spoilt" /\ d <= published'
  <2>1. published' = published
    BY <1>6 DEF Thread, Recv, Return, Filter, Submit, Continue, Raise, Reconnect, netVars
  <2>2. fate'[<<p, <<d, g>>>>] = "spoilt"
    BY <1>1, <1>2, <1>6 DEF Thread, Recv, Return, Filter, Submit, Raise, Reconnect
  <2>3. QED BY <2>1, <2>2
<1>7. QED BY <1>3, <1>4, <1>5, <1>6
        DEF Next, Make, Start, Subscribe, BreakSubscription, RecvFails, ReconnectFails, Link,
            BreakLink, netVars

(* An event is lost only in a step that is one of the causes named. *)
LEMMA CauseStep == Inv /\ Causes /\ [Next]_vars => Causes'
<1> SUFFICES ASSUME Inv, Inv', Causes, Next, NEW p \in Proc, pc'[p] = "reconnect", File # {}
             PROVE  CauseOK(p)'
  <2>1. UNCHANGED vars /\ Causes => Causes'
    BY DEF Causes, CauseOK, In, vars, netVars, threadVars, bounds
  <2>2. QED BY <2>1, StepInv DEF Causes, CauseOK
<1>t. TypeOK /\ ProcOK(p) /\ CauseOK(p)
  BY DEF Inv, Causes
<1>1. CASE pc[p] = "reconnect"
  <2>1. CASE p \in erred
    <3>1. p \in erred'
      BY <2>1 DEF Next, Thread, Make, Start, Subscribe, BreakSubscription, RecvFails, Publish, Link,
                  BreakLink, Restart, MakeFails, ProcessEnds, ReconnectFails, Recv, Return,
                  Filter, Submit, Continue, Raise, Reconnect, bounds
    <3>2. QED BY <3>1 DEF CauseOK
  <2>2. CASE p \notin erred
    <3>1. PICK d \in Event, g \in File : /\ fate[<<p, <<d, g>>>>] = "spoilt" /\ d <= published
                                         /\ \A e \in In(p) : d < e
      BY <1>t, <1>1, <2>2 DEF CauseOK
    <3>2. fate'[<<p, <<d, g>>>>] = "spoilt" /\ d <= published'
      BY <3>1, SpoiltStays
    <3>3. ASSUME NEW e \in In(p)' PROVE d < e
      <4>1. CASE e \in In(p)
        BY <3>1, <4>1
      <4>2. CASE e \notin In(p)
        <5>1. Publish
          <6>1. socket'[p] # socket[p]
            BY <3>3, <4>2 DEF In
          <6>2. ASSUME NEW q \in Proc, Thread(q) PROVE q # p => socket'[p] = socket[p]
            BY <1>t, <6>2 DEF Thread, Recv, Return, Filter, Submit, Continue, Raise, Reconnect,
                              TypeOK, SocketTypeOK
          <6>3. ~Thread(p)
            BY <1>1, <1>t DEF Thread, Recv, Return, Filter, Submit, Continue, Raise, Reconnect,
                              TypeOK, ProcTypeOK
          <6>4. ~Restart /\ ~\E q \in Proc : MakeFails(q)
            <7>1. Restart \/ (\E q \in Proc : MakeFails(q)) => pc'[p] # "reconnect"
              BY DEF Restart, MakeFails, ProcessEnds
            <7>2. QED BY <7>1
          <6>5. QED BY <6>1, <6>2, <6>3, <6>4
                  DEF Next, Make, Start, Subscribe, BreakSubscription, RecvFails, ReconnectFails,
                      Link, BreakLink
        <5>2. socket[p] \in Seq(Event) /\ e = published + 1
          <6>1. socket[p] \in Seq(Event)
            BY <1>t DEF TypeOK, SocketTypeOK
          <6>2. In(p)' \subseteq In(p) \cup {published + 1}
            <7>1. socket'[p] \in {socket[p], Append(socket[p], published + 1)}
              BY <5>1 DEF Publish
            <7>2. QED BY <6>1, <7>1, RangeOfAppend DEF In
          <6>3. QED BY <3>3, <4>2, <6>1, <6>2
        <5>3. QED BY <1>t, <3>1, <5>2, ClientAssumption DEF Event, TypeOK
      <4>3. QED BY <4>1, <4>2
    <3>4. QED BY <3>2, <3>3 DEF CauseOK
  <2>3. QED BY <2>1, <2>2
<1>2. CASE pc[p] # "reconnect"
  <2>1. RecvFails(p) \/ Recv(p) \/ Raise(p)
    <3>1. ASSUME NEW q \in Proc \ {p},
                 \/ Thread(q) \/ Make(q) \/ Start(q) \/ Subscribe(q) \/ BreakSubscription(q)
                 \/ RecvFails(q) \/ ReconnectFails(q)
          PROVE  pc'[p] = pc[p]
      BY <1>t, <3>1 DEF Thread, Recv, Return, Filter, Submit, Continue, Raise, Reconnect, Make, Start,
                        Subscribe, BreakSubscription, RecvFails, ReconnectFails, threadVars, TypeOK, ProcTypeOK
    <3>2. Make(p) \/ Start(p) \/ Subscribe(p) \/ BreakSubscription(p) \/ ReconnectFails(p)
            => pc'[p] # "reconnect"
      BY <1>t, <1>2 DEF Make, Start, Subscribe, BreakSubscription, ReconnectFails, threadVars, TypeOK, ProcTypeOK
    <3>3. Return(p) \/ Filter(p) \/ Submit(p) \/ Reconnect(p) => pc'[p] # "reconnect"
      BY <1>t, <1>2 DEF Return, Filter, Submit, Continue, Reconnect, TypeOK, ProcTypeOK
    <3>4. Publish \/ Link \/ BreakLink \/ Restart \/ (\E q \in Proc : MakeFails(q))
            => pc'[p] # "reconnect"
      BY <1>2 DEF Publish, Link, BreakLink, Restart, MakeFails, ProcessEnds, threadVars
    <3>5. QED BY <1>2, <3>1, <3>2, <3>3, <3>4 DEF Next, Thread
  <2>2. CASE RecvFails(p)
    BY <2>2 DEF RecvFails, CauseOK
  <2>3. PICK g \in File : TRUE
    OBVIOUS
  <2>4. CASE Recv(p)
    <3> DEFINE h == Head(socket[p])
               t == Tail(socket[p])
    <3>1. socket[p] \in Seq(Event) /\ socket[p] # <<>>
      BY <1>t, <2>4 DEF TypeOK, SocketTypeOK, Recv
    <3>2. /\ socket'[p] = t /\ published' = published
          /\ Becomes({p}, {h}, "spoilt")
      BY <1>t, <2>4 DEF Recv, netVars, TypeOK, SocketTypeOK, ProcTypeOK
    <3>3. h \in In(p) /\ h \in Event /\ \A e \in Range(t) : h < e
      BY <1>t, <3>1, AscendingTail, RangeOfTail, TypeOfTail DEF ProcOK, ReadOK, In
    <3> HIDE DEF h, t
    <3>4. h <= published /\ fate[<<p, <<h, g>>>>] = "pending"
      BY <1>t, <3>3 DEF ProcOK, ReadOK, HeldOK
    <3>5. fate'[<<p, <<h, g>>>>] = "spoilt"
      BY <3>2, <3>3, <3>4 DEF Becomes, Job
    <3>6. QED BY <3>2, <3>3, <3>4, <3>5 DEF CauseOK, In
  <2>5. CASE Raise(p)
    <3>1. /\ pc[p] = "file" /\ next[p] <= Files /\ Becomes({p}, {event[p]}, "spoilt")
          /\ UNCHANGED <<socket, published>>
      BY <2>5 DEF Raise, netVars
    <3>2. event[p] \in Event /\ next[p] \in File
      BY <1>t, <3>1 DEF TypeOK, ProcTypeOK, File
    <3>3. fate[<<p, <<event[p], next[p]>>>>] = "pending"
      <4>1. next[p] <= next[p]
        BY <3>2 DEF File
      <4>2. QED BY <1>t, <3>2, <4>1 DEF ProcOK, HeldOK
    <3>4. fate'[<<p, <<event[p], next[p]>>>>] = "spoilt"
      BY <3>1, <3>2, <3>3 DEF Becomes, Job
    <3>5. event[p] <= published /\ \A e \in In(p) : event[p] < e
      BY <1>t DEF ProcOK, ReadOK
    <3>6. QED BY <3>1, <3>2, <3>4, <3>5 DEF CauseOK, In
  <2>6. QED BY <2>1, <2>2, <2>4, <2>5
<1>3. QED BY <1>1, <1>2

(* Only a reconnection drops what a socket holds, and a thread reconnects   *)
(* for a reason of its own: an event is lost to an older event the same     *)
(* processor could not read, to recv() or to the end of the process.        *)
THEOREM LossIsExplained == Spec => LossHasCause
<1>1. Init => Causes
  BY DEF Init, Causes, CauseOK
<1>2. ASSUME Inv, Causes, Next, NEW p \in Proc, NEW e \in Event, NEW f \in File,
             fate[<<p, <<e, f>>>>] = "pending", fate'[<<p, <<e, f>>>>] = "lost", stops' = stops,
             pc'[p] # "gone"
      PROVE  p \in erred \/ \E d \in 1..(e - 1), g \in File : fate[<<p, <<d, g>>>>] = "spoilt"
  <2>t. TypeOK /\ ProcOK(p) /\ CauseOK(p) /\ <<p, <<e, f>>>> \in Proc \X Job
    BY <1>2 DEF Inv, Causes, Job
  <2>1. Reconnect(p)
    <3>1. ASSUME NEW q \in Proc, NEW E, Becomes({q}, E, "spoilt") PROVE fate'[<<p, <<e, f>>>>] # "lost"
      BY <1>2, <2>t, <3>1 DEF Becomes
    <3>2. ASSUME NEW q \in Proc, NEW s \in {"unwanted", "submitted", "refused"}, Continue(q, s)
          PROVE  fate'[<<p, <<e, f>>>>] # "lost"
      BY <1>2, <2>t, <3>2 DEF Continue, TypeOK, FateTypeOK
    <3>3. ASSUME NEW q \in Proc \ {p}, Reconnect(q) PROVE fate'[<<p, <<e, f>>>>] # "lost"
      BY <1>2, <2>t, <3>3 DEF Reconnect, Becomes
    <3>4. ~Publish
      <4>1. e <= published
        BY <1>2, <2>t DEF ProcOK, HeldOK, ReadOK
      <4>2. e # published + 1
        BY <2>t, <4>1, ClientAssumption DEF TypeOK, Event
      <4>3. QED BY <1>2, <2>t, <4>2 DEF Publish
    <3>5. ~Restart /\ ~\E q \in Proc : MakeFails(q)
      BY <1>2, <2>t DEF Restart, MakeFails, ProcessEnds, TypeOK
    <3>6. UNCHANGED fate => fate'[<<p, <<e, f>>>>] # "lost"
      BY <1>2
    <3>7. ASSUME NEW q \in Proc, Thread(q) PROVE Reconnect(p)
      BY <1>2, <3>1, <3>2, <3>3, <3>6, <3>7 DEF Thread, Recv, Return, Filter, Submit, Raise
    <3>8. QED BY <1>2, <3>4, <3>5, <3>6, <3>7
            DEF Next, Make, Start, Subscribe, BreakSubscription, RecvFails, ReconnectFails,
                Link, BreakLink
  <2>2. e \in In(p)
    <3>1. event[p] = 0
      BY <2>t, <2>1 DEF Reconnect, TypeOK, ProcTypeOK
    <3>2. e # 0
      BY DEF Event
    <3>3. QED BY <1>2, <2>t, <3>1, <3>2 DEF ProcOK, HeldOK
  <2>3. CASE p \notin erred
    <3>1. PICK d \in Event, g \in File : fate[<<p, <<d, g>>>>] = "spoilt" /\ \A x \in In(p) : d < x
      BY <2>t, <2>1, <2>3 DEF Reconnect, CauseOK
    <3>2. d \in 1..(e - 1)
      BY <2>2, <3>1, ClientAssumption DEF Event
    <3>3. QED BY <3>1, <3>2
  <2>4. QED BY <2>3
<1>3. Inv /\ Causes /\ [Next]_vars
        => [\A p \in Proc, e \in Event, f \in File :
              /\ fate[<<p, <<e, f>>>>] = "pending" /\ fate'[<<p, <<e, f>>>>] = "lost"
              /\ stops' = stops /\ pc'[p] # "gone"
              => \/ p \in erred
                 \/ \E d \in 1..(e - 1), g \in File : fate[<<p, <<d, g>>>>] = "spoilt"]_vars
  BY <1>2
<1>4. QED BY Invariance, <1>1, CauseStep, <1>3, PTL DEF Spec, LossHasCause

=============================================================================

------------------------- MODULE LogWorkerHandover -------------------------
(***************************************************************************)
(* The log workers implement Handover: the items are the lines of every    *)
(* run of every job.                                                       *)
(***************************************************************************)
EXTENDS LogWorker

Item == Jobs \X (1..MaxRuns) \X (1..MaxLines)

Among(i, lines) == \E l \in lines : l.job = i[1] /\ l.run = i[2] /\ l.n = i[3]

StageOf(i) ==
    CASE Among(i, received) -> "delivered"
      [] ~Among(i, received) /\ Among(i, lost) -> "dropped"
      [] ~Among(i, Arrived) /\ Among(i, Known) -> "held"
      [] OTHER -> "waiting"

Promised == {i \in Item : \E c \in completed : c.job = i[1] /\ c.run = i[2] /\ i[3] <= c.total}

Worker == INSTANCE Handover WITH stage <- [i \in Item |-> StageOf(i)], promised <- Promised

(* Queue, filter, the one retry, outages and restarts do nothing to a line  *)
(* but what Handover allows: a line is taken over once, leaves the worker   *)
(* once, to logstash or down with a process or connection and never both,   *)
(* and no job is completed with a line of it still in the loop.             *)
ImplementsHandover == Worker!Spec

=============================================================================

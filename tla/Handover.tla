------------------------------ MODULE Handover ------------------------------
(***************************************************************************)
(* What a gearman worker of the log pipeline promises.  It takes items     *)
(* over, lines of a log or a subunit stream, and every one of them goes    *)
(* one way: to the sink that stores it, or down with a process or a        *)
(* connection.  A WorkComplete promises items that were taken over, and    *)
(* no more than that: whether they arrive is open when it is sent.         *)
(***************************************************************************)
CONSTANTS Item

VARIABLES stage,    \* where an item is
          promised  \* the items of completed jobs

vars == <<stage, promised>>

TypeOK == /\ stage \in [Item -> {"waiting", "held", "delivered", "dropped"}]
          /\ promised \subseteq Item

Init == /\ stage = [i \in Item |-> "waiting"]
        /\ promised = {}

TakeOver == /\ \E i \in Item : /\ stage[i] = "waiting"
                               /\ stage' = [stage EXCEPT ![i] = "held"]
            /\ UNCHANGED promised

Deliver == /\ \E i \in Item : /\ stage[i] = "held"
                              /\ stage' = [stage EXCEPT ![i] = "delivered"]
           /\ UNCHANGED promised

(* Several items at once: all that a process or a connection held. *)
Drop == /\ \E S \in SUBSET {i \in Item : stage[i] = "held"} :
              stage' = [i \in Item |-> IF i \in S THEN "dropped" ELSE stage[i]]
        /\ UNCHANGED promised

Promise == /\ \E S \in SUBSET {i \in Item : stage[i] # "waiting"} :
                 promised' = promised \cup S
           /\ UNCHANGED stage

Next == TakeOver \/ Deliver \/ Drop \/ Promise

Spec == Init /\ [][Next]_vars

=============================================================================

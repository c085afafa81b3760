---------------------------- MODULE HaproxyStatsd ----------------------------
(***************************************************************************)
(* haproxy-statsd: every ten seconds the table of haproxy is read from its *)
(* stats socket, gauges are sent to statsd as they are and counters as the *)
(* difference to the last value that was seen.                             *)
(*                                                                         *)
(* haproxy may restart, refuse the connection or end a reply in the middle *)
(* of a line.  Any error is logged and the loop goes on with what was kept *)
(* so far.  A session raises all counters of its server here.              *)
(***************************************************************************)
EXTENDS Integers, Sequences, SequencesExt

CONSTANTS Rows,          \* lines of the table
          Cols,          \* its columns
          GAUGES,        \* the columns sent as gauges, in the order of the list
          COUNTERS,      \* the columns sent as counters
          Blank,         \* the fields that are always empty, in (1..Rows) \X (1..Cols)
          MaxSessions    \* bound: sessions of a server between two restarts

ASSUME StatsAssumption == Rows \in Nat /\ Cols \in Nat /\ MaxSessions \in Nat

NoValue == -1
Row == 1..Rows
Metric == (Row \X Range(COUNTERS)) \ Blank

VARIABLES
    sessions,  \* what haproxy counts, by row
    loop,      \* "sleep", "read" or "report"
    reply,     \* ret: how many fields a row has, and the value of its counters
    row, key,  \* where reportStats is
    prevdata,
    sent,      \* history: the sum of the increments of a metric
    first      \* history: the value of a metric that was seen first

statsVars == <<sessions, loop, reply, row, key, prevdata, sent, first>>

StatsInit ==
    /\ sessions = [r \in Row |-> 0] /\ loop = "sleep" /\ reply = <<>> /\ row = 1 /\ key = 1
    /\ prevdata = [m \in Metric |-> NoValue]
    /\ sent = [m \in Metric |-> 0] /\ first = [m \in Metric |-> NoValue]

GoesTo(where) == loop' = where /\ row' = 1 /\ key' = 1

Sleep10 == /\ loop = "sleep" /\ GoesTo("read")
           /\ UNCHANGED <<sessions, reply, prevdata, sent, first>>

(* getStats: the rows that came, of which the last may end after n commas.  *)
(* [:-1] drops what follows the last comma of a line: nothing, or a value   *)
(* that may be cut.  A header that is cut has fewer columns, but no rows.   *)
GetStats ==
    /\ loop = "read" /\ GoesTo("report")
    /\ \E len \in 0..Rows, n \in 0..Cols :
          reply' = [r \in 1..len |-> [fields |-> IF r < len THEN Cols ELSE n, value |-> sessions[r]]]
    /\ UNCHANGED <<sessions, prevdata, sent, first>>

(* No connection, nothing for five seconds, or no header at all.            *)
GetStatsFails == /\ loop = "read" /\ GoesTo("sleep") /\ reply' = <<>>
                 /\ UNCHANGED <<sessions, prevdata, sent, first>>

Keys == GAUGES \o COUNTERS

Column == Keys[key]
Reporting == loop = "report" /\ row <= Len(reply)

(* A plausible mistake: the values that follow a restart are not kept.      *)
RememberLargest(m, v) == prevdata' = [prevdata EXCEPT ![m] = IF v > @ THEN v ELSE @]

Remember(m, v) == prevdata' = [prevdata EXCEPT ![m] = v]

(* statsd.incr, unless this is the first value; statsd never raises.        *)
Increment(m, v) ==
    IF prevdata[m] = NoValue
    THEN first' = [first EXCEPT ![m] = v] /\ UNCHANGED sent
    ELSE sent' = [sent EXCEPT ![m] = @ + v - prevdata[m]] /\ UNCHANGED first

(* One key of a row: gauges and empty fields change nothing here.           *)
ReportKey ==
    /\ Reporting /\ Column <= reply[row].fields
    /\ IF <<row, Column>> \in Metric
       THEN LET m == <<row, Column>> IN Increment(m, reply[row].value) /\ Remember(m, reply[row].value)
       ELSE UNCHANGED <<prevdata, sent, first>>
    /\ IF key < Len(Keys) THEN key' = key + 1 /\ UNCHANGED row ELSE key' = 1 /\ row' = row + 1
    /\ UNCHANGED <<sessions, loop, reply>>

(* The field is not there: KeyError, and run logs it.                       *)
ReportFails == /\ Reporting /\ Column > reply[row].fields /\ GoesTo("sleep") /\ reply' = <<>>
               /\ UNCHANGED <<sessions, prevdata, sent, first>>

ReportDone == /\ loop = "report" /\ row > Len(reply) /\ GoesTo("sleep") /\ reply' = <<>>
              /\ UNCHANGED <<sessions, prevdata, sent, first>>

Session == \E r \in Row : /\ sessions[r] < MaxSessions
                          /\ sessions' = [sessions EXCEPT ![r] = @ + 1]
                          /\ UNCHANGED <<loop, reply, row, key, prevdata, sent, first>>

HaproxyRestarts == /\ sessions' = [r \in Row |-> 0]
                   /\ UNCHANGED <<loop, reply, row, key, prevdata, sent, first>>

StatsStep == Sleep10 \/ GetStats \/ GetStatsFails \/ ReportKey \/ ReportFails \/ ReportDone
StatsNext == StatsStep \/ Session \/ HaproxyRestarts
StatsSpec == StatsInit /\ [][StatsNext]_statsVars

-----------------------------------------------------------------------------

(* The increments of a metric add up to what haproxy counted between the    *)
(* first and the last value that was seen, whatever replies were lost or    *)
(* cut and errors logged in between: after a restart the increment is       *)
(* negative and takes back what the restart took.                           *)
IncrementsAddUp ==
    \A m \in Metric : IF prevdata[m] = NoValue THEN first[m] = NoValue /\ sent[m] = 0
                                               ELSE sent[m] = prevdata[m] - first[m]

=============================================================================

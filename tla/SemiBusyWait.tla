---------------------------- MODULE SemiBusyWait ----------------------------
(***************************************************************************)
(* semi_busy_wait(seconds), the timed wait of the log worker and of the    *)
(* subunit worker.  It backs off between two fetches of a console log and  *)
(* waits out a restart of logstash.  time.sleep() may return early, so the *)
(* function loops until it believes that the time has passed.  Time is     *)
(* counted in ticks of the clock the code reads.                           *)
(***************************************************************************)
EXTENDS Integers

CONSTANTS MaxSeconds,   \* longest wait asked for (128 and 90 in the code)
          Late          \* by how many ticks a sleep may overrun

ASSUME WaitAssumption == /\ MaxSeconds \in Nat \ {0}
                         /\ Late \in Nat

VARIABLES requested,    \* the argument, as the caller gave it
          seconds,      \* the argument, as the loop rewrites it
          elapsed,      \* cur_time - start_time
          early,        \* history: how many sleeps returned early
          pc            \* "sleeping" in the loop, "returned" after it

vars == <<requested, seconds, elapsed, early, pc>>

TypeOK == /\ requested \in 1..MaxSeconds
          /\ seconds \in -(MaxSeconds + Late)..MaxSeconds
          /\ elapsed \in 0..(MaxSeconds + Late)
          /\ early \in Nat
          /\ pc \in {"sleeping", "returned"}

Init == /\ requested \in 1..MaxSeconds
        /\ seconds = requested
        /\ elapsed = 0
        /\ early = 0
        /\ pc = "sleeping"

(* A plausible mistake: the loop ends a tick too soon. *)
ElapsedTooSoon(s) == s <= 1

(***************************************************************************)
(* What is left to wait after a sleep that ended `now' ticks after         *)
(* start_time.  start_time is never moved, so every iteration subtracts    *)
(* the whole time since the call and not the time of the last sleep.       *)
(***************************************************************************)
Remaining(s, now) == s - now

(* The test that ends the loop. *)
Elapsed(s) == s <= 0

(* One iteration: a sleep of some length, early, on time or late. *)
Sleep(d) ==
    LET now == elapsed + d IN
    /\ pc = "sleeping"
    /\ elapsed' = now
    /\ seconds' = Remaining(seconds, now)
    /\ early' = IF d < seconds THEN early + 1 ELSE early
    /\ pc' = IF Elapsed(seconds') THEN "returned" ELSE "sleeping"
    /\ UNCHANGED requested

Next == \E d \in 1..(seconds + Late) : Sleep(d)

Spec == Init /\ [][Next]_vars /\ WF_vars(Next)

-----------------------------------------------------------------------------

(* The comment at the head of the function promises that it repeats until  *)
(* at least the number of seconds specified has elapsed.  That holds as    *)
(* long as at most one of its sleeps was cut short.  The second short sleep is charged again   *)
(* for the time of the first one.                                          *)
FullWaitUnlessTwoEarly == pc = "returned" /\ early <= 1 => elapsed >= requested

(* However often it is woken, the wait is never longer than asked for by   *)
(* more than the overrun of its last sleep: the caller's backoff schedule  *)
(* of 255 seconds cannot stretch.                                          *)
NeverTooLong == elapsed <= requested + Late
=============================================================================

----------------------------- MODULE TaskLease -----------------------------
(***************************************************************************)
(* What the queue promises of a task: it is leased to one worker at a      *)
(* time, only that worker settles it, gives it back or buries it, each     *)
(* counted once, and a lease is revoked only when nobody works on it.      *)
(* Tasks are independent: a step of the system is a step, or none, of each.*)
(***************************************************************************)
EXTENDS Naturals

CONSTANTS Task, Worker, MaxRetries

VARIABLES state,      \* of each task
          workers,    \* those at work on it
          failures    \* counted so far; of a dead task, none

vars == <<state, workers, failures>>

Init == /\ state    = [t \in Task |-> "new"]
        /\ workers  = [t \in Task |-> {}]
        /\ failures = [t \in Task |-> 0]

Keep(t) == /\ state'[t] = state[t]
           /\ workers'[t] = workers[t]
           /\ failures'[t] = failures[t]

Submit(t) == /\ state[t] = "new" /\ state'[t] = "free"
             /\ workers[t] = {}  /\ workers'[t] = {}
             /\ failures'[t] = failures[t]

\* To a worker, or to one that never hears of it.
Lease(t) == /\ state[t] = "free" /\ state'[t] = "leased"
            /\ workers[t] = {}
            /\ workers'[t] = {} \/ \E w \in Worker : workers'[t] = {w}
            /\ failures'[t] = failures[t]

\* The one worker of a task is done with it.
Ends(t) == /\ state[t] = "leased"
           /\ \E w \in Worker : workers[t] = {w}
           /\ workers'[t] = {}

Settle(t) == /\ Ends(t)
             /\ state'[t] = "settled"
             /\ failures'[t] \in {failures[t], failures[t] + 1}

GiveBack(t) == /\ Ends(t)
               /\ state'[t] = "free"
               /\ failures'[t] = failures[t] + 1
               /\ failures'[t] < MaxRetries

Bury(t) == /\ Ends(t)
           /\ state'[t] = "dead"
           /\ failures[t] + 1 >= MaxRetries
           /\ failures'[t] = 0

\* It stops, or fails to tell.
Drop(t) == /\ Ends(t)
           /\ state'[t] = "leased"
           /\ failures'[t] = failures[t]

Revoke(t) == /\ state[t] = "leased" /\ state'[t] = "free"
             /\ workers[t] = {}     /\ workers'[t] = {}
             /\ failures'[t] = failures[t]

TaskNext(t) == \/ Submit(t) \/ Lease(t) \/ Settle(t) \/ GiveBack(t) \/ Bury(t)
               \/ Drop(t) \/ Revoke(t)

Next == \A t \in Task : Keep(t) \/ TaskNext(t)

Spec == Init /\ [][Next]_vars
=============================================================================

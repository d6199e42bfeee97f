----------------------------- MODULE Leadership -----------------------------
(***************************************************************************)
(* The election of the instance that recovers tasks: the advisory lock and *)
(* the sessions that may hold it, the connection each instance pins for    *)
(* its session, the ticks of its coordinator and the two recovery loops    *)
(* these start, and the order in which main gives all of it up.            *)
(*                                                                         *)
(* A tick of the coordinator is the query, the server's answer, and the    *)
(* reaction to it.  A session ends at the client (a crash, a failed query, *)
(* a failed unlock) before the server notices and frees the lock, or at    *)
(* the server, and then nothing tells the client.                          *)
(***************************************************************************)
EXTENDS Naturals, FiniteSets

CONSTANTS Instance,      \* one per process start, never reused
          NoInstance,    \* nobody holds the lock
          Orphan,        \* a session without a client holds the lock
          MaxBreaks,     \* bound: sessions the server ends
          MaxFaults      \* bound: queries that fail in a serving process

ASSUME HolderAssumption == NoInstance \notin Instance /\ Orphan \notin Instance
                           /\ Orphan # NoInstance
ASSUME BoundAssumption  == MaxBreaks \in Nat /\ MaxFaults \in Nat

VARIABLES main,          \* where run() is
          lock,          \* whose session holds the advisory lock
          leaderConn,    \* instances with leaderConn # nil
          tick,          \* where the coordinator's loop is
          isLeader,      \* instances with isLeader
          loops,         \* instance monitor and stale cleaner
          breaks, faults \* how many happened, against the bounds

vars == <<main, lock, leaderConn, tick, isLeader, loops, breaks, faults>>

Init == /\ main       = [i \in Instance |-> "off"]
        /\ lock       = NoInstance
        /\ leaderConn = {}
        /\ tick       = [i \in Instance |-> "off"]
        /\ isLeader   = {}
        /\ loops      = [i \in Instance |-> "off"]
        /\ breaks     = 0
        /\ faults     = 0

Cancelled(i) == main[i] \in {"stopping", "released"}
Running(i)   == main[i] \in {"up", "stopping", "released"}

\* The loops of i act on the database: their context is not cancelled.  A statement that was under
\* way when it was cancelled may still take effect, and is not counted.
Recovering(i) == loops[i] = "on" /\ main[i] = "up"

\* The client end of i's session, if it has one, is gone.
Abandoned(i) == IF lock = i THEN Orphan ELSE lock

-----------------------------------------------------------------------------
(* One tick of Coordinator.Start *)

\* TryAcquireLeader with a pinned connection: true, without a look at the lock.
Repeat(i) ==
  /\ tick[i] = "select"
  /\ i \in leaderConn
  /\ tick' = [tick EXCEPT ![i] = "true"]
  /\ UNCHANGED <<main, lock, leaderConn, isLeader, loops, breaks, faults>>

\* ... and without: a connection and the query.
Ask(i) ==
  /\ tick[i] = "select"
  /\ i \notin leaderConn
  /\ ~ Cancelled(i)
  /\ tick' = [tick EXCEPT ![i] = "asked"]
  /\ UNCHANGED <<main, lock, leaderConn, isLeader, loops, breaks, faults>>

\* The server answers PG_TRY_ADVISORY_LOCK.
Grant(i) ==
  /\ tick[i] = "asked"
  /\ lock = NoInstance
  /\ lock' = i
  /\ tick' = [tick EXCEPT ![i] = "granted"]
  /\ UNCHANGED <<main, leaderConn, isLeader, loops, breaks, faults>>

Refuse(i) ==
  /\ tick[i] = "asked"
  /\ lock # NoInstance
  /\ tick' = [tick EXCEPT ![i] = "false"]
  /\ UNCHANGED <<main, lock, leaderConn, isLeader, loops, breaks, faults>>

\* The answer arrives: the connection is pinned.
Pin(i) ==
  /\ tick[i] = "granted"
  /\ leaderConn' = leaderConn \cup {i}
  /\ tick' = [tick EXCEPT ![i] = "true"]
  /\ UNCHANGED <<main, lock, isLeader, loops, breaks, faults>>

\* Mutation: the connection of a failed query goes back to the pool, open.
AskFails_KeepsSession(i) ==
  /\ tick[i] \in {"asked", "granted"}
  /\ tick' = [tick EXCEPT ![i] = "select"]
  /\ IF Cancelled(i) THEN UNCHANGED faults
                     ELSE faults < MaxFaults /\ faults' = faults + 1
  /\ UNCHANGED <<main, lock, leaderConn, isLeader, loops, breaks>>

\* The query fails, or is cancelled: its connection is closed, with whatever
\* the server did on it.
AskFails(i) ==
  /\ tick[i] \in {"asked", "granted"}
  /\ tick' = [tick EXCEPT ![i] = "select"]
  /\ lock' = Abandoned(i)
  /\ IF Cancelled(i) THEN UNCHANGED faults
                     ELSE faults < MaxFaults /\ faults' = faults + 1
  /\ UNCHANGED <<main, leaderConn, isLeader, loops, breaks>>

\* Leadership is new, or no news.  Loops started on a cancelled context end.
ReactTrue(i) ==
  /\ tick[i] = "true"
  /\ tick' = [tick EXCEPT ![i] = "select"]
  /\ isLeader' = isLeader \cup {i}
  /\ loops' = IF i \in isLeader THEN loops ELSE [loops EXCEPT ![i] = "on"]
  /\ UNCHANGED <<main, lock, leaderConn, breaks, faults>>

ReactFalse(i) ==
  /\ tick[i] = "false"
  /\ tick' = [tick EXCEPT ![i] = "select"]
  /\ isLeader' = isLeader \ {i}
  /\ loops' = IF i \in isLeader THEN [loops EXCEPT ![i] = "off"] ELSE loops
  /\ UNCHANGED <<main, lock, leaderConn, breaks, faults>>

\* ctx.Done() wins the select.
CoordinatorStops(i) ==
  /\ tick[i] = "select"
  /\ Cancelled(i)
  /\ tick' = [tick EXCEPT ![i] = "done"]
  /\ UNCHANGED <<main, lock, leaderConn, isLeader, loops, breaks, faults>>

-----------------------------------------------------------------------------
(* The recovery loops, as far as they end.  Nobody waits for them.         *)

LoopsEnd(i) ==
  /\ loops[i] = "on"
  /\ Cancelled(i)
  /\ loops' = [loops EXCEPT ![i] = "off"]
  /\ UNCHANGED <<main, lock, leaderConn, tick, isLeader, breaks, faults>>

-----------------------------------------------------------------------------
(* main *)

Start(i) ==
  /\ main[i] = "off"
  /\ main' = [main EXCEPT ![i] = "up"]
  /\ tick' = [tick EXCEPT ![i] = "select"]
  /\ UNCHANGED <<lock, leaderConn, isLeader, loops, breaks, faults>>

\* SIGTERM: the context of coordinator and loops is cancelled.
Cancel(i) ==
  /\ main[i] = "up"
  /\ main' = [main EXCEPT ![i] = "stopping"]
  /\ UNCHANGED <<lock, leaderConn, tick, isLeader, loops, breaks, faults>>

\* Mutation: the lock is released before the contexts are cancelled.
ReleaseLeader_First(i) ==
  /\ main[i] \in {"up", "stopping"}
  /\ leaderConn' = leaderConn \ {i}
  /\ lock' = IF lock = i THEN NoInstance ELSE lock
  /\ main' = IF tick[i] = "done" THEN [main EXCEPT ![i] = "released"] ELSE main
  /\ UNCHANGED <<tick, isLeader, loops, breaks, faults>>

\* After the coordinator has stopped and the pool is drained.  A failed
\* unlock closes the connection.
ReleaseLeader(i) ==
  /\ main[i] = "stopping"
  /\ tick[i] = "done"
  /\ leaderConn' = leaderConn \ {i}
  /\ lock' \in (IF lock = i THEN {NoInstance, Orphan} ELSE {lock})
  /\ main' = [main EXCEPT ![i] = "released"]
  /\ UNCHANGED <<tick, isLeader, loops, breaks, faults>>

\* main returns, or the process dies.
End(i) ==
  /\ main' = [main EXCEPT ![i] = "down"]
  /\ leaderConn' = leaderConn \ {i}
  /\ tick' = [tick EXCEPT ![i] = "off"]
  /\ isLeader' = isLeader \ {i}
  /\ loops' = [loops EXCEPT ![i] = "off"]
  /\ lock' = Abandoned(i)
  /\ UNCHANGED <<breaks, faults>>

Exit(i)  == main[i] = "released" /\ End(i)
Crash(i) == Running(i) /\ End(i)

-----------------------------------------------------------------------------
(* The server *)

\* It notices that a session has lost its client, ...
OrphanEnds ==
  /\ lock = Orphan
  /\ lock' = NoInstance
  /\ UNCHANGED <<main, leaderConn, tick, isLeader, loops, breaks, faults>>

\* ... or ends one that has not.
SessionBreaks ==
  /\ lock \in Instance
  /\ breaks < MaxBreaks
  /\ breaks' = breaks + 1
  /\ lock' = NoInstance
  /\ UNCHANGED <<main, leaderConn, tick, isLeader, loops, faults>>

-----------------------------------------------------------------------------
Tick(i) == \/ Repeat(i) \/ Ask(i) \/ Grant(i) \/ Refuse(i) \/ Pin(i) \/ AskFails(i)
           \/ ReactTrue(i) \/ ReactFalse(i) \/ CoordinatorStops(i)

Next == \/ \E i \in Instance : \/ Tick(i) \/ LoopsEnd(i)
                               \/ Start(i) \/ Cancel(i) \/ ReleaseLeader(i)
                               \/ Exit(i) \/ Crash(i)
        \/ OrphanEnds
        \/ SessionBreaks

Spec == Init /\ [][Next]_vars

(***************************************************************************)
(* Fairness: the coordinator's ticker ticks and its queries are answered,  *)
(* a shutdown that began goes on, and the server notices dead sessions.    *)
(* A select between the ticker and a cancelled context picks at random, so *)
(* that the context wins in the end.  No process has to start, stop, fail  *)
(* or lose its session.                                                    *)
(***************************************************************************)
Fairness == /\ \A i \in Instance : /\ WF_vars(Tick(i)) /\ SF_vars(CoordinatorStops(i))
                                   /\ WF_vars(ReleaseLeader(i)) /\ WF_vars(Exit(i))
            /\ WF_vars(OrphanEnds)

FairSpec == Spec /\ Fairness

-----------------------------------------------------------------------------
(* Properties *)

(* The election is a succession: one instance recovers tasks at a time,    *)
(* and one more for every session that broke, through handovers, crashes,  *)
(* failed queries and failed unlocks; an instance that was elected goes on *)
(* until its process is told to stop; and the next one follows.            *)
Elections == INSTANCE Succession WITH standing <- {i \in Instance : main[i] = "up"},
                                      leading  <- {i \in Instance : Recovering(i)},
                                      lost     <- breaks

IsSuccession == Elections!FairSpec

(* Broken sessions or not: if some instance stays up, then from some time  *)
(* on somebody recovers tasks.                                             *)
AlwaysRecovered ==
  (\E i \in Instance : <>[](main[i] = "up")) => <>[](\E i \in Instance : Recovering(i))

(* An instance whose session lost the lock does not keep isLeader.         *)
LosingLockEndsLeadership ==
  \A i \in Instance : (i \in isLeader /\ lock # i) ~> i \notin isLeader
=============================================================================

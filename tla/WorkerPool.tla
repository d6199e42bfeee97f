----------------------------- MODULE WorkerPool -----------------------------
(***************************************************************************)
(* One process between the claim of a task and the end of its execution:   *)
(* the dispatcher and the Kafka consumer that send what they claimed, the  *)
(* pool's buffered channel, its workers, and the order in which main stops *)
(* them.                                                                   *)
(*                                                                         *)
(* A claimed task is represented by its age: how often a period of the     *)
(* length of WORKER_TASK_TIMEOUT ended since its row was locked.  A lock   *)
(* of age n is less than n + 1 periods old.  Handlers heed the timeout of  *)
(* their context, so a handler sees one period end at most; next to them   *)
(* sends and receives take no time.                                        *)
(***************************************************************************)
EXTENDS Naturals, FiniteSets, Sequences, SequencesExt

CONSTANTS Worker,        \* WORKER_POOL_SIZE goroutines
          BatchSize      \* WORKER_BATCH_SIZE

ASSUME PoolAssumption == IsFiniteSet(Worker) /\ Worker # {} /\ BatchSize \in Nat \ {0}

VARIABLES main,          \* how far run() is with stopping
          hand,          \* per sender: claimed tasks it has yet to send
          stopped,       \* senders whose done channel is closed
          channel,       \* the buffer of p.tasks
          sendq,         \* senders that wait for room, in the order they came
          closed,        \* close(p.tasks) was called
          worker         \* what each worker does

vars == <<main, hand, stopped, channel, sendq, closed, worker>>

Sender == {"dispatcher", "consumer"}
\* Mutation: a longer buffer.
Capacity_Triple == 3 * Cardinality(Worker)

Capacity == 2 * Cardinality(Worker)

\* What a full channel and a full batch, with one message of the consumer
\* before each of its tasks, amount to, in periods of the pool.
HeldBound == (2 * BatchSize + Cardinality(Worker) - 1) \div Cardinality(Worker) + 3

\* Ages above the bound are all the same.
Older(age) == IF age > HeldBound THEN age ELSE age + 1

Idle      == [state |-> "idle", age |-> 0, late |-> FALSE]
Busy(age) == [state |-> "busy", age |-> age, late |-> FALSE]
Exited    == [state |-> "exited", age |-> 0, late |-> FALSE]

Init == /\ main    = "serving"
        /\ hand    = [s \in Sender |-> <<>>]
        /\ stopped = {}
        /\ channel = <<>>
        /\ sendq   = <<>>
        /\ closed  = FALSE
        /\ worker  = [w \in Worker |-> Idle]

\* Nobody can send or receive.
Settled == /\ \A s \in Sender : hand[s] # <<>> => Contains(sendq, s)
           /\ \A w \in Worker : worker[w].state = "idle" => channel = <<>>

-----------------------------------------------------------------------------
(* Senders *)

\* A claim succeeds on a live context only, and nothing is in hand then.
Claim(s, n) ==
  /\ main = "serving"
  /\ hand[s] = <<>>
  /\ hand' = [hand EXCEPT ![s] = [k \in 1..n |-> 0]]
  /\ UNCHANGED <<main, stopped, channel, sendq, closed, worker>>

ClaimTasks == \E n \in 1..BatchSize : Claim("dispatcher", n)
ClaimTask  == Claim("consumer", 1)

\* d.tasks <- envelope: there is room, ...
Send(s) ==
  /\ hand[s] # <<>>
  /\ Len(channel) < Capacity
  /\ channel' = Append(channel, Head(hand[s]))
  /\ hand' = [hand EXCEPT ![s] = Tail(@)]
  /\ UNCHANGED <<main, stopped, sendq, closed, worker>>

\* ... or the sender queues up, whatever becomes of its context.
Park(s) ==
  /\ hand[s] # <<>>
  /\ Len(channel) = Capacity
  /\ ~ Contains(sendq, s)
  /\ sendq' = Append(sendq, s)
  /\ UNCHANGED <<main, hand, stopped, channel, closed, worker>>

\* Run sees its context cancelled, between two cycles or messages.
Stopped(s) ==
  /\ main # "serving"
  /\ hand[s] = <<>>
  /\ s \notin stopped
  /\ stopped' = stopped \cup {s}
  /\ UNCHANGED <<main, hand, channel, sendq, closed, worker>>

-----------------------------------------------------------------------------
(* Workers *)

\* A receive from a full channel lets the first waiting sender in.
Receive(w) ==
  /\ worker[w].state = "idle"
  /\ channel # <<>>
  /\ worker' = [worker EXCEPT ![w] = Busy(Head(channel))]
  /\ IF sendq = <<>>
     THEN /\ channel' = Tail(channel)
          /\ UNCHANGED <<hand, sendq>>
     ELSE LET s == Head(sendq) IN
          /\ channel' = Append(Tail(channel), Head(hand[s]))
          /\ hand' = [hand EXCEPT ![s] = Tail(@)]
          /\ sendq' = Tail(sendq)
  /\ UNCHANGED <<main, stopped, closed>>

\* Mutation: a worker handles one task, not all.
Finish_Once(w) ==
  /\ worker[w].state = "busy"
  /\ worker' = [worker EXCEPT ![w] = Exited]
  /\ UNCHANGED <<main, hand, stopped, channel, sendq, closed>>

\* Execute returns.
Finish(w) ==
  /\ worker[w].state = "busy"
  /\ worker' = [worker EXCEPT ![w] = Idle]
  /\ UNCHANGED <<main, hand, stopped, channel, sendq, closed>>

\* Mutation: a worker leaves as soon as the channel is closed.
WorkerExits_Closed(w) ==
  /\ worker[w].state = "idle"
  /\ closed
  /\ worker' = [worker EXCEPT ![w] = Exited]
  /\ UNCHANGED <<main, hand, stopped, channel, sendq, closed>>

\* The range over the channel ends when it is closed and empty.
WorkerExits(w) ==
  /\ worker[w].state = "idle"
  /\ closed
  /\ channel = <<>>
  /\ worker' = [worker EXCEPT ![w] = Exited]
  /\ UNCHANGED <<main, hand, stopped, channel, sendq, closed>>

-----------------------------------------------------------------------------
(* main *)

\* cancel() and kafkaConsumerCancel(), as one step: both come before any Stop.
Cancel ==
  /\ main = "serving"
  /\ main' = "cancelled"
  /\ UNCHANGED <<hand, stopped, channel, sendq, closed, worker>>

\* Mutation: the pool is stopped before the dispatcher.
ClosePool_Early ==
  /\ main = "cancelled"
  /\ "consumer" \in stopped
  /\ main' = "closing"
  /\ closed' = TRUE
  /\ UNCHANGED <<hand, stopped, channel, sendq, worker>>

\* Mutation: Stop waits without closing the channel.
ClosePool_Open ==
  /\ main = "cancelled"
  /\ stopped = Sender
  /\ main' = "closing"
  /\ UNCHANGED <<hand, stopped, channel, sendq, closed, worker>>

\* kafkaConsumer.Stop() and dispatcher.Stop() have returned.
ClosePool ==
  /\ main = "cancelled"
  /\ stopped = Sender
  /\ main' = "closing"
  /\ closed' = TRUE
  /\ UNCHANGED <<hand, stopped, channel, sendq, worker>>

\* p.wg.Wait() has returned.
PoolStopped ==
  /\ main = "closing"
  /\ \A w \in Worker : worker[w].state = "exited"
  /\ main' = "drained"
  /\ UNCHANGED <<hand, stopped, channel, sendq, closed, worker>>

-----------------------------------------------------------------------------
(* The end of a period: sends and receives that were possible took place,  *)
(* and the handlers that saw the last one end have returned.               *)
PeriodEnds ==
  /\ Settled
  /\ \A w \in Worker : ~ worker[w].late
  /\ hand'    = [s \in Sender |-> [k \in DOMAIN hand[s] |-> Older(hand[s][k])]]
  /\ channel' = [k \in DOMAIN channel |-> Older(channel[k])]
  /\ worker'  = [w \in Worker |-> IF worker[w].state = "busy"
                                  THEN [Busy(Older(worker[w].age)) EXCEPT !.late = TRUE]
                                  ELSE worker[w]]
  /\ UNCHANGED <<main, stopped, sendq, closed>>

-----------------------------------------------------------------------------
SenderNext == ClaimTasks \/ ClaimTask \/ \E s \in Sender : Send(s) \/ Park(s) \/ Stopped(s)
WorkerNext == \E w \in Worker : Receive(w) \/ Finish(w) \/ WorkerExits(w)
MainNext   == Cancel \/ ClosePool \/ PoolStopped

Next == SenderNext \/ WorkerNext \/ MainNext \/ PeriodEnds

Spec == Init /\ [][Next]_vars

\* A claim, which asks the database, takes longer than a send or a receive.
PromptSpec == Init /\ [][Next /\ (ClaimTasks \/ ClaimTask => Settled)]_vars

(***************************************************************************)
(* Fairness: goroutines that can go on do, and handlers return.  Nothing   *)
(* makes tasks arrive or the process stop.                                 *)
(***************************************************************************)
Fairness ==
  /\ \A s \in Sender : WF_vars(Send(s) \/ Park(s)) /\ WF_vars(Stopped(s))
  /\ \A w \in Worker : WF_vars(Receive(w)) /\ WF_vars(Finish(w)) /\ WF_vars(WorkerExits(w))
  /\ WF_vars(ClosePool) /\ WF_vars(PoolStopped)

FairSpec == PromptSpec /\ Fairness

-----------------------------------------------------------------------------
(* Properties *)

(* The channel is closed only when nobody will send to it any more: a send *)
(* on a closed channel, or one that waits while it is closed, panics.      *)
NoSendOnClosed ==
  closed => \A s \in Sender : s \in stopped /\ hand[s] = <<>> /\ ~ Contains(sendq, s)

(* When the pool has stopped, every task that was claimed was given to     *)
(* Execute: none is left in a hand or in the channel.                      *)
NothingLeftBehind ==
  main = "drained" => channel = <<>> /\ \A s \in Sender : hand[s] = <<>>

(* A claimed task has been executed, and its lock is gone, before the lock *)
(* is HeldBound + 1 periods old, however full the channel was: with the    *)
(* defaults (5 workers, batches of 10, periods of 30 s) 4 minutes, and a   *)
(* lock is stale after 5.                                                  *)
LocksStayYoung ==
  /\ \A s \in Sender : \A k \in DOMAIN hand[s] : hand[s][k] <= HeldBound
  /\ \A k \in DOMAIN channel : channel[k] <= HeldBound
  /\ \A w \in Worker : worker[w].age <= HeldBound

(* A sender that waits for room gets it, however the other one hurries.    *)
SendersGetThrough == \A s \in Sender : []<>(hand[s] = <<>>)

(* A shutdown that began comes to its end, full channel or not.            *)
ShutdownCompletes == main = "cancelled" ~> main = "drained"
=============================================================================

------------------------- MODULE WorkerPool_proofs -------------------------
(***************************************************************************)
(* The order of the shutdown, for any number of workers, any batch size    *)
(* and claims and sends of any speed: nobody sends on the closed channel,  *)
(* and nothing is left in it.  Then the age of the locks, for any workers  *)
(* and batches, when sends and receives are faster than claims.            *)
(***************************************************************************)
EXTENDS WorkerPool, SequenceTheorems, FiniteSetTheorems, TLAPS

Work == [state : {"idle", "busy", "exited"}, age : Nat, late : BOOLEAN]

TypeOK == /\ main \in {"serving", "cancelled", "closing", "drained"}
          /\ hand \in [Sender -> Seq(Nat)]
          /\ stopped \subseteq Sender
          /\ channel \in Seq(Nat)
          /\ sendq \in Seq(Sender)
          /\ closed \in BOOLEAN
          /\ worker \in [Worker -> Work]

\* A sender waits once, with something in hand, and while the channel is full.
Waiting == /\ \A n \in 1..Len(sendq) : hand[sendq[n]] # <<>>
           /\ \A m, n \in 1..Len(sendq) : sendq[m] = sendq[n] => m = n
           /\ sendq # <<>> => Len(channel) = Capacity

\* The channel is closed after the senders have stopped, with empty hands.
InOrder == /\ stopped # {} => main # "serving"
           /\ \A s \in stopped : hand[s] = <<>>
           /\ closed <=> main \in {"closing", "drained"}
           /\ closed => stopped = Sender

\* A worker leaves a channel that is closed and empty.
WorkersLast == /\ \A w \in Worker : worker[w].state = "exited" => closed /\ channel = <<>>
               /\ main = "drained" => \A w \in Worker : worker[w].state = "exited"

PoolInv == TypeOK /\ Waiting /\ InOrder /\ WorkersLast

(* The ages are numbers, and the buffer has a size.                        *)
LEMMA NumbersType ==
  /\ \A age \in Nat : Older(age) \in Nat
  /\ Capacity \in Nat
<1>1. Cardinality(Worker) \in Nat
  BY PoolAssumption, FS_CardinalityType
<1> QED
  BY <1>1 DEF Older, Capacity

(* What a worker may be.                                                   *)
LEMMA WorkType ==
  /\ Idle \in Work /\ Idle.state = "idle"
  /\ Exited \in Work /\ Exited.state = "exited"
  /\ \A age \in Nat : Busy(age) \in Work /\ Busy(age).state = "busy"
  BY DEF Work, Idle, Exited, Busy

(* The head and the tail of what somebody has.                             *)
LEMMA HeadTail ==
  ASSUME NEW S, NEW q \in Seq(S), q # <<>>
  PROVE  /\ Head(q) \in S /\ Tail(q) \in Seq(S)
         /\ Head(q) = q[1] /\ Len(Tail(q)) = Len(q) - 1 /\ Len(q) \in Nat \ {0}
         /\ \A n \in 1..Len(Tail(q)) : Tail(q)[n] = q[n + 1]
  BY HeadTailProperties

(* The invariant holds of a pool that starts.                              *)
LEMMA InitPool == Init => PoolInv
<1> SUFFICES ASSUME Init PROVE PoolInv
  OBVIOUS
<1>1. <<>> \in Seq(Nat) /\ <<>> \in Seq(Sender) /\ Idle \in Work
  BY WorkType
<1>2. /\ hand \in [Sender -> Seq(Nat)]
      /\ worker \in [Worker -> Work]
  BY <1>1 DEF Init
<1>3. TypeOK
  BY <1>1, <1>2 DEF Init, TypeOK
<1> QED
  BY <1>3, WorkType DEF Init, PoolInv, Waiting, InOrder, WorkersLast

(* The claims, sends and ends of the senders keep the invariant.           *)
LEMMA SenderKeeps ==
  ASSUME PoolInv, NEW s \in Sender,
         (\E n \in 1..BatchSize : Claim(s, n)) \/ Send(s) \/ Park(s) \/ Stopped(s)
  PROVE  PoolInv'
<1>1. CASE \E n \in 1..BatchSize : Claim(s, n)
  <2>1. PICK n \in 1..BatchSize : Claim(s, n)
    BY <1>1
  <2>2. n \in Nat
    BY PoolAssumption
  <2>3. [k \in 1..n |-> 0] \in Seq(Nat)
    BY <2>2
  <2>4. TypeOK'
    BY <2>1, <2>3 DEF Claim, PoolInv, TypeOK
  <2>5. \A m \in 1..Len(sendq) : sendq[m] \in Sender /\ sendq[m] # s
    BY <2>1 DEF Claim, PoolInv, TypeOK, Waiting
  <2>6. \A t \in Sender : t # s => hand'[t] = hand[t]
    BY <2>1 DEF Claim, PoolInv, TypeOK
  <2> QED
    BY <2>1, <2>4, <2>5, <2>6 DEF Claim, PoolInv, Waiting, InOrder, WorkersLast, TypeOK
<1>2. CASE Send(s)
  <2>1. /\ channel \in Seq(Nat) /\ hand[s] \in Seq(Nat) /\ hand[s] # <<>>
        /\ hand \in [Sender -> Seq(Nat)]
    BY <1>2 DEF Send, PoolInv, TypeOK
  <2>2. Head(hand[s]) \in Nat /\ Tail(hand[s]) \in Seq(Nat)
    BY <2>1, HeadTail
  <2>3. TypeOK'
    BY <1>2, <2>1, <2>2 DEF Send, PoolInv, TypeOK
  <2>4. sendq = <<>> /\ sendq' = <<>>
    BY <1>2, <2>1, NumbersType DEF Send, PoolInv, Waiting
  <2>5. s \notin stopped /\ ~ closed
    BY <1>2 DEF Send, PoolInv, InOrder
  <2>6. \A t \in Sender : t # s => hand'[t] = hand[t]
    BY <1>2, <2>1 DEF Send
  <2>7. Waiting'
    BY <2>4 DEF Waiting
  <2> QED
    BY <1>2, <2>3, <2>5, <2>6, <2>7 DEF Send, PoolInv, InOrder, WorkersLast, TypeOK
<1>3. CASE Park(s)
  <2>1. sendq \in Seq(Sender) /\ sendq' = Append(sendq, s) /\ Len(sendq) \in Nat
    BY <1>3 DEF Park, PoolInv, TypeOK
  <2>2. /\ sendq' \in Seq(Sender) /\ Len(sendq') = Len(sendq) + 1
        /\ \A n \in 1..Len(sendq) : sendq'[n] = sendq[n] /\ sendq[n] # s
        /\ sendq'[Len(sendq) + 1] = s
    BY <1>3, <2>1 DEF Park, Contains
  <2>3. TypeOK'
    BY <1>3, <2>2 DEF Park, PoolInv, TypeOK
  <2>4. \A n \in 1..Len(sendq') : n \in 1..Len(sendq) \/ n = Len(sendq) + 1
    BY <2>1, <2>2
  <2>5. Waiting'
    BY <1>3, <2>2, <2>4 DEF Park, PoolInv, Waiting, Capacity
  <2> QED
    BY <1>3, <2>3, <2>5 DEF Park, PoolInv, InOrder, WorkersLast
<1>4. CASE Stopped(s)
  <2>1. TypeOK' /\ Waiting'
    BY <1>4 DEF Stopped, PoolInv, TypeOK, Waiting, Capacity
  <2> QED
    BY <1>4, <2>1 DEF Stopped, PoolInv, InOrder, WorkersLast, TypeOK
<1> QED
  BY <1>1, <1>2, <1>3, <1>4

(* What the workers do keeps the invariant.                                *)
LEMMA WorkerKeeps ==
  ASSUME PoolInv, NEW w \in Worker, Receive(w) \/ Finish(w) \/ WorkerExits(w)
  PROVE  PoolInv'
<1>1. CASE Receive(w) /\ sendq = <<>>
  <2>1. channel \in Seq(Nat) /\ channel # <<>>
    BY <1>1 DEF Receive, PoolInv, TypeOK
  <2>2. Tail(channel) \in Seq(Nat) /\ Busy(Head(channel)) \in Work
    BY <2>1, HeadTail, WorkType
  <2>3. TypeOK'
    BY <1>1, <2>2 DEF Receive, PoolInv, TypeOK
  <2>4. Waiting'
    BY <1>1 DEF Receive, Waiting
  <2>5. \A v \in Worker : worker[v].state # "exited"
    BY <2>1 DEF PoolInv, WorkersLast
  <2>6. \A v \in Worker : worker'[v].state # "exited"
    BY <1>1, <2>1, <2>5, HeadTail, WorkType DEF Receive, PoolInv, TypeOK
  <2> QED
    BY <1>1, <2>3, <2>4, <2>5, <2>6 DEF Receive, PoolInv, InOrder, WorkersLast
<1>2. CASE Receive(w) /\ sendq # <<>>
  <2> DEFINE s == Head(sendq)
  <2>1. /\ channel \in Seq(Nat) /\ channel # <<>>
        /\ sendq \in Seq(Sender) /\ sendq # <<>>
        /\ hand \in [Sender -> Seq(Nat)]
    BY <1>2 DEF Receive, PoolInv, TypeOK
  <2>2. /\ s \in Sender /\ s = sendq[1] /\ Tail(sendq) \in Seq(Sender)
        /\ Len(Tail(sendq)) = Len(sendq) - 1 /\ Len(sendq) \in Nat \ {0}
        /\ \A n \in 1..Len(Tail(sendq)) : Tail(sendq)[n] = sendq[n + 1]
    BY <2>1, HeadTail
  <2>3. /\ Head(channel) \in Nat /\ Tail(channel) \in Seq(Nat)
        /\ Len(Tail(channel)) = Len(channel) - 1
    BY <2>1, HeadTail
  <2>4. hand[s] # <<>> /\ hand[s] \in Seq(Nat)
    BY <2>1, <2>2 DEF PoolInv, Waiting
  <2>5. Head(hand[s]) \in Nat /\ Tail(hand[s]) \in Seq(Nat)
    BY <2>4, HeadTail
  <2>6. /\ worker' = [worker EXCEPT ![w] = Busy(Head(channel))]
        /\ channel' = Append(Tail(channel), Head(hand[s]))
        /\ hand' = [hand EXCEPT ![s] = Tail(@)]
        /\ sendq' = Tail(sendq)
        /\ UNCHANGED <<main, stopped, closed>>
    BY <1>2 DEF Receive
  <2>7. channel' \in Seq(Nat) /\ Len(channel') = Len(channel)
    BY <2>1, <2>3, <2>5, <2>6
  <2>8. TypeOK'
    BY <2>1, <2>2, <2>3, <2>5, <2>6, <2>7, WorkType DEF PoolInv, TypeOK
  <2>9. \A t \in Sender : t # s => hand'[t] = hand[t]
    BY <2>1, <2>6
  <2>10. \A n \in 1..Len(sendq') : n + 1 \in 1..Len(sendq) /\ sendq'[n] = sendq[n + 1]
    BY <2>2, <2>6
  <2>11. \A n \in 1..Len(sendq') : sendq'[n] \in Sender /\ sendq'[n] # s
    BY <2>2, <2>10, <2>1 DEF PoolInv, Waiting
  <2>12. \A n \in 1..Len(sendq') : hand'[sendq'[n]] # <<>>
    BY <2>9, <2>10, <2>11 DEF PoolInv, Waiting
  <2>13. \A m, n \in 1..Len(sendq') : sendq'[m] = sendq'[n] => m = n
    BY <2>2, <2>6, <2>10 DEF PoolInv, Waiting
  <2>14. Waiting'
    BY <2>1, <2>7, <2>12, <2>13 DEF PoolInv, Waiting, Capacity
  <2>15. s \notin stopped /\ ~ closed
    BY <2>2, <2>4 DEF PoolInv, InOrder
  <2>16. \A v \in Worker : worker[v].state # "exited"
    BY <2>1 DEF PoolInv, WorkersLast
  <2>17. \A v \in Worker : worker'[v].state # "exited"
    BY <2>3, <2>6, <2>16, WorkType DEF PoolInv, TypeOK
  <2>18. InOrder'
    BY <2>6, <2>9, <2>15 DEF PoolInv, InOrder, TypeOK
  <2>19. WorkersLast'
    BY <2>6, <2>15, <2>17 DEF PoolInv, InOrder, WorkersLast
  <2> QED
    BY <2>8, <2>14, <2>18, <2>19 DEF PoolInv
<1>3. CASE Finish(w)
  <2>1. TypeOK' /\ Waiting'
    BY <1>3, WorkType DEF Finish, PoolInv, TypeOK, Waiting, Capacity
  <2>2. \A v \in Worker : worker'[v].state = "exited" => worker[v].state = "exited"
    BY <1>3, WorkType DEF Finish, PoolInv, TypeOK
  <2>3. main # "drained"
    BY <1>3 DEF Finish, PoolInv, WorkersLast
  <2> QED
    BY <1>3, <2>1, <2>2, <2>3 DEF Finish, PoolInv, InOrder, WorkersLast
<1>4. CASE WorkerExits(w)
  <2>1. TypeOK' /\ Waiting'
    BY <1>4, WorkType DEF WorkerExits, PoolInv, TypeOK, Waiting, Capacity
  <2>2. main # "drained"
    BY <1>4 DEF WorkerExits, PoolInv, WorkersLast
  <2> QED
    BY <1>4, <2>1, <2>2 DEF WorkerExits, PoolInv, InOrder, WorkersLast
<1> QED
  BY <1>1, <1>2, <1>3, <1>4

(* The stops of main keep the invariant.                                   *)
LEMMA MainKeeps ==
  ASSUME PoolInv, Cancel \/ ClosePool \/ PoolStopped
  PROVE  PoolInv'
<1>1. CASE Cancel
  <2>1. TypeOK' /\ Waiting'
    BY <1>1 DEF Cancel, PoolInv, TypeOK, Waiting, Capacity
  <2> QED
    BY <1>1, <2>1 DEF Cancel, PoolInv, InOrder, WorkersLast
<1>2. CASE ClosePool
  <2>1. TypeOK' /\ Waiting'
    BY <1>2 DEF ClosePool, PoolInv, TypeOK, Waiting, Capacity
  <2> QED
    BY <1>2, <2>1 DEF ClosePool, PoolInv, InOrder, WorkersLast
<1>3. CASE PoolStopped
  <2>1. TypeOK' /\ Waiting'
    BY <1>3 DEF PoolStopped, PoolInv, TypeOK, Waiting, Capacity
  <2> QED
    BY <1>3, <2>1 DEF PoolStopped, PoolInv, InOrder, WorkersLast
<1> QED
  BY <1>1, <1>2, <1>3

(* Older tasks are as many, in the same places.                            *)
LEMMA PeriodKeeps ==
  ASSUME PoolInv, PeriodEnds
  PROVE  PoolInv'
<1>1. \A q \in Seq(Nat) : LET older == [k \in DOMAIN q |-> Older(q[k])] IN
        older \in Seq(Nat) /\ Len(older) = Len(q) /\ (older = <<>> <=> q = <<>>)
  <2> SUFFICES ASSUME NEW q \in Seq(Nat)
               PROVE  LET older == [k \in DOMAIN q |-> Older(q[k])] IN
                      older \in Seq(Nat) /\ Len(older) = Len(q)
                      /\ (older = <<>> <=> q = <<>>)
    OBVIOUS
  <2>0. \A k \in 1..Len(q) : q[k] \in Nat
    OBVIOUS
  <2>1. DOMAIN q = 1..Len(q) /\ Len(q) \in Nat
    OBVIOUS
  <2> DEFINE older == [k \in 1..Len(q) |-> Older(q[k])]
  <2>2. older \in Seq(Nat) /\ Len(older) = Len(q)
    <3>1. \A k \in 1..Len(q) : Older(q[k]) \in Nat
      <4> TAKE k \in 1..Len(q)
      <4>1. q[k] \in Nat
        BY <2>0
      <4> QED
        BY <4>1, NumbersType
    <3> QED
      BY <2>1, <3>1
  <2>3. older = <<>> <=> q = <<>>
    BY <2>1, <2>2
  <2> QED
    BY <2>1, <2>2, <2>3
<1>2. /\ hand' \in [Sender -> Seq(Nat)]
      /\ \A s \in Sender : hand'[s] = <<>> <=> hand[s] = <<>>
  BY <1>1 DEF PeriodEnds, PoolInv, TypeOK
<1>3. channel' \in Seq(Nat) /\ Len(channel') = Len(channel)
      /\ (channel' = <<>> <=> channel = <<>>)
  BY <1>1 DEF PeriodEnds, PoolInv, TypeOK
<1>4. \A w \in Worker : LET old == [Busy(Older(worker[w].age)) EXCEPT !.late = TRUE] IN
        old \in Work /\ old.state = "busy"
  BY NumbersType DEF PoolInv, TypeOK, Work, Busy
<1>5. /\ worker' \in [Worker -> Work]
      /\ \A w \in Worker : worker'[w].state = worker[w].state
  BY <1>4 DEF PeriodEnds, PoolInv, TypeOK
<1>6. TypeOK'
  BY <1>2, <1>3, <1>5 DEF PeriodEnds, PoolInv, TypeOK
<1>7. \A n \in 1..Len(sendq) : sendq[n] \in Sender
  BY DEF PoolInv, TypeOK
<1>8. Waiting'
  BY <1>2, <1>3, <1>7 DEF PeriodEnds, PoolInv, Waiting, Capacity
<1> QED
  BY <1>2, <1>3, <1>5, <1>6, <1>8
  DEF PeriodEnds, PoolInv, TypeOK, InOrder, WorkersLast

(* Every step keeps the invariant.                                         *)
LEMMA NextPool == PoolInv /\ [Next]_vars => PoolInv'
<1> SUFFICES ASSUME PoolInv, [Next]_vars PROVE PoolInv'
  OBVIOUS
<1>1. CASE SenderNext
  <2>1. "dispatcher" \in Sender /\ "consumer" \in Sender /\ 1 \in 1..BatchSize
    BY PoolAssumption DEF Sender
  <2>2. CASE ClaimTasks
    BY <2>1, <2>2, SenderKeeps DEF ClaimTasks
  <2>3. CASE ClaimTask
    BY <2>1, <2>3, SenderKeeps DEF ClaimTask
  <2>4. CASE \E s \in Sender : Send(s) \/ Park(s) \/ Stopped(s)
    BY <2>4, SenderKeeps
  <2> QED
    BY <1>1, <2>2, <2>3, <2>4 DEF SenderNext
<1>2. CASE WorkerNext
  BY <1>2, WorkerKeeps DEF WorkerNext
<1>3. CASE MainNext
  BY <1>3, MainKeeps DEF MainNext
<1>4. CASE PeriodEnds
  BY <1>4, PeriodKeeps
<1>5. CASE UNCHANGED vars
  BY <1>5 DEF vars, PoolInv, TypeOK, Waiting, InOrder, WorkersLast, Capacity
<1> QED
  BY <1>1, <1>2, <1>3, <1>4, <1>5 DEF Next

(* The pool's channel is closed only when nobody sends to it any more.     *)
THEOREM ClosedLast == Spec => []NoSendOnClosed
<1>1. PoolInv => NoSendOnClosed
  <2> SUFFICES ASSUME PoolInv, closed, NEW s \in Sender
               PROVE  s \in stopped /\ hand[s] = <<>> /\ ~ Contains(sendq, s)
    BY DEF NoSendOnClosed
  <2>1. s \in stopped /\ hand[s] = <<>>
    BY DEF PoolInv, InOrder
  <2>2. ASSUME Contains(sendq, s) PROVE FALSE
    BY <2>1, <2>2 DEF Contains, PoolInv, Waiting, TypeOK
  <2> QED
    BY <2>1, <2>2
<1> QED
  BY <1>1, InitPool, NextPool, PTL DEF Spec

(* A pool that has stopped left no claimed task in a hand or the channel.  *)
THEOREM PoolDrained == Spec => []NothingLeftBehind
<1>1. PoolInv => NothingLeftBehind
  BY PoolAssumption DEF PoolInv, InOrder, WorkersLast, NothingLeftBehind
<1> QED
  BY <1>1, InitPool, NextPool, PTL DEF Spec

-----------------------------------------------------------------------------
(***************************************************************************)
(* The age of the locks.  A claimed task has a rank, the number of tasks   *)
(* that workers may take before it.  While tasks wait, a period of the     *)
(* pool takes as many of them as there are workers: the older a task, the  *)
(* smaller its rank.                                                       *)
(***************************************************************************)
Size == Cardinality(Worker)

\* Workers that can take a task in the current period.
Free == {w \in Worker : worker[w].state = "idle" \/ worker[w].late}

First(s) == sendq # <<>> /\ sendq[1] = s

\* The consumer may send one task before the next of the dispatcher, ...
Overtaking == IF hand["consumer"] = <<>> \/ First("dispatcher") THEN 0 ELSE 1

DispatcherRank(k) == Len(channel) + 2 * (k - 1) + Overtaking

\* ... and the dispatcher one before that of the consumer, which waits for room.
ConsumerRank == 2 * Size + (IF First("consumer") THEN 0 ELSE 1)

\* A rank that is that low when the task has that age.
Fits(age, rank, free) == age * Size + rank < 2 * Size + 2 * BatchSize + free

QueueFits ==
  LET fits(age, rank) == Fits(age, rank, Cardinality(Free)) IN
  /\ \A k \in 1..Len(channel) : fits(channel[k], k - 1)
  /\ \A k \in 1..Len(hand["dispatcher"]) : fits(hand["dispatcher"][k], DispatcherRank(k))
  /\ \A k \in 1..Len(hand["consumer"]) : fits(hand["consumer"][k], ConsumerRank)

\* Hands hold a claim at most, and the consumer's is young until it waits.
HandsFit ==
  /\ Len(channel) <= 2 * Size
  /\ Len(hand["dispatcher"]) <= BatchSize
  /\ Len(hand["consumer"]) <= 1
  /\ hand["consumer"] # <<>> /\ ~ Contains(sendq, "consumer") => hand["consumer"][1] = 0

WorkFits(work) ==
  /\ work.late => work.state = "busy"
  /\ work.age <= HeldBound
  /\ ~ work.late => work.age <= HeldBound - 1

AgeInv == PoolInv /\ QueueFits /\ HandsFit /\ \A w \in Worker : WorkFits(worker[w])

(* The sizes are numbers.                                                  *)
LEMMA SizeType ==
  /\ Size \in Nat \ {0} /\ BatchSize \in Nat \ {0} /\ Capacity = 2 * Size
  /\ "dispatcher" \in Sender /\ "consumer" \in Sender
  /\ \A s \in Sender : s = "dispatcher" \/ s = "consumer"
<1>1. Cardinality(Worker) \in Nat /\ Cardinality(Worker) # 0
  BY PoolAssumption, FS_CardinalityType, FS_EmptySet
<1> QED
  BY <1>1, PoolAssumption DEF Size, Capacity, Sender

(* The ages of tasks of lower ranks, new tasks, older tasks, and the last. *)
LEMMA FitsFacts ==
  /\ HeldBound \in Nat /\ HeldBound >= 1
  /\ \A age, rank, free, lower, more \in Nat :
       Fits(age, rank, free) /\ lower + free <= rank + more => Fits(age, lower, more)
  /\ \A rank, free \in Nat : rank < 2 * Size + 2 * BatchSize + free => Fits(0, rank, free)
  /\ \A age, rank \in Nat : Fits(age, rank, 0) => Fits(Older(age), rank, Size)
  /\ \A age, free \in Nat : Fits(age, 0, free) /\ free <= Size => age <= HeldBound - 1
<1> DEFINE d == (2 * BatchSize + Size - 1) \div Size
           r == (2 * BatchSize + Size - 1) % Size
<1>1. Size \in Nat \ {0} /\ BatchSize \in Nat \ {0}
  BY SizeType
<1>2. d \in Nat /\ r \in 0..(Size - 1) /\ 2 * BatchSize + Size - 1 = Size * d + r
  BY <1>1, SMTT(30)
<1>3. HeldBound = d + 3
  BY DEF HeldBound, Size
<1> HIDE DEF d, r
<1>4. ASSUME NEW age \in Nat
      PROVE  age * Size \in Nat /\ (age + 1) * Size = age * Size + Size
  BY <1>1
<1>5. ASSUME NEW age \in Nat, NEW rank \in Nat, NEW free \in Nat, NEW lower \in Nat,
             NEW more \in Nat, Fits(age, rank, free), lower + free <= rank + more
      PROVE  Fits(age, lower, more)
  BY <1>1, <1>4, <1>5 DEF Fits
<1>6. \A rank, free \in Nat : rank < 2 * Size + 2 * BatchSize + free => Fits(0, rank, free)
  BY <1>1 DEF Fits
<1>7. ASSUME NEW age \in Nat, NEW rank \in Nat, Fits(age, rank, 0)
      PROVE  Fits(Older(age), rank, Size)
  <2>1. Older(age) = age \/ Older(age) = age + 1
    BY DEF Older
  <2> QED
    BY <1>1, <1>4, <1>7, <2>1 DEF Fits
<1>8. ASSUME NEW age \in Nat, NEW free \in Nat, Fits(age, 0, free), free <= Size
      PROVE  age <= d + 2
  <2>1. SUFFICES ASSUME age >= d + 3 PROVE FALSE
    BY <1>2
  <2>2. PICK n \in Nat : age = d + 3 + n
    <3>1. age - (d + 3) \in Nat /\ age = d + 3 + (age - (d + 3))
      BY <1>2, <2>1
    <3> QED
      BY <3>1
  <2>3. age * Size = Size * d + 3 * Size + n * Size /\ n * Size \in Nat
    BY <1>1, <1>2, <2>2
  <2> QED
    BY <1>1, <1>2, <1>4, <1>8, <2>3 DEF Fits
<1> QED
  BY <1>2, <1>3, <1>5, <1>6, <1>7, <1>8

(* A task that fits does so at a lower rank and with more free workers.    *)
LEMMA FitsLower ==
  ASSUME NEW age \in Nat, NEW rank \in Nat, NEW free \in Nat, NEW lower \in Nat,
         NEW more \in Nat, Fits(age, rank, free), lower + free <= rank + more
  PROVE  Fits(age, lower, more)
  BY FitsFacts

(* There are as many free workers as workers at most.                      *)
LEMMA FreeType ==
  /\ IsFiniteSet(Free) /\ Cardinality(Free) \in Nat /\ Cardinality(Free) <= Size
  /\ IsFiniteSet(Free') /\ Cardinality(Free') \in Nat /\ Cardinality(Free') <= Size
<1>1. Free \subseteq Worker /\ Free' \subseteq Worker
  BY DEF Free
<1> QED
  BY <1>1, PoolAssumption, FS_Subset, FS_CardinalityType DEF Size

(* The numbers behind a rank, and the types that the proofs below need.    *)
LEMMA RankType ==
  ASSUME PoolInv
  PROVE  /\ channel \in Seq(Nat) /\ Len(channel) \in Nat
         /\ \A s \in Sender : hand[s] \in Seq(Nat) /\ Len(hand[s]) \in Nat
         /\ \A w \in Worker : worker[w] \in Work
         /\ \A n \in 1..Len(sendq) : sendq[n] \in Sender
         /\ sendq \in Seq(Sender) /\ Len(sendq) \in Nat
  BY DEF PoolInv, TypeOK

(* A pool that starts holds no lock.                                       *)
LEMMA InitAge == Init => AgeInv
<1> SUFFICES ASSUME Init PROVE AgeInv
  OBVIOUS
<1>1. PoolInv
  BY InitPool
<1>2. \A s \in Sender : hand[s] = <<>>
  BY DEF Init
<1>3. QueueFits /\ HandsFit
  BY <1>2, SizeType DEF Init, QueueFits, HandsFit
<1>4. \A w \in Worker : worker[w] = Idle
  BY DEF Init
<1>5. WorkFits(Idle)
  BY FitsFacts DEF WorkFits, Idle
<1> QED
  BY <1>1, <1>3, <1>4, <1>5 DEF AgeInv

(* Ranks are numbers, and the consumer's is the highest.                   *)
LEMMA RankBound ==
  ASSUME PoolInv
  PROVE  /\ ConsumerRank \in Nat /\ ConsumerRank <= 2 * Size + 1
         /\ ConsumerRank < 2 * Size + 2 * BatchSize + Cardinality(Free)
         /\ \A k \in Nat \ {0} : DispatcherRank(k) \in Nat /\ DispatcherRank(k) >= Len(channel)
  BY SizeType, RankType, FreeType DEF ConsumerRank, DispatcherRank, Overtaking

(* A hand of one task is empty when it is sent.                            *)
LEMMA OneTask ==
  ASSUME NEW q \in Seq(Nat), q # <<>>, Len(q) <= 1
  PROVE  Tail(q) = <<>> /\ Len(Tail(q)) = 0
<1>1. Tail(q) \in Seq(Nat) /\ Len(Tail(q)) = Len(q) - 1 /\ Len(q) \in Nat \ {0}
  BY HeadTail
<1>2. Len(Tail(q)) = 0
  BY <1>1
<1> QED
  BY <1>1, <1>2, EmptySeq

(* A claim is young, and there is room for its rank.                       *)
LEMMA ClaimFits ==
  ASSUME AgeInv, PoolInv', Settled, ClaimTasks \/ ClaimTask
  PROVE  AgeInv'
<1> USE SizeType, FreeType
<1>0. PoolInv
  BY DEF AgeInv
<1>1. Cardinality(Free') = Cardinality(Free)
  BY DEF ClaimTasks, ClaimTask, Claim, Free
<1>2. \A w \in Worker : WorkFits(worker'[w])
  BY DEF ClaimTasks, ClaimTask, Claim, AgeInv
<1>3. ASSUME ClaimTasks PROVE QueueFits' /\ HandsFit'
  <2>1. PICK n \in 1..BatchSize : Claim("dispatcher", n)
    BY <1>3 DEF ClaimTasks
  <2>2. /\ hand' = [hand EXCEPT !["dispatcher"] = [k \in 1..n |-> 0]]
        /\ UNCHANGED <<channel, sendq, worker>>
    BY <2>1 DEF Claim
  <2>3. /\ hand'["dispatcher"] = [k \in 1..n |-> 0]
        /\ hand'["consumer"] = hand["consumer"]
    BY <1>0, <2>2 DEF PoolInv, TypeOK
  <2>4. n \in Nat /\ Len(hand'["dispatcher"]) = n
        /\ \A k \in 1..n : hand'["dispatcher"][k] = 0
    BY <2>3
  <2>5. HandsFit'
    BY <2>2, <2>3, <2>4 DEF AgeInv, HandsFit
  <2>6. \A k \in 1..n : /\ DispatcherRank(k)' \in Nat
                        /\ DispatcherRank(k)' < 2 * Size + 2 * BatchSize + Cardinality(Free)
    BY <1>0, <2>2, <2>4, RankType DEF AgeInv, HandsFit, DispatcherRank, Overtaking
  <2>7. \A k \in 1..n : Fits(hand'["dispatcher"][k], DispatcherRank(k)', Cardinality(Free'))
    BY <1>1, <2>4, <2>6, FitsFacts
  <2>8. ConsumerRank' = ConsumerRank
    BY <2>2 DEF ConsumerRank, First
  <2>9. QueueFits'
    BY <1>1, <2>2, <2>3, <2>4, <2>7, <2>8 DEF AgeInv, QueueFits
  <2> QED
    BY <2>5, <2>9
<1>4. ASSUME ClaimTask PROVE QueueFits' /\ HandsFit'
  <2>1. /\ hand["consumer"] = <<>>
        /\ hand' = [hand EXCEPT !["consumer"] = [k \in 1..1 |-> 0]]
        /\ UNCHANGED <<channel, sendq, worker>>
    BY <1>4 DEF ClaimTask, Claim
  <2>2. /\ hand'["consumer"] = [k \in 1..1 |-> 0]
        /\ hand'["dispatcher"] = hand["dispatcher"]
    BY <1>0, <2>1 DEF PoolInv, TypeOK
  <2>3. Len(hand'["consumer"]) = 1 /\ hand'["consumer"][1] = 0
    BY <2>2
  <2>4. HandsFit'
    BY <2>1, <2>2, <2>3 DEF AgeInv, HandsFit
  <2>5. hand["dispatcher"] # <<>> => First("dispatcher")
    <3> SUFFICES ASSUME hand["dispatcher"] # <<>> PROVE First("dispatcher")
      OBVIOUS
    <3>1. PICK n \in 1..Len(sendq) : sendq[n] = "dispatcher"
      BY DEF Settled, Contains
    <3>2. 1 \in 1..Len(sendq) /\ sendq # <<>> /\ sendq[1] \in Sender
      BY <1>0, <3>1, RankType
    <3>3. sendq[1] # "consumer"
      BY <1>0, <2>1, <3>2 DEF PoolInv, Waiting
    <3> QED
      BY <3>2, <3>3 DEF First
  <2>6. \A k \in 1..Len(hand["dispatcher"]) : DispatcherRank(k)' = DispatcherRank(k)
    BY <2>1, <2>2, <2>5 DEF DispatcherRank, Overtaking, First
  <2>7. ConsumerRank' = ConsumerRank
    BY <2>1 DEF ConsumerRank, First
  <2>8. Fits(0, ConsumerRank', Cardinality(Free'))
    BY <1>0, <1>1, <2>7, RankBound, FitsFacts
  <2>9. \A k \in 1..Len(hand'["consumer"]) :
          Fits(hand'["consumer"][k], ConsumerRank', Cardinality(Free'))
    BY <2>3, <2>8
  <2>10. QueueFits'
    BY <1>1, <2>1, <2>2, <2>6, <2>9 DEF AgeInv, QueueFits
  <2> QED
    BY <2>4, <2>10
<1> QED
  BY <1>2, <1>3, <1>4 DEF AgeInv

(* A task that is sent takes the next place of the channel.                *)
LEMMA SendFits ==
  ASSUME AgeInv, PoolInv', NEW s \in Sender, Send(s)
  PROVE  AgeInv'
<1> USE SizeType, FreeType
<1>1. PoolInv
  BY DEF AgeInv
<1>2. /\ channel \in Seq(Nat) /\ Len(channel) \in Nat /\ Len(channel) < Capacity
      /\ hand[s] \in Seq(Nat) /\ hand[s] # <<>>
      /\ hand \in [Sender -> Seq(Nat)]
      /\ channel' = Append(channel, Head(hand[s]))
      /\ hand' = [hand EXCEPT ![s] = Tail(@)]
      /\ UNCHANGED <<sendq, worker>>
  BY <1>1, RankType DEF Send, PoolInv, TypeOK
<1>3. /\ Len(hand[s]) \in Nat \ {0} /\ Len(Tail(hand[s])) = Len(hand[s]) - 1
      /\ Head(hand[s]) = hand[s][1] /\ Head(hand[s]) \in Nat
      /\ \A k \in 1..Len(Tail(hand[s])) : Tail(hand[s])[k] = hand[s][k + 1]
  BY <1>2, HeadTail
<1>4. /\ Len(channel') = Len(channel) + 1
      /\ \A k \in 1..Len(channel) : channel'[k] = channel[k]
      /\ channel'[Len(channel) + 1] = hand[s][1]
  BY <1>2, <1>3
<1>5. sendq = <<>> /\ sendq' = <<>>
  BY <1>1, <1>2 DEF PoolInv, Waiting
<1>6. /\ ~ First("dispatcher") /\ ~ First("consumer")
      /\ ~ First("dispatcher")' /\ ~ First("consumer")'
  BY <1>5 DEF First
<1>7. Cardinality(Free') = Cardinality(Free)
  BY <1>2 DEF Free
<1>8. ConsumerRank' = ConsumerRank
  BY <1>6 DEF ConsumerRank
<1>9. \A w \in Worker : WorkFits(worker'[w])
  BY <1>2 DEF AgeInv
<1>10. ASSUME NEW rank \in Nat, rank >= Len(channel),
              Fits(hand[s][1], rank, Cardinality(Free))
       PROVE  \A k \in 1..Len(channel') : Fits(channel'[k], k - 1, Cardinality(Free'))
  <2>1. hand[s][1] \in Nat /\ Len(channel) \in Nat
    BY <1>2, <1>3
  <2>2. Fits(hand[s][1], Len(channel), Cardinality(Free))
    BY <1>10, <2>1, FitsLower
  <2>3. \A k \in 1..Len(channel) : Fits(channel[k], k - 1, Cardinality(Free))
    BY DEF AgeInv, QueueFits
  <2> TAKE k \in 1..Len(channel')
  <2>4. k \in 1..Len(channel) \/ k = Len(channel) + 1
    BY <1>4, <2>1
  <2>5. CASE k \in 1..Len(channel)
    BY <1>4, <1>7, <2>3, <2>5
  <2>6. CASE k = Len(channel) + 1
    <3>1. k - 1 = Len(channel) /\ channel'[k] = hand[s][1]
      BY <1>4, <2>1, <2>6
    <3> QED
      BY <1>7, <2>2, <3>1
  <2> QED
    BY <2>4, <2>5, <2>6
<1>11. CASE s = "dispatcher"
  <2>1. hand'["dispatcher"] = Tail(hand["dispatcher"]) /\ hand'["consumer"] = hand["consumer"]
    BY <1>2, <1>11
  <2>2. HandsFit'
    BY <1>2, <1>3, <1>4, <1>11, <2>1 DEF AgeInv, HandsFit
  <2>3. \A k \in 1..Len(hand'["dispatcher"]) :
          /\ k + 1 \in 1..Len(hand["dispatcher"])
          /\ hand'["dispatcher"][k] = hand["dispatcher"][k + 1]
          /\ hand["dispatcher"][k + 1] \in Nat
          /\ DispatcherRank(k)' \in Nat /\ DispatcherRank(k + 1) \in Nat
          /\ DispatcherRank(k)' <= DispatcherRank(k + 1)
    <3>1. \A k \in Nat \ {0} : /\ DispatcherRank(k)' \in Nat /\ DispatcherRank(k + 1) \in Nat
                               /\ DispatcherRank(k)' <= DispatcherRank(k + 1)
      <4>1. Overtaking' = Overtaking /\ Overtaking \in {0, 1}
        BY <1>6, <2>1 DEF Overtaking
      <4> QED
        BY <1>2, <1>4, <4>1 DEF DispatcherRank
    <3>2. \A k \in 1..Len(hand'["dispatcher"]) :
            /\ k + 1 \in 1..Len(hand["dispatcher"])
            /\ hand'["dispatcher"][k] = hand["dispatcher"][k + 1]
      BY <1>3, <1>11, <2>1
    <3>3. \A k \in 1..Len(hand["dispatcher"]) : hand["dispatcher"][k] \in Nat
      BY <1>1, RankType
    <3> TAKE k \in 1..Len(hand'["dispatcher"])
    <3>4. k \in Nat \ {0}
      OBVIOUS
    <3> QED
      BY <3>1, <3>2, <3>3, <3>4
  <2>4. \A k \in 1..Len(channel') : Fits(channel'[k], k - 1, Cardinality(Free'))
    <3>1. /\ DispatcherRank(1) \in Nat /\ DispatcherRank(1) >= Len(channel)
          /\ 1 \in 1..Len(hand["dispatcher"])
      BY <1>1, <1>3, <1>11, RankBound
    <3>2. Fits(hand["dispatcher"][1], DispatcherRank(1), Cardinality(Free))
      BY <3>1 DEF AgeInv, QueueFits
    <3> QED
      BY <1>10, <1>11, <3>1, <3>2
  <2>5. \A k \in 1..Len(hand'["dispatcher"]) :
          Fits(hand["dispatcher"][k + 1], DispatcherRank(k + 1), Cardinality(Free))
    BY <2>3 DEF AgeInv, QueueFits
  <2>6. \A k \in 1..Len(hand'["dispatcher"]) :
          Fits(hand'["dispatcher"][k], DispatcherRank(k)', Cardinality(Free'))
    <3> TAKE k \in 1..Len(hand'["dispatcher"])
    <3> DEFINE lower == DispatcherRank(k)'
               rank  == DispatcherRank(k + 1)
               age   == hand["dispatcher"][k + 1]
    <3>1. Fits(age, rank, Cardinality(Free))
      BY <2>5
    <3>2. age \in Nat /\ rank \in Nat /\ lower \in Nat /\ lower <= rank
      BY <2>3
    <3> HIDE DEF lower, rank, age
    <3>3. Fits(age, lower, Cardinality(Free))
      BY <3>1, <3>2, FitsLower
    <3> QED
      BY <1>7, <2>3, <3>3 DEF lower, age
  <2>7. QueueFits'
    BY <1>7, <1>8, <2>1, <2>4, <2>6 DEF AgeInv, QueueFits
  <2> QED
    BY <1>9, <2>2, <2>7 DEF AgeInv
<1>12. CASE s = "consumer"
  <2>1. hand'["consumer"] = Tail(hand["consumer"]) /\ hand'["dispatcher"] = hand["dispatcher"]
    BY <1>2, <1>12
  <2>2. Len(hand["consumer"]) <= 1
    BY DEF AgeInv, HandsFit
  <2>3. hand'["consumer"] = <<>> /\ Len(hand'["consumer"]) = 0
    BY <1>2, <1>12, <2>1, <2>2, OneTask
  <2>4. HandsFit'
    <3>1. Len(channel') <= 2 * Size
      BY <1>2, <1>4
    <3> QED
      BY <2>1, <2>3, <3>1 DEF AgeInv, HandsFit
  <2>5. \A k \in 1..Len(hand["dispatcher"]) : DispatcherRank(k)' = DispatcherRank(k)
    <3>1. Overtaking = 1 /\ Overtaking' = 0
      BY <1>2, <1>6, <1>12, <2>3 DEF Overtaking
    <3> QED
      BY <1>2, <1>4, <3>1 DEF DispatcherRank
  <2>6. \A k \in 1..Len(channel') : Fits(channel'[k], k - 1, Cardinality(Free'))
    <3>1. ConsumerRank \in Nat /\ ConsumerRank >= Len(channel)
      BY <1>2 DEF ConsumerRank
    <3>2. Fits(hand["consumer"][1], ConsumerRank, Cardinality(Free))
      BY <1>3, <1>12 DEF AgeInv, QueueFits
    <3> QED
      BY <1>10, <1>12, <3>1, <3>2
  <2>7. QueueFits'
    BY <1>7, <2>1, <2>3, <2>5, <2>6 DEF AgeInv, QueueFits
  <2> QED
    BY <1>9, <2>4, <2>7 DEF AgeInv
<1> QED
  BY <1>11, <1>12

(* A sender that begins to wait comes no later than it would have.         *)
LEMMA ParkFits ==
  ASSUME AgeInv, PoolInv', NEW s \in Sender, Park(s)
  PROVE  AgeInv'
<1> USE SizeType, FreeType
<1>1. PoolInv
  BY DEF AgeInv
<1>2. /\ sendq \in Seq(Sender) /\ sendq' = Append(sendq, s)
      /\ UNCHANGED <<hand, channel, worker>>
      /\ ~ Contains(sendq, s)
  BY <1>1 DEF Park, PoolInv, TypeOK
<1>3. /\ Len(sendq) \in Nat /\ sendq' # <<>>
      /\ sendq # <<>> => sendq'[1] = sendq[1]
      /\ \A n \in 1..Len(sendq) : sendq'[n] = sendq[n]
      /\ Len(sendq') = Len(sendq) + 1
  BY <1>2
<1>4. \A t \in Sender : First(t) => First(t)'
  BY <1>3 DEF First
<1>5. ~ Contains(sendq', "consumer") => ~ Contains(sendq, "consumer")
  BY <1>3 DEF Contains
<1>6. HandsFit' /\ \A w \in Worker : WorkFits(worker'[w])
  BY <1>2, <1>5 DEF AgeInv, HandsFit
<1>7. Cardinality(Free') = Cardinality(Free)
  BY <1>2 DEF Free
<1>8. /\ ConsumerRank \in Nat /\ ConsumerRank' \in Nat /\ ConsumerRank' <= ConsumerRank
      /\ \A k \in Nat \ {0} : /\ DispatcherRank(k)' <= DispatcherRank(k)
                              /\ DispatcherRank(k) \in Nat /\ DispatcherRank(k)' \in Nat
  BY <1>1, <1>2, <1>4, RankType DEF ConsumerRank, DispatcherRank, Overtaking
<1>9. ASSUME NEW age \in Nat, NEW rank \in Nat, NEW lower \in Nat, lower <= rank,
             Fits(age, rank, Cardinality(Free))
      PROVE  Fits(age, lower, Cardinality(Free))
  BY <1>9, FitsLower
<1>10. \A k \in 1..Len(hand["dispatcher"]) :
         Fits(hand["dispatcher"][k], DispatcherRank(k)', Cardinality(Free))
  <2> TAKE k \in 1..Len(hand["dispatcher"])
  <2>1. Fits(hand["dispatcher"][k], DispatcherRank(k), Cardinality(Free))
    BY DEF AgeInv, QueueFits
  <2>2. k \in Nat \ {0} /\ hand["dispatcher"][k] \in Nat
    BY <1>1, RankType
  <2> QED
    BY <1>8, <1>9, <2>1, <2>2
<1>11. \A k \in 1..Len(hand["consumer"]) :
         Fits(hand["consumer"][k], ConsumerRank', Cardinality(Free))
  <2> TAKE k \in 1..Len(hand["consumer"])
  <2>1. Fits(hand["consumer"][k], ConsumerRank, Cardinality(Free))
    BY DEF AgeInv, QueueFits
  <2>2. hand["consumer"][k] \in Nat
    BY <1>1, RankType
  <2> QED
    BY <1>8, <1>9, <2>1, <2>2
<1>12. QueueFits'
  BY <1>2, <1>7, <1>10, <1>11 DEF AgeInv, QueueFits
<1> QED
  BY <1>6, <1>12 DEF AgeInv

(* A worker that receives a task is busy until the period ends, its task   *)
(* is young enough, and all that waits in the channel is one place further. *)
LEMMA ReceiveFrees ==
  ASSUME AgeInv, PoolInv', NEW w \in Worker, Receive(w)
  PROVE  /\ Cardinality(Free') = Cardinality(Free) - 1
         /\ Cardinality(Free) \in Nat /\ Cardinality(Free') \in Nat
         /\ \A v \in Worker : WorkFits(worker'[v])
         /\ Tail(channel) \in Seq(Nat) /\ Len(Tail(channel)) = Len(channel) - 1
         /\ Len(channel) \in Nat \ {0}
         /\ \A age, rank, lower \in Nat : Fits(age, rank, Cardinality(Free)) /\ lower < rank
                                            => Fits(age, lower, Cardinality(Free'))
         /\ \A k \in 1..Len(Tail(channel)) :
              Fits(Tail(channel)[k], k - 1, Cardinality(Free'))
<1>1. PoolInv
  BY DEF AgeInv
<1>2. /\ worker[w].state = "idle" /\ worker \in [Worker -> Work]
      /\ channel \in Seq(Nat) /\ channel # <<>>
      /\ worker' = [worker EXCEPT ![w] = Busy(Head(channel))]
  BY <1>1 DEF Receive, PoolInv, TypeOK
<1>3. /\ Head(channel) \in Nat /\ Tail(channel) \in Seq(Nat) /\ Head(channel) = channel[1]
      /\ Len(Tail(channel)) = Len(channel) - 1 /\ Len(channel) \in Nat \ {0}
      /\ \A k \in 1..Len(Tail(channel)) : Tail(channel)[k] = channel[k + 1]
  BY <1>2, HeadTail
<1>4. Cardinality(Free) \in Nat /\ Cardinality(Free) <= Size /\ Cardinality(Free') \in Nat
  BY FreeType
<1>5. Cardinality(Free') = Cardinality(Free) - 1
  <2>1. worker'[w] = Busy(Head(channel)) /\ \A v \in Worker : v # w => worker'[v] = worker[v]
    BY <1>2
  <2>2. Busy(Head(channel)).state = "busy" /\ Busy(Head(channel)).late = FALSE
    BY DEF Busy
  <2>3. w \in Free /\ Free' = Free \ {w}
    BY <1>2, <2>1, <2>2 DEF Free
  <2> QED
    BY <2>3, FreeType, FS_RemoveElement
<1>6. ASSUME NEW age \in Nat, NEW rank \in Nat, NEW lower \in Nat,
             Fits(age, rank, Cardinality(Free)), lower < rank
      PROVE  Fits(age, lower, Cardinality(Free'))
  BY <1>4, <1>5, <1>6, FitsLower
<1>7. \A k \in 1..Len(channel) : Fits(channel[k], k - 1, Cardinality(Free))
  BY DEF AgeInv, QueueFits
<1>8. \A k \in 1..Len(Tail(channel)) : Fits(Tail(channel)[k], k - 1, Cardinality(Free'))
  <2> TAKE k \in 1..Len(Tail(channel))
  <2>1. k + 1 \in 1..Len(channel) /\ k \in Nat /\ k - 1 \in Nat /\ k - 1 < k
    BY <1>3
  <2>2. Fits(channel[k + 1], (k + 1) - 1, Cardinality(Free))
    BY <1>7, <2>1
  <2>3. (k + 1) - 1 = k /\ channel[k + 1] \in Nat
    BY <1>2, <2>1
  <2> QED
    BY <1>3, <1>6, <2>1, <2>2, <2>3
<1>9. \A v \in Worker : WorkFits(worker'[v])
  <2>1. Fits(channel[1], 1 - 1, Cardinality(Free)) /\ 1 - 1 = 0
    BY <1>3, <1>7
  <2>2. channel[1] <= HeldBound - 1
    BY <1>3, <1>4, <2>1, FitsFacts
  <2>3. WorkFits(Busy(Head(channel)))
    BY <1>3, <2>2, FitsFacts DEF WorkFits, Busy
  <2> QED
    BY <1>2, <2>3 DEF AgeInv
<1> QED
  BY <1>3, <1>4, <1>5, <1>6, <1>8, <1>9

(* When nobody waits for room, everything moves up.                        *)
LEMMA ReceiveFits ==
  ASSUME AgeInv, PoolInv', NEW w \in Worker, Receive(w), sendq = <<>>
  PROVE  AgeInv'
<1>1. PoolInv
  BY DEF AgeInv
<1>2. channel' = Tail(channel) /\ hand' = hand /\ sendq' = <<>>
  BY DEF Receive
<1>3. ~ First("consumer") /\ ~ First("consumer")' /\ ~ First("dispatcher")
      /\ ~ First("dispatcher")' /\ ~ Contains(sendq, "consumer")
  BY <1>2 DEF First, Contains
<1>4. /\ Len(channel') = Len(channel) - 1 /\ Len(channel) \in Nat \ {0}
      /\ \A k \in 1..Len(channel') : Fits(channel'[k], k - 1, Cardinality(Free'))
  BY <1>2, ReceiveFrees
<1>5. HandsFit'
  BY <1>2, <1>3, <1>4, SizeType DEF AgeInv, HandsFit
<1>6. ASSUME NEW k \in 1..Len(hand["dispatcher"])
      PROVE  Fits(hand["dispatcher"][k], DispatcherRank(k)', Cardinality(Free'))
  <2> DEFINE lower == DispatcherRank(k)'
             rank  == DispatcherRank(k)
             age   == hand["dispatcher"][k]
  <2>1. Overtaking' = Overtaking /\ Overtaking \in {0, 1}
    BY <1>2, <1>3 DEF Overtaking
  <2>2. lower = rank - 1 /\ rank \in Nat /\ lower \in Nat
    BY <1>4, <2>1 DEF DispatcherRank
  <2>3. Fits(age, rank, Cardinality(Free)) /\ age \in Nat
    BY <1>1, SizeType, RankType DEF AgeInv, QueueFits
  <2> HIDE DEF lower, rank, age
  <2>4. Fits(age, lower, Cardinality(Free'))
    BY <2>2, <2>3, ReceiveFrees
  <2> QED
    BY <2>4 DEF lower, age
<1>7. ASSUME NEW k \in 1..Len(hand["consumer"])
      PROVE  Fits(hand["consumer"][k], ConsumerRank', Cardinality(Free'))
  <2>1. hand["consumer"] \in Seq(Nat) /\ Len(hand["consumer"]) <= 1
    BY <1>1, SizeType, RankType DEF AgeInv, HandsFit
  <2>2. k = 1 /\ hand["consumer"] # <<>>
    BY <2>1
  <2>3. hand["consumer"][k] = 0
    BY <1>3, <2>2 DEF AgeInv, HandsFit
  <2>4. ConsumerRank' = 2 * Size + 1
    BY <1>3 DEF ConsumerRank
  <2>5. Fits(0, 2 * Size + 1, Cardinality(Free'))
    BY SizeType, FreeType, FitsFacts
  <2> QED
    BY <2>3, <2>4, <2>5
<1>8. QueueFits'
  BY <1>2, <1>4, <1>6, <1>7 DEF QueueFits
<1> QED
  BY <1>5, <1>8, ReceiveFrees DEF AgeInv

(* When a sender waits for room, its next task takes the last place of the *)
(* channel.                                                                *)
LEMMA RelayFits ==
  ASSUME AgeInv, PoolInv', NEW w \in Worker, Receive(w), sendq # <<>>
  PROVE  AgeInv'
<1> DEFINE s == Head(sendq)
<1>1. PoolInv
  BY DEF AgeInv
<1>2. /\ sendq \in Seq(Sender) /\ s \in Sender /\ s = sendq[1] /\ Tail(sendq) \in Seq(Sender)
      /\ Len(Tail(sendq)) = Len(sendq) - 1 /\ Len(sendq) \in Nat \ {0}
      /\ \A n \in 1..Len(Tail(sendq)) : Tail(sendq)[n] = sendq[n + 1]
  BY <1>1, RankType, HeadTail
<1>3. /\ hand[s] # <<>> /\ hand[s] \in Seq(Nat) /\ Len(channel) = Capacity
      /\ hand \in [Sender -> Seq(Nat)]
  BY <1>1, <1>2 DEF PoolInv, TypeOK, Waiting
<1>4. /\ channel' = Append(Tail(channel), Head(hand[s]))
      /\ hand' = [hand EXCEPT ![s] = Tail(@)]
      /\ sendq' = Tail(sendq)
  BY DEF Receive
<1>5. /\ Len(hand[s]) \in Nat \ {0} /\ Len(Tail(hand[s])) = Len(hand[s]) - 1
      /\ Head(hand[s]) = hand[s][1] /\ hand[s][1] \in Nat
      /\ \A k \in 1..Len(Tail(hand[s])) : Tail(hand[s])[k] = hand[s][k + 1]
  BY <1>3, HeadTail
<1>6. /\ Len(channel') = Len(channel) /\ Len(channel) = 2 * Size /\ Size \in Nat \ {0}
      /\ \A k \in 1..(Len(channel) - 1) : channel'[k] = Tail(channel)[k]
      /\ channel'[Len(channel)] = hand[s][1]
  <2>1. /\ Tail(channel) \in Seq(Nat) /\ Len(Tail(channel)) = Len(channel) - 1
        /\ Len(channel) \in Nat \ {0}
    BY ReceiveFrees
  <2>2. channel' = Append(Tail(channel), hand[s][1]) /\ hand[s][1] \in Nat
    BY <1>4, <1>5
  <2> HIDE DEF s
  <2>3. /\ Len(channel') = Len(Tail(channel)) + 1
        /\ \A k \in 1..Len(Tail(channel)) : channel'[k] = Tail(channel)[k]
        /\ channel'[Len(Tail(channel)) + 1] = hand[s][1]
    BY <2>1, <2>2
  <2> QED
    <3>1. (Len(channel) - 1) + 1 = Len(channel)
      BY <2>1
    <3>2. Len(channel') = Len(channel) /\ channel'[Len(channel)] = hand[s][1]
      BY <2>1, <2>3, <3>1
    <3>3. \A k \in 1..(Len(channel) - 1) : channel'[k] = Tail(channel)[k]
      BY <2>1, <2>3
    <3> QED
      BY <1>3, <3>2, <3>3, SizeType
<1>7. ASSUME NEW rank \in Nat, rank >= Len(channel),
             Fits(hand[s][1], rank, Cardinality(Free))
      PROVE  \A k \in 1..Len(channel') : Fits(channel'[k], k - 1, Cardinality(Free'))
  <2>1. Len(channel) - 1 \in Nat /\ Len(channel) - 1 < rank
    BY <1>6, <1>7
  <2>2. Fits(hand[s][1], Len(channel) - 1, Cardinality(Free'))
    BY <1>5, <1>7, <2>1, ReceiveFrees
  <2>3. \A k \in 1..(Len(channel) - 1) : Fits(channel'[k], k - 1, Cardinality(Free'))
    BY <1>6, ReceiveFrees
  <2> TAKE k \in 1..Len(channel')
  <2>4. k \in 1..(Len(channel) - 1) \/ k = Len(channel)
    BY <1>6
  <2> QED
    BY <1>6, <2>2, <2>3, <2>4
<1>8. \A k \in 1..Len(hand["dispatcher"]) :
        /\ Fits(hand["dispatcher"][k], DispatcherRank(k), Cardinality(Free))
        /\ hand["dispatcher"][k] \in Nat /\ DispatcherRank(k) \in Nat
        /\ DispatcherRank(k) >= Len(channel)
  <2> TAKE k \in 1..Len(hand["dispatcher"])
  <2>1. Fits(hand["dispatcher"][k], DispatcherRank(k), Cardinality(Free))
    BY DEF AgeInv, QueueFits
  <2>2. hand["dispatcher"][k] \in Nat /\ k \in Nat \ {0}
    BY <1>1, SizeType, RankType
  <2> QED
    BY <1>1, <2>1, <2>2, RankBound
<1>9. ASSUME s = "dispatcher" PROVE QueueFits' /\ HandsFit'
  <2>1. hand'["dispatcher"] = Tail(hand["dispatcher"]) /\ hand'["consumer"] = hand["consumer"]
    BY <1>3, <1>4, <1>9, SizeType
  <2>2. First("dispatcher") /\ ~ First("consumer")
    BY <1>2, <1>9 DEF First
  <2>3. Contains(sendq, "consumer") => Contains(sendq', "consumer") /\ First("consumer")'
    <3> SUFFICES ASSUME Contains(sendq, "consumer")
                 PROVE  Contains(sendq', "consumer") /\ First("consumer")'
      OBVIOUS
    <3>1. PICK n \in 1..Len(sendq) : sendq[n] = "consumer"
      BY DEF Contains
    <3>2. n # 1 /\ n - 1 \in 1..Len(sendq') /\ sendq'[n - 1] = sendq[n]
      BY <1>2, <1>4, <1>9, <3>1
    <3>3. 2 \in 1..Len(sendq) /\ sendq' # <<>> /\ sendq'[1] = sendq[2]
      BY <1>2, <1>4, <3>2
    <3>4. sendq[2] \in Sender /\ sendq[2] # sendq[1]
      BY <1>1, <1>2, <3>3, RankType DEF PoolInv, Waiting
    <3> QED
      BY <1>2, <1>9, <3>1, <3>2, <3>3, <3>4, SizeType DEF Contains, First
  <2>4. HandsFit'
    <3>1. Len(hand'["dispatcher"]) <= BatchSize
      BY <1>5, <1>9, <2>1, SizeType DEF AgeInv, HandsFit
    <3> QED
      BY <1>6, <2>1, <2>3, <3>1 DEF AgeInv, HandsFit
  <2>5. \A k \in 1..Len(channel') : Fits(channel'[k], k - 1, Cardinality(Free'))
    <3>1. 1 \in 1..Len(hand["dispatcher"])
      BY <1>5, <1>9
    <3> QED
      BY <1>7, <1>8, <1>9, <3>1
  <2>6. ASSUME NEW k \in 1..Len(hand'["dispatcher"])
        PROVE  Fits(hand'["dispatcher"][k], DispatcherRank(k)', Cardinality(Free'))
    <3> DEFINE lower == DispatcherRank(k)'
               rank  == DispatcherRank(k + 1)
               age   == hand["dispatcher"][k + 1]
    <3>1. k + 1 \in 1..Len(hand["dispatcher"]) /\ hand'["dispatcher"][k] = age /\ k \in Nat \ {0}
      BY <1>5, <1>9, <2>1
    <3>2. Overtaking = 0 /\ Overtaking' \in {0, 1}
      BY <2>2 DEF Overtaking
    <3>3. lower \in Nat /\ lower < rank
      <4>1. /\ lower = 2 * Size + 2 * (k - 1) + Overtaking'
            /\ rank = 2 * Size + 2 * ((k + 1) - 1) + Overtaking
        BY <1>6 DEF DispatcherRank
      <4>2. k \in Nat \ {0} /\ Size \in Nat \ {0}
        BY <1>6, <3>1
      <4>3. /\ \A n \in Nat, o \in {0, 1} : n + 2 * (k - 1) + o \in Nat
            /\ \A n \in Nat, o \in {0, 1} : n + 2 * (k - 1) + o < n + 2 * ((k + 1) - 1) + 0
        BY <4>2
      <4>4. 2 * Size \in Nat
        BY <4>2
      <4> QED
        BY <3>2, <4>1, <4>3, <4>4
    <3>4. Fits(age, rank, Cardinality(Free)) /\ age \in Nat /\ rank \in Nat
      BY <1>8, <3>1
    <3> HIDE DEF lower, rank, age
    <3>5. Fits(age, lower, Cardinality(Free'))
      BY <3>3, <3>4, ReceiveFrees
    <3> QED
      BY <3>1, <3>5 DEF lower
  <2>7. ASSUME NEW k \in 1..Len(hand["consumer"])
        PROVE  Fits(hand["consumer"][k], ConsumerRank', Cardinality(Free'))
    <3>1. hand["consumer"] \in Seq(Nat) /\ Len(hand["consumer"]) <= 1
      BY <1>1, SizeType, RankType DEF AgeInv, HandsFit
    <3>2. k = 1 /\ hand["consumer"] # <<>> /\ hand["consumer"][1] \in Nat
      BY <3>1
    <3>3. CASE Contains(sendq, "consumer")
      <4>0. First("consumer")'
        BY <2>3, <3>3
      <4>1. ConsumerRank = 2 * Size + 1 /\ ConsumerRank' = 2 * Size
        BY <1>6, <2>2, <4>0 DEF ConsumerRank
      <4>2. Fits(hand["consumer"][1], ConsumerRank, Cardinality(Free))
        BY <3>2 DEF AgeInv, QueueFits
      <4> QED
        BY <1>6, <3>2, <4>1, <4>2, ReceiveFrees
    <3>4. CASE ~ Contains(sendq, "consumer")
      <4>1. hand["consumer"][1] = 0
        BY <3>2, <3>4 DEF AgeInv, HandsFit
      <4>2. ConsumerRank' \in Nat /\ ConsumerRank' <= 2 * Size + 1
        BY <1>6 DEF ConsumerRank
      <4>3. Fits(0, ConsumerRank', Cardinality(Free'))
        BY <4>2, SizeType, FreeType, FitsFacts
      <4> QED
        BY <3>2, <4>1, <4>3
    <3> QED
      BY <3>3, <3>4
  <2>8. QueueFits'
    BY <2>1, <2>5, <2>6, <2>7 DEF QueueFits
  <2> QED
    BY <2>4, <2>8
<1>10. ASSUME s = "consumer" PROVE QueueFits' /\ HandsFit'
  <2>1. hand'["consumer"] = Tail(hand["consumer"]) /\ hand'["dispatcher"] = hand["dispatcher"]
    BY <1>3, <1>4, <1>10, SizeType
  <2>2. Len(hand["consumer"]) <= 1
    BY DEF AgeInv, HandsFit
  <2>3. hand'["consumer"] = <<>> /\ Len(hand'["consumer"]) = 0
    BY <1>3, <1>10, <2>1, <2>2, OneTask
  <2>4. HandsFit'
    BY <1>6, <2>1, <2>3 DEF AgeInv, HandsFit
  <2>5. \A k \in 1..Len(channel') : Fits(channel'[k], k - 1, Cardinality(Free'))
    <3>1. ConsumerRank \in Nat /\ ConsumerRank >= Len(channel)
      BY <1>6 DEF ConsumerRank
    <3>2. 1 \in 1..Len(hand["consumer"])
      BY <1>5, <1>10
    <3>3. Fits(hand["consumer"][1], ConsumerRank, Cardinality(Free))
      BY <3>2 DEF AgeInv, QueueFits
    <3> QED
      BY <1>7, <1>10, <3>1, <3>3
  <2>6. ASSUME NEW k \in 1..Len(hand["dispatcher"])
        PROVE  Fits(hand["dispatcher"][k], DispatcherRank(k)', Cardinality(Free'))
    <3> DEFINE lower == DispatcherRank(k)'
               rank  == DispatcherRank(k)
               age   == hand["dispatcher"][k]
    <3>1. Overtaking = 1 /\ Overtaking' = 0
      BY <1>2, <1>3, <1>10, <2>3 DEF Overtaking, First
    <3>2. lower \in Nat /\ lower < rank
      BY <1>6, <3>1 DEF DispatcherRank
    <3>3. Fits(age, rank, Cardinality(Free)) /\ age \in Nat /\ rank \in Nat
      BY <1>8
    <3> HIDE DEF lower, rank, age
    <3>4. Fits(age, lower, Cardinality(Free'))
      BY <3>2, <3>3, ReceiveFrees
    <3> QED
      BY <3>4 DEF lower, age
  <2>7. \A k \in 1..Len(hand'["consumer"]) :
          Fits(hand'["consumer"][k], ConsumerRank', Cardinality(Free'))
    BY <2>3
  <2>8. QueueFits'
    BY <2>1, <2>5, <2>6, <2>7 DEF QueueFits
  <2> QED
    BY <2>4, <2>8
<1> QED
  BY <1>2, <1>9, <1>10, SizeType, ReceiveFrees DEF AgeInv

(* Nothing that is queued is disturbed by free workers that come on top.   *)
LEMMA MoreFree ==
  ASSUME AgeInv, PoolInv', UNCHANGED <<hand, channel, sendq>>,
         \/ Cardinality(Free) <= Cardinality(Free')
         \/ channel = <<>> /\ \A s \in Sender : hand[s] = <<>>
  PROVE  QueueFits' /\ HandsFit'
<1>1. PoolInv
  BY DEF AgeInv
<1>2. HandsFit'
  BY DEF AgeInv, HandsFit
<1>3. /\ ConsumerRank' = ConsumerRank
      /\ \A k : DispatcherRank(k)' = DispatcherRank(k)
  BY DEF ConsumerRank, DispatcherRank, Overtaking, First
<1>4. CASE Cardinality(Free) <= Cardinality(Free')
  <2>1. ASSUME NEW age \in Nat, NEW rank \in Nat, Fits(age, rank, Cardinality(Free))
        PROVE  Fits(age, rank, Cardinality(Free'))
    <3>1. rank + Cardinality(Free) <= rank + Cardinality(Free')
      BY <1>4, FreeType
    <3> QED
      BY <2>1, <3>1, FreeType, FitsLower
  <2>2. \A k \in 1..Len(channel) : Fits(channel[k], k - 1, Cardinality(Free'))
    <3> TAKE k \in 1..Len(channel)
    <3>1. channel[k] \in Nat /\ k - 1 \in Nat
      BY <1>1, RankType
    <3>2. Fits(channel[k], k - 1, Cardinality(Free))
      BY DEF AgeInv, QueueFits
    <3> QED
      BY <2>1, <3>1, <3>2
  <2>3. \A k \in 1..Len(hand["dispatcher"]) :
          Fits(hand["dispatcher"][k], DispatcherRank(k), Cardinality(Free'))
    <3> TAKE k \in 1..Len(hand["dispatcher"])
    <3>1. hand["dispatcher"][k] \in Nat /\ k \in Nat \ {0}
      BY <1>1, SizeType, RankType
    <3>2. Fits(hand["dispatcher"][k], DispatcherRank(k), Cardinality(Free))
      BY DEF AgeInv, QueueFits
    <3> QED
      BY <1>1, <2>1, <3>1, <3>2, RankBound
  <2>4. \A k \in 1..Len(hand["consumer"]) :
          Fits(hand["consumer"][k], ConsumerRank, Cardinality(Free'))
    <3> TAKE k \in 1..Len(hand["consumer"])
    <3>1. hand["consumer"][k] \in Nat
      BY <1>1, SizeType, RankType
    <3>2. Fits(hand["consumer"][k], ConsumerRank, Cardinality(Free))
      BY DEF AgeInv, QueueFits
    <3> QED
      BY <1>1, <2>1, <3>1, <3>2, RankBound
  <2> QED
    BY <1>2, <1>3, <2>2, <2>3, <2>4 DEF QueueFits
<1>5. CASE channel = <<>> /\ \A s \in Sender : hand[s] = <<>>
  <2>1. channel' = <<>> /\ hand'["dispatcher"] = <<>> /\ hand'["consumer"] = <<>>
    BY <1>5, SizeType
  <2> QED
    BY <1>2, <2>1 DEF QueueFits
<1> QED
  BY <1>4, <1>5

(* A worker that finishes is free, and one that leaves leaves nothing.     *)
LEMMA LeaveFits ==
  ASSUME AgeInv, PoolInv', NEW w \in Worker, Finish(w) \/ WorkerExits(w)
  PROVE  AgeInv'
<1>1. PoolInv
  BY DEF AgeInv
<1>2. worker \in [Worker -> Work]
  BY <1>1 DEF PoolInv, TypeOK
<1>3. WorkFits(Idle) /\ WorkFits(Exited)
  BY FitsFacts DEF WorkFits, Idle, Exited
<1>4. \A v \in Worker : WorkFits(worker'[v])
  BY <1>2, <1>3 DEF Finish, WorkerExits, AgeInv
<1>5. UNCHANGED <<hand, channel, sendq>>
  BY DEF Finish, WorkerExits
<1>6. CASE Finish(w)
  <2>1. worker'[w] = Idle /\ \A v \in Worker : v # w => worker'[v] = worker[v]
    BY <1>2, <1>6 DEF Finish
  <2>2. Free \subseteq Free'
    BY <2>1 DEF Free, Idle
  <2>3. Cardinality(Free) <= Cardinality(Free')
    BY <2>2, FreeType, FS_Subset
  <2> QED
    BY <1>4, <1>5, <2>3, MoreFree DEF AgeInv
<1>7. CASE WorkerExits(w)
  <2>1. channel = <<>> /\ \A s \in Sender : hand[s] = <<>>
    BY <1>1, <1>7 DEF WorkerExits, PoolInv, InOrder
  <2> QED
    BY <1>4, <1>5, <2>1, MoreFree DEF AgeInv
<1> QED
  BY <1>6, <1>7

(* Stops and stuttering touch nothing that is queued.                      *)
LEMMA StopsFit ==
  ASSUME AgeInv, PoolInv', UNCHANGED <<hand, channel, sendq, worker>>
  PROVE  AgeInv'
<1>1. Cardinality(Free) <= Cardinality(Free')
  BY FreeType DEF Free
<1> QED
  BY <1>1, MoreFree DEF AgeInv

(* What is queued at the end of a period finds every worker busy, and free *)
(* for the next one: as many tasks as there are workers go before it.      *)
LEMMA PeriodFits ==
  ASSUME AgeInv, PoolInv', PeriodEnds
  PROVE  AgeInv'
<1>1. PoolInv
  BY DEF AgeInv
<1>2. /\ channel \in Seq(Nat) /\ hand \in [Sender -> Seq(Nat)] /\ worker \in [Worker -> Work]
      /\ sendq' = sendq
  BY <1>1 DEF PoolInv, TypeOK, PeriodEnds
<1>3. ASSUME NEW q \in Seq(Nat), NEW older, older = [k \in DOMAIN q |-> Older(q[k])]
      PROVE  /\ Len(older) = Len(q) /\ Len(q) \in Nat /\ (older = <<>> <=> q = <<>>)
             /\ \A k \in 1..Len(q) : q[k] \in Nat /\ older[k] = Older(q[k])
  <2>1. DOMAIN q = 1..Len(q) /\ Len(q) \in Nat /\ \A k \in 1..Len(q) : q[k] \in Nat
    OBVIOUS
  <2>2. \A k \in 1..Len(q) : Older(q[k]) \in Nat
    BY <2>1, NumbersType
  <2>3. older \in Seq(Nat) /\ Len(older) = Len(q)
    BY <1>3, <2>1, <2>2
  <2> QED
    BY <1>3, <2>1, <2>3
<1>4. /\ Len(channel') = Len(channel) /\ Len(channel) \in Nat
      /\ \A k \in 1..Len(channel) : channel[k] \in Nat /\ channel'[k] = Older(channel[k])
  BY <1>2, <1>3 DEF PeriodEnds
<1>5. ASSUME NEW s \in Sender
      PROVE  /\ Len(hand'[s]) = Len(hand[s]) /\ (hand'[s] = <<>> <=> hand[s] = <<>>)
             /\ \A k \in 1..Len(hand[s]) : hand[s][k] \in Nat /\ hand'[s][k] = Older(hand[s][k])
  <2>1. hand'[s] = [k \in DOMAIN hand[s] |-> Older(hand[s][k])] /\ hand[s] \in Seq(Nat)
    BY <1>2 DEF PeriodEnds
  <2> QED
    BY <1>3, <2>1
<1>6. \A w \in Worker : WorkFits(worker'[w])
  <2> TAKE w \in Worker
  <2>1. worker[w] \in Work /\ WorkFits(worker[w]) /\ ~ worker[w].late
    BY <1>2 DEF AgeInv, PeriodEnds
  <2>2. CASE worker[w].state = "busy"
    <3>1. worker'[w] = [Busy(Older(worker[w].age)) EXCEPT !.late = TRUE]
      BY <2>2 DEF PeriodEnds
    <3>2. /\ worker'[w].late = TRUE /\ worker'[w].state = "busy"
          /\ worker'[w].age = Older(worker[w].age)
      BY <3>1 DEF Busy
    <3>3. Older(worker[w].age) <= HeldBound
      BY <2>1, FitsFacts DEF WorkFits, Work, Older
    <3> QED
      BY <3>2, <3>3 DEF WorkFits
  <2>3. CASE worker[w].state # "busy"
    BY <2>1, <2>3 DEF PeriodEnds
  <2> QED
    BY <2>2, <2>3
<1>7. HandsFit'
  <2>1. hand'["consumer"] # <<>> => Contains(sendq', "consumer")
    BY <1>2, <1>5, SizeType DEF PeriodEnds, Settled
  <2> QED
    BY <1>4, <1>5, <2>1, SizeType DEF AgeInv, HandsFit
<1>8. /\ ConsumerRank' = ConsumerRank
      /\ \A k : DispatcherRank(k)' = DispatcherRank(k)
  <2>1. Overtaking' = Overtaking
    BY <1>2, <1>5, SizeType DEF Overtaking, First
  <2> QED
    BY <1>2, <1>4, <2>1 DEF ConsumerRank, DispatcherRank, First
<1>9. CASE channel = <<>>
  <2>1. ASSUME NEW s \in Sender, hand[s] # <<>> PROVE FALSE
    <3>1. sendq # <<>>
      BY <1>1, <2>1 DEF PeriodEnds, Settled, Contains, PoolInv, TypeOK
    <3>2. Len(channel) = 2 * Size /\ Size \in Nat \ {0}
      BY <1>1, <3>1, SizeType DEF PoolInv, Waiting
    <3> QED
      BY <1>9, <3>2
  <2>2. Len(channel) = 0 /\ \A s \in Sender : Len(hand[s]) = 0
    BY <1>9, <2>1
  <2>3. Len(channel') = 0 /\ Len(hand'["dispatcher"]) = 0 /\ Len(hand'["consumer"]) = 0
    BY <1>4, <1>5, <2>2, SizeType
  <2>4. QueueFits'
    BY <2>3 DEF QueueFits
  <2> QED
    BY <1>6, <1>7, <2>4 DEF AgeInv
<1>10. CASE channel # <<>>
  <2>1. \A w \in Worker : worker[w].state = "busy" /\ ~ worker[w].late
    BY <1>1, <1>2, <1>10 DEF PeriodEnds, Settled, PoolInv, WorkersLast, Work
  <2>2. Free = {} /\ Cardinality(Free) = 0
    BY <2>1, FS_EmptySet DEF Free
  <2>3. Free' = Worker /\ Cardinality(Free') = Size
    <3>1. \A w \in Worker : worker'[w] = [Busy(Older(worker[w].age)) EXCEPT !.late = TRUE]
      BY <2>1 DEF PeriodEnds
    <3>2. \A w \in Worker : worker'[w].late
      BY <3>1 DEF Busy
    <3> QED
      BY <3>2 DEF Free, Size
  <2>4. ASSUME NEW age \in Nat, NEW rank \in Nat, Fits(age, rank, Cardinality(Free))
        PROVE  Fits(Older(age), rank, Cardinality(Free'))
    BY <2>2, <2>3, <2>4, FitsFacts
  <2>5. \A k \in 1..Len(channel') : Fits(channel'[k], k - 1, Cardinality(Free'))
    <3> TAKE k \in 1..Len(channel')
    <3>1. k \in 1..Len(channel) /\ k - 1 \in Nat
      BY <1>4
    <3>2. Fits(channel[k], k - 1, Cardinality(Free))
      BY <3>1 DEF AgeInv, QueueFits
    <3> QED
      BY <1>4, <2>4, <3>1, <3>2
  <2>6. \A k \in 1..Len(hand'["dispatcher"]) :
          Fits(hand'["dispatcher"][k], DispatcherRank(k)', Cardinality(Free'))
    <3> TAKE k \in 1..Len(hand'["dispatcher"])
    <3>1. k \in 1..Len(hand["dispatcher"]) /\ hand["dispatcher"][k] \in Nat
          /\ hand'["dispatcher"][k] = Older(hand["dispatcher"][k])
      BY <1>5, SizeType
    <3>2. Fits(hand["dispatcher"][k], DispatcherRank(k), Cardinality(Free))
      BY <3>1 DEF AgeInv, QueueFits
    <3>3. k \in Nat \ {0}
      OBVIOUS
    <3>4. DispatcherRank(k) \in Nat
      BY <1>1, <3>3, RankBound
    <3> QED
      BY <1>8, <2>4, <3>1, <3>2, <3>4
  <2>7. \A k \in 1..Len(hand'["consumer"]) :
          Fits(hand'["consumer"][k], ConsumerRank', Cardinality(Free'))
    <3> TAKE k \in 1..Len(hand'["consumer"])
    <3>1. k \in 1..Len(hand["consumer"]) /\ hand["consumer"][k] \in Nat
          /\ hand'["consumer"][k] = Older(hand["consumer"][k])
      BY <1>5, SizeType
    <3>2. Fits(hand["consumer"][k], ConsumerRank, Cardinality(Free))
      BY <3>1 DEF AgeInv, QueueFits
    <3> QED
      BY <1>1, <1>8, <2>4, <3>1, <3>2, RankBound
  <2>8. QueueFits'
    BY <2>5, <2>6, <2>7 DEF QueueFits
  <2> QED
    BY <1>6, <1>7, <2>8 DEF AgeInv
<1> QED
  BY <1>9, <1>10

(* Every step of a pool whose claims are slower than its sends keeps the   *)
(* ages in their bounds.                                                   *)
LEMMA NextAge ==
  AgeInv /\ [Next /\ (ClaimTasks \/ ClaimTask => Settled)]_vars => AgeInv'
<1> SUFFICES ASSUME AgeInv, [Next /\ (ClaimTasks \/ ClaimTask => Settled)]_vars
             PROVE  AgeInv'
  OBVIOUS
<1>1. PoolInv'
  BY NextPool DEF AgeInv
<1>2. CASE (ClaimTasks \/ ClaimTask) /\ Settled
  BY <1>1, <1>2, ClaimFits
<1>3. ASSUME NEW s \in Sender, Send(s) \/ Park(s) \/ Stopped(s) PROVE AgeInv'
  <2>1. CASE Send(s)
    BY <1>1, <2>1, SendFits
  <2>2. CASE Park(s)
    BY <1>1, <2>2, ParkFits
  <2>3. CASE Stopped(s)
    BY <1>1, <2>3, StopsFit DEF Stopped
  <2> QED
    BY <1>3, <2>1, <2>2, <2>3
<1>4. ASSUME NEW w \in Worker, Receive(w) \/ Finish(w) \/ WorkerExits(w) PROVE AgeInv'
  BY <1>1, <1>4, ReceiveFits, RelayFits, LeaveFits
<1>5. CASE MainNext
  BY <1>1, <1>5, StopsFit DEF MainNext, Cancel, ClosePool, PoolStopped
<1>6. CASE PeriodEnds
  BY <1>1, <1>6, PeriodFits
<1>7. CASE UNCHANGED vars
  BY <1>1, <1>7, StopsFit DEF vars
<1> QED
  BY <1>2, <1>3, <1>4, <1>5, <1>6, <1>7 DEF Next, SenderNext, WorkerNext

(* No lock of a claimed task grows older than HeldBound + 1 periods before *)
(* its worker is done with it, for any number of workers and any batches.  *)
THEOREM LocksKeepYoung == PromptSpec => []LocksStayYoung
<1>1. AgeInv => LocksStayYoung
  <2> SUFFICES ASSUME AgeInv PROVE LocksStayYoung
    OBVIOUS
  <2>1. PoolInv
    BY DEF AgeInv
  <2>2. ASSUME NEW age \in Nat, NEW rank \in Nat, Fits(age, rank, Cardinality(Free))
        PROVE  age <= HeldBound
    <3>1. Fits(age, 0, Cardinality(Free))
      BY <2>2, FreeType, FitsLower
    <3> QED
      BY <2>2, <3>1, FreeType, FitsFacts
  <2>3. \A k \in DOMAIN channel : channel[k] <= HeldBound
    <3> TAKE k \in DOMAIN channel
    <3>1. k \in 1..Len(channel) /\ channel[k] \in Nat /\ k - 1 \in Nat
      BY <2>1, RankType
    <3>2. Fits(channel[k], k - 1, Cardinality(Free))
      BY <3>1 DEF AgeInv, QueueFits
    <3> QED
      BY <2>2, <3>1, <3>2
  <2>4. \A k \in DOMAIN hand["dispatcher"] : hand["dispatcher"][k] <= HeldBound
    <3> TAKE k \in DOMAIN hand["dispatcher"]
    <3>1. /\ k \in 1..Len(hand["dispatcher"]) /\ hand["dispatcher"][k] \in Nat
          /\ k \in Nat \ {0}
      BY <2>1, SizeType, RankType
    <3>2. Fits(hand["dispatcher"][k], DispatcherRank(k), Cardinality(Free))
      BY <3>1 DEF AgeInv, QueueFits
    <3> QED
      BY <2>1, <2>2, <3>1, <3>2, RankBound
  <2>5. \A k \in DOMAIN hand["consumer"] : hand["consumer"][k] <= HeldBound
    <3> TAKE k \in DOMAIN hand["consumer"]
    <3>1. k \in 1..Len(hand["consumer"]) /\ hand["consumer"][k] \in Nat
      BY <2>1, SizeType, RankType
    <3>2. Fits(hand["consumer"][k], ConsumerRank, Cardinality(Free))
      BY <3>1 DEF AgeInv, QueueFits
    <3> QED
      BY <2>1, <2>2, <3>1, <3>2, RankBound
  <2>6. \A w \in Worker : worker[w].age <= HeldBound
    BY DEF AgeInv, WorkFits
  <2> QED
    BY <2>3, <2>4, <2>5, <2>6, SizeType DEF LocksStayYoung
<1> QED
  BY <1>1, InitAge, NextAge, PTL DEF PromptSpec
=============================================================================

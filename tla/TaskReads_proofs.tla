-------------------------- MODULE TaskReads_proofs --------------------------
(***************************************************************************)
(* A client that reads in two requests finds every task, for any queue.    *)
(***************************************************************************)
EXTENDS TaskReads, TaskQueue_proofs

View == [asked : SUBSET Task, found : SUBSET Task, dead : SUBSET Task, over : BOOLEAN]

\* Entries are forever, so that the answer to the first request stays true.
ReadInv == /\ AsyncInv
           /\ view \in View
           /\ NothingOverlooked
           /\ \A t \in view.asked \ view.found :
                \E d \in DeadId : dlq[d].orig = t

(* Whatever a step does, no entry is lost.                                 *)
LEMMA EntriesStay ==
  ASSUME AsyncInv, [Next]_vars, NEW d \in DeadId, dlq[d].orig \in Task
  PROVE  dlq'[d].orig = dlq[d].orig
<1>1. CASE SameLetters
  BY <1>1 DEF SameLetters
<1>2. ASSUME NEW i \in Instance, NEW p \in Place, CommitToDLQ(i, p)
      PROVE  dlq'[d].orig = dlq[d].orig
  BY <1>2, TaskAssumption DEF CommitToDLQ, AsyncInv, TypeOK, NoEntry
<1> QED
  BY <1>1, <1>2, DeadLetterSteps DEF AsyncInv

(* What the client was told stays true while the queue goes on.            *)
LEMMA QueueKeepsReads ==
  ASSUME ReadInv, [Next]_vars, UNCHANGED view
  PROVE  ReadInv'
<1>1. AsyncInv'
  BY NextAsync DEF ReadInv
<1>2. \A t \in view.asked \ view.found : \E d \in DeadId : dlq'[d].orig = t
  BY EntriesStay DEF ReadInv, View
<1> QED
  BY <1>1, <1>2 DEF ReadInv, NothingOverlooked

(* The requests of the client.                                             *)
LEMMA ReadsKeep ==
  ASSUME ReadInv, Read, UNCHANGED vars
  PROVE  ReadInv'
<1>1. AsyncInv'
  BY DEF ReadInv, AsyncInv, vars, local, bounds, TypeOK, AttemptsHaveErrors, CopiesBehindRows,
     NoTaskLost, NoEarlyDeath
<1>2. tasks' = tasks /\ dlq' = dlq
  BY DEF vars
<1>3. ASSUME NEW T \in SUBSET Task, LookUp(T) PROVE ReadInv'
  <2>1. /\ view'.asked = T \cap Submitted
        /\ view'.found = {t \in T : Present(tasks[t])}
        /\ view'.over = FALSE
        /\ view' \in View
    BY <1>3 DEF LookUp, View
  <2>2. ASSUME NEW t \in view'.asked \ view'.found
        PROVE  \E d \in DeadId : dlq[d].orig = t
    <3>1. t \in Task /\ tasks[t].status # "unborn" /\ ~ Present(tasks[t])
      BY <2>1, <2>2 DEF Submitted
    <3>2. tasks[t].status = "gone"
      BY <3>1 DEF ReadInv, AsyncInv, TypeOK, Row, Present
    <3> QED
      BY <3>1, <3>2 DEF ReadInv, AsyncInv, NoTaskLost
  <2> QED
    BY <1>1, <1>2, <2>1, <2>2 DEF ReadInv, NothingOverlooked
<1>4. CASE GetTasks
  BY <1>3, <1>4 DEF GetTasks
<1>5. ASSUME NEW t \in Task, GetTask(t) PROVE ReadInv'
  BY <1>3, <1>5 DEF GetTask
<1>6. CASE GetDeadLetterTasks
  <2>1. /\ view'.asked = view.asked /\ view'.found = view.found
        /\ view'.dead = {t \in Task : \E d \in DeadId : dlq[d].orig = t}
        /\ view' \in View
    BY <1>6 DEF GetDeadLetterTasks, ReadInv, View
  <2> QED
    BY <1>1, <1>2, <2>1 DEF ReadInv, NothingOverlooked, View
<1> QED
  BY <1>4, <1>5, <1>6 DEF Read

(* A client that asks for the tasks and then for the dead letters finds    *)
(* every task it asked for, whatever the queue does in between.            *)
THEOREM ReadersFindAll == ReadSpec => []NothingOverlooked
<1>1. ReadInit => ReadInv
  BY InitAsync DEF ReadInit, ReadInv, NoView, View, NothingOverlooked
<1>2. ReadInv /\ [ReadNext]_<<vars, view>> => ReadInv'
  <2> SUFFICES ASSUME ReadInv, [ReadNext]_<<vars, view>> PROVE ReadInv'
    OBVIOUS
  <2>1. ASSUME Read, UNCHANGED vars PROVE ReadInv'
    BY <2>1, ReadsKeep
  <2>2. ASSUME [Next]_vars, UNCHANGED view PROVE ReadInv'
    BY <2>2, QueueKeepsReads
  <2> QED
    BY <2>1, <2>2 DEF ReadNext
<1>3. ReadInv => NothingOverlooked
  BY DEF ReadInv
<1> QED
  BY <1>1, <1>2, <1>3, PTL DEF ReadSpec
=============================================================================

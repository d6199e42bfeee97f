----------------------------- MODULE Submission -----------------------------
(***************************************************************************)
(* POST /tasks: requests with and without an idempotency key, each in a    *)
(* transaction on a connection of one process's bounded pool.              *)
(*                                                                         *)
(* A request creates at most one task, which has the request's name.  The  *)
(* INSERT of a key waits for a transaction that inserted the same key and  *)
(* is not over; on a conflict the existing task is read on a second        *)
(* connection while the transaction keeps the first.  Dead-lettering       *)
(* deletes the row, and the key with it.                                   *)
(***************************************************************************)
EXTENDS Naturals, FiniteSets

CONSTANTS Request,       \* requests, and the tasks they create
          NoRequest,
          Key,           \* idempotency keys
          NoKey,         \* idempotency_key IS NULL
          Mortal,        \* tasks the queue may move to the dead letters
          MaxConns,      \* pool_max_conns, less the connections otherwise in use
          MaxFaults      \* bound: failed database calls

ASSUME NullAssumption  == NoRequest \notin Request /\ NoKey \notin Key
ASSUME PoolAssumption  == MaxConns \in Nat \ {0} /\ MaxFaults \in Nat
ASSUME TaskAssumption  == Mortal \subseteq Request

VARIABLES pc,            \* where TaskHandler.CreateTask is
          key,           \* the key of the request
          answer,        \* the task in the response
          tasks,         \* committed rows of `tasks`
          dead,          \* tasks that were moved to the dead letters
          outbox,        \* tasks with a committed event
          faults

vars == <<pc, key, answer, tasks, dead, outbox, faults>>

Init == /\ pc     = [r \in Request |-> "new"]
        /\ key    = [r \in Request |-> NoKey]
        /\ answer = [r \in Request |-> NoRequest]
        /\ tasks  = {}
        /\ dead   = {}
        /\ outbox = {}
        /\ faults = 0

\* Requests with a transaction, hence with a connection.
Open == {"insert", "inserted", "select"}
InTx == {r \in Request : pc[r] \in Open}
\* Mutation: the leader's lock pins one of the connections.
HasConn_Pinned == Cardinality(InTx) + 1 < MaxConns

HasConn == Cardinality(InTx) < MaxConns

SameKey(r, q) == key[r] = key[q] /\ key[r] # NoKey

\* Responses: 400, 201, 200, 500, and a client that is gone.
Over == {"refused", "created", "existing", "failed", "left"}

Goto(r, to) == pc' = [pc EXCEPT ![r] = to]
Fault       == faults < MaxFaults /\ faults' = faults + 1

-----------------------------------------------------------------------------
(* TaskHandler.CreateTask *)

\* A body that does not parse, no payload, or an empty key.
Refuse(r) ==
  /\ pc[r] = "new"
  /\ Goto(r, "refused")
  /\ UNCHANGED <<key, answer, tasks, dead, outbox, faults>>

Accept(r, k) ==
  /\ pc[r] = "new"
  /\ key' = [key EXCEPT ![r] = k]
  /\ Goto(r, "begin")
  /\ UNCHANGED <<answer, tasks, dead, outbox, faults>>

-----------------------------------------------------------------------------
(* TaskRepository.Create *)

Begin(r) ==
  /\ pc[r] = "begin"
  /\ HasConn
  /\ Goto(r, "insert")
  /\ UNCHANGED <<key, answer, tasks, dead, outbox, faults>>

\* Mutation: without the unique index.
Insert_Unindexed(r) ==
  /\ pc[r] = "insert"
  /\ Goto(r, "inserted")
  /\ UNCHANGED <<key, answer, tasks, dead, outbox, faults>>

\* Mutation: a look for the key, and then the INSERT.
Insert_Unguarded(r) ==
  /\ pc[r] = "insert"
  /\ ~ \E q \in tasks : SameKey(r, q)
  /\ Goto(r, "inserted")
  /\ UNCHANGED <<key, answer, tasks, dead, outbox, faults>>

\* No row has the key, and no open transaction inserted one.
Insert(r) ==
  /\ pc[r] = "insert"
  /\ ~ \E q \in tasks : SameKey(r, q)
  /\ ~ \E q \in Request : pc[q] = "inserted" /\ SameKey(r, q)
  /\ Goto(r, "inserted")
  /\ UNCHANGED <<key, answer, tasks, dead, outbox, faults>>

\* Mutation: ErrNoRows is an error like the others.
Conflict_Fails(r) ==
  /\ pc[r] = "insert"
  /\ \E q \in tasks : SameKey(r, q)
  /\ Goto(r, "failed")
  /\ UNCHANGED <<key, answer, tasks, dead, outbox, faults>>

\* ON CONFLICT DO NOTHING returns no row.
Conflict(r) ==
  /\ pc[r] = "insert"
  /\ \E q \in tasks : SameKey(r, q)
  /\ Goto(r, "select")
  /\ UNCHANGED <<key, answer, tasks, dead, outbox, faults>>

\* The row is read on a connection of its own; the transaction is rolled back.
Existing(r) ==
  /\ pc[r] = "select"
  /\ HasConn
  /\ \E q \in tasks : SameKey(r, q) /\ answer' = [answer EXCEPT ![r] = q]
  /\ Goto(r, "existing")
  /\ UNCHANGED <<key, tasks, dead, outbox, faults>>

\* The row is no longer there: "failed to fetch existing task".
Vanished(r) ==
  /\ pc[r] = "select"
  /\ HasConn
  /\ ~ \E q \in tasks : SameKey(r, q)
  /\ Goto(r, "failed")
  /\ UNCHANGED <<key, answer, tasks, dead, outbox, faults>>

\* Mutation: the event is written after the transaction, if at all.
Commit_NoEvent(r) ==
  /\ pc[r] = "inserted"
  /\ tasks' = tasks \cup {r}
  /\ answer' = [answer EXCEPT ![r] = r]
  /\ Goto(r, "created")
  /\ UNCHANGED <<key, dead, outbox, faults>>

\* insertOutboxEvent and Commit.
Commit(r) ==
  /\ pc[r] = "inserted"
  /\ tasks' = tasks \cup {r}
  /\ outbox' = outbox \cup {r}
  /\ answer' = [answer EXCEPT ![r] = r]
  /\ Goto(r, "created")
  /\ UNCHANGED <<key, dead, faults>>

\* The commit takes place and its answer is lost.
CommitLost(r) ==
  /\ pc[r] = "inserted"
  /\ tasks' = tasks \cup {r}
  /\ outbox' = outbox \cup {r}
  /\ Goto(r, "failed")
  /\ Fault
  /\ UNCHANGED <<key, answer, dead>>

\* A call fails, and the transaction is rolled back.
CallFails(r) ==
  /\ pc[r] \in Open \cup {"begin"}
  /\ Goto(r, "failed")
  /\ Fault
  /\ UNCHANGED <<key, answer, tasks, dead, outbox>>

\* The client goes away, and its request's context with it.
Leave(r) ==
  /\ pc[r] \in Open \cup {"begin"}
  /\ Goto(r, "left")
  /\ UNCHANGED <<key, answer, tasks, dead, outbox, faults>>

-----------------------------------------------------------------------------
\* MoveToDLQ of a task, by a worker of this or another instance.
MoveToDLQ(t) ==
  /\ t \in tasks \cap Mortal
  /\ tasks' = tasks \ {t}
  /\ dead' = dead \cup {t}
  /\ UNCHANGED <<pc, key, answer, outbox, faults>>

-----------------------------------------------------------------------------
Serve(r) == \/ Begin(r) \/ Insert(r) \/ Conflict(r)
            \/ Existing(r) \/ Vanished(r) \/ Commit(r)

Next == \E r \in Request :
          \/ Refuse(r) \/ \E k \in Key \cup {NoKey} : Accept(r, k)
          \/ Serve(r) \/ CommitLost(r) \/ CallFails(r) \/ Leave(r)
          \/ MoveToDLQ(r)

Spec == Init /\ [][Next]_vars

(***************************************************************************)
(* Fairness: the server serves the requests it accepted.  Clients come and *)
(* go as they like; a request without a client need not be waited for.     *)
(* Connections are handed out in the order in which they were asked for,   *)
(* so that a request that can have one again and again gets one.           *)
(***************************************************************************)
FairSpec == Spec /\ \A r \in Request : SF_vars(Serve(r))

-----------------------------------------------------------------------------
(* Properties *)

(* A key has one live task at most, and two requests with that key are     *)
(* told of the same one, unless a task they are told of was dead-lettered  *)
(* and its key freed.                                                      *)
SameKeySameTask ==
  /\ \A t, u \in tasks : SameKey(t, u) => t = u
  /\ \A r, q \in Request :
       (SameKey(r, q) /\ NoRequest \notin {answer[r], answer[q]})
         => answer[r] = answer[q] \/ {answer[r], answer[q]} \cap dead # {}

(* A task is in the table or dead if and only if its event is in the       *)
(* outbox, whatever became of the request and its transaction.             *)
EventsMatchTasks == outbox = tasks \cup dead

(* Without failed calls, the one way for a request to fail is that the     *)
(* task of its key was dead-lettered while the request looked for it.      *)
FailuresHaveCauses ==
  \A r \in Request :
    pc[r] = "failed" /\ faults = 0 => \E t \in dead : SameKey(r, t)

(* The transaction, the unique index and the second look on a conflict     *)
(* amount to one atomic operation: a request creates its task at a moment  *)
(* when no other has the key, or is told of one that has it at that        *)
(* moment, or has no effect, but for the lost answer of a commit.          *)
Stage(at) == CASE at = "new" -> "new" [] at \in Over -> "over" [] OTHER -> "asked"

Creation == INSTANCE AtomicCreate WITH state <- [r \in Request |-> Stage(pc[r])],
                                       live  <- tasks

IsAtomic == Creation!Spec

(* Every accepted request is answered, or its client leaves, as long as    *)
(* fewer duplicates than connections look for their task at a time.        *)
RequestsEnd == \A r \in Request : pc[r] = "begin" ~> pc[r] \in Over

(* The second request of a key is told of the first one's task.            *)
DuplicatesAreAnswered ==
  \A r \in Request : pc[r] = "select" ~> pc[r] \in {"existing", "left"}
=============================================================================

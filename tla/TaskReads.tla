----------------------------- MODULE TaskReads -----------------------------
(***************************************************************************)
(* A client that looks for tasks: with GET /tasks or GET /tasks/{id}, and  *)
(* then, for what it did not find, with GET /dlq.  Each request is one     *)
(* SELECT, hence one snapshot; the queue goes on between them.             *)
(***************************************************************************)
EXTENDS TaskQueue

VARIABLE view   \* what the client asked for and was told

NoView == [asked |-> {}, found |-> {}, dead |-> {}, over |-> TRUE]

Submitted == {t \in Task : tasks[t].status # "unborn"}

ReadInit == Init /\ view = NoView

\* GET /tasks, or GET /tasks/{id} with its 404, for the submitted tasks of T.
LookUp(T) == view' = [asked |-> T \cap Submitted,
                      found |-> {t \in T : Present(tasks[t])},
                      dead  |-> {},
                      over  |-> FALSE]

GetTasks   == view.over /\ LookUp(Task)
GetTask(t) == view.over /\ LookUp({t})

\* GET /dlq.
GetDeadLetterTasks ==
  /\ ~ view.over
  /\ view' = [view EXCEPT !.dead = {t \in Task : \E d \in DeadId : dlq[d].orig = t},
                          !.over = TRUE]

Read == GetTasks \/ GetDeadLetterTasks \/ \E t \in Task : GetTask(t)

ReadNext == \/ Next /\ UNCHANGED view
            \/ Read /\ UNCHANGED vars

ReadSpec == ReadInit /\ [][ReadNext]_<<vars, view>>

-----------------------------------------------------------------------------
(* A client that asks for the tasks first and for the dead letters second  *)
(* overlooks none, though its requests are no transaction and the queue    *)
(* moves tasks, and recovers and retries them, in between.                 *)
NothingOverlooked == view.over => view.asked \subseteq view.found \cup view.dead
=============================================================================

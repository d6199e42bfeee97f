------------------------- MODULE Submission_proofs -------------------------
(***************************************************************************)
(* What submissions with idempotency keys promise, for any requests, keys, *)
(* connections and failures.                                               *)
(***************************************************************************)
EXTENDS Submission, TLAPS

TypeOK == /\ pc \in [Request -> {"new", "begin"} \cup Open \cup Over]
          /\ key \in [Request -> Key \cup {NoKey}]
          /\ answer \in [Request -> Request \cup {NoRequest}]
          /\ tasks \subseteq Request
          /\ dead \subseteq Request
          /\ faults \in Nat

Born     == tasks \cup dead
Inserted == {r \in Request : pc[r] = "inserted"}

\* A task is the work of a request that was not refused.
BornLate == /\ \A t \in Born : pc[t] \in {"created", "failed"}
            /\ \A r \in Request : pc[r] = "new" => answer[r] = NoRequest

\* The unique index, over the rows of committed and open transactions.
OneOfAKey == \A t, u \in tasks \cup Inserted : SameKey(t, u) => t = u

\* A response names a task of the request's own, or of its key.
AnswersFit == \A r \in Request :
                answer[r] # NoRequest =>
                  answer[r] \in Born /\ key[answer[r]] = key[r]

\* Who looks for the task of a key does so because there was one.
LooksForSome == \A r \in Request :
                  pc[r] = "select" => \E t \in Born : SameKey(r, t)

SubmissionInv == /\ TypeOK /\ BornLate /\ OneOfAKey /\ AnswersFit
                 /\ LooksForSome /\ EventsMatchTasks /\ FailuresHaveCauses

(* The invariant holds before the first request.                           *)
LEMMA InitSubmission == Init => SubmissionInv
<1> SUFFICES ASSUME Init PROVE SubmissionInv
  OBVIOUS
<1>1. TypeOK
  BY PoolAssumption DEF Init, TypeOK
<1> QED
  BY <1>1 DEF Init, SubmissionInv, BornLate, OneOfAKey, AnswersFit, LooksForSome,
     EventsMatchTasks, FailuresHaveCauses, Born, Inserted, SameKey

(* A request that goes from one place to another, without a task or an     *)
(* answer.                                                                 *)
LEMMA Moves ==
  ASSUME SubmissionInv, NEW r \in Request, NEW to,
         pc[r] \notin {"created", "failed"},
         Goto(r, to),
         to \in {"begin"} \cup Open \cup Over,
         UNCHANGED <<key, answer, tasks, dead, outbox>>,
         faults' \in Nat, faults' >= faults,
         to = "inserted" => \A t \in tasks \cup Inserted : ~ SameKey(r, t),
         to = "select" => \E t \in Born : SameKey(r, t),
         to = "failed" => faults' > 0 \/ \E t \in dead : SameKey(r, t)
  PROVE  SubmissionInv'
<1>1. /\ pc' = [pc EXCEPT ![r] = to]
      /\ pc'[r] = to
      /\ \A q \in Request : q # r => pc'[q] = pc[q]
  BY DEF Goto, SubmissionInv, TypeOK
<1>2. TypeOK'
  BY <1>1 DEF SubmissionInv, TypeOK
<1>3. \A q, t : SameKey(q, t)' <=> SameKey(q, t)
  BY DEF SameKey
<1>4. Born' = Born /\ r \notin Born /\ Born \subseteq Request
  BY DEF Born, SubmissionInv, BornLate, TypeOK
<1>5. Inserted' \subseteq Inserted \cup {r} /\ (to # "inserted" => Inserted' \subseteq Inserted)
  BY <1>1 DEF Inserted
<1>6. BornLate'
  BY <1>1, <1>4 DEF SubmissionInv, BornLate, Open, Over
<1>7. OneOfAKey'
  <2> SUFFICES ASSUME NEW t \in tasks \cup Inserted', NEW u \in tasks \cup Inserted',
                      SameKey(t, u), t # u
               PROVE  FALSE
    BY <1>3 DEF OneOfAKey
  <2>1. SameKey(u, t)
    BY DEF SameKey
  <2>2. CASE t = r \/ u = r
    <3>1. r \in Inserted'
      BY <1>4, <2>2 DEF Born
    <3>2. to = "inserted"
      BY <1>1, <3>1 DEF Inserted
    <3> QED
      BY <1>5, <2>1, <2>2, <3>2
  <2>3. CASE t # r /\ u # r
    BY <1>5, <2>3 DEF SubmissionInv, OneOfAKey
  <2> QED
    BY <2>2, <2>3
<1>8. AnswersFit'
  BY <1>4 DEF SubmissionInv, AnswersFit
<1>9. LooksForSome'
  BY <1>1, <1>3, <1>4 DEF SubmissionInv, LooksForSome
<1>10. EventsMatchTasks'
  BY DEF SubmissionInv, EventsMatchTasks
<1>11. FailuresHaveCauses'
  <2> SUFFICES ASSUME NEW q \in Request, pc'[q] = "failed", faults' = 0
               PROVE  \E t \in dead : SameKey(q, t)
    BY <1>3 DEF FailuresHaveCauses
  <2>1. faults = 0
    BY DEF SubmissionInv, TypeOK
  <2> QED
    BY <1>1, <2>1 DEF SubmissionInv, FailuresHaveCauses
<1> QED
  BY <1>2, <1>6, <1>7, <1>8, <1>9, <1>10, <1>11 DEF SubmissionInv

(* A transaction that inserted commits, whether or not its answer arrives. *)
LEMMA Commits ==
  ASSUME SubmissionInv, NEW r \in Request, Commit(r) \/ CommitLost(r)
  PROVE  SubmissionInv'
<1> DEFINE to == IF Commit(r) THEN "created" ELSE "failed"
<1>1. /\ pc[r] = "inserted"
      /\ pc' = [pc EXCEPT ![r] = to]
      /\ pc'[r] \in {"created", "failed"}
      /\ \A q \in Request : q # r => pc'[q] = pc[q]
  BY DEF Commit, CommitLost, Goto, SubmissionInv, TypeOK
<1>2. /\ tasks' = tasks \cup {r} /\ outbox' = outbox \cup {r}
      /\ UNCHANGED <<key, dead>>
      /\ faults' \in Nat /\ faults' >= faults
      /\ pc'[r] = "failed" => faults' > 0
      /\ answer' = answer \/ answer' = [answer EXCEPT ![r] = r]
  BY <1>1 DEF Commit, CommitLost, Fault, Goto, SubmissionInv, TypeOK
<1>3. TypeOK'
  BY <1>1, <1>2 DEF SubmissionInv, TypeOK, Over
<1>4. \A q, t : SameKey(q, t)' <=> SameKey(q, t)
  BY <1>2 DEF SameKey
<1>5. Born' = Born \cup {r}
  BY <1>2 DEF Born
<1>6. r \in Inserted /\ Inserted' \subseteq Inserted
  BY <1>1 DEF Inserted
<1>7. BornLate'
  <2>1. \A q \in Request : pc'[q] = "new" => q # r /\ pc[q] = "new"
    BY <1>1
  <2>2. \A q \in Request : q # r => answer'[q] = answer[q]
    BY <1>2 DEF SubmissionInv, TypeOK
  <2>3. Born \subseteq Request
    BY DEF Born, SubmissionInv, TypeOK
  <2> QED
    BY <1>1, <1>5, <2>1, <2>2, <2>3 DEF SubmissionInv, BornLate
<1>8. OneOfAKey'
  BY <1>2, <1>4, <1>6 DEF SubmissionInv, OneOfAKey
<1>9. AnswersFit'
  BY <1>2, <1>5 DEF SubmissionInv, AnswersFit, TypeOK
<1>10. LooksForSome'
  BY <1>1, <1>4, <1>5 DEF SubmissionInv, LooksForSome
<1>11. EventsMatchTasks'
  BY <1>2 DEF SubmissionInv, EventsMatchTasks
<1>12. FailuresHaveCauses'
  <2> SUFFICES ASSUME NEW q \in Request, pc'[q] = "failed", faults' = 0
               PROVE  \E t \in dead : SameKey(q, t)
    BY <1>2, <1>4 DEF FailuresHaveCauses
  <2>1. faults = 0 /\ q # r
    BY <1>2 DEF SubmissionInv, TypeOK
  <2> QED
    BY <1>1, <2>1 DEF SubmissionInv, FailuresHaveCauses
<1> QED
  BY <1>3, <1>7, <1>8, <1>9, <1>10, <1>11, <1>12 DEF SubmissionInv

(* A duplicate is told of the task that has its key.                       *)
LEMMA Answers ==
  ASSUME SubmissionInv, NEW r \in Request, Existing(r)
  PROVE  SubmissionInv'
<1>1. PICK q \in tasks : SameKey(r, q) /\ answer' = [answer EXCEPT ![r] = q]
  BY DEF Existing
<1>2. /\ pc[r] = "select"
      /\ pc' = [pc EXCEPT ![r] = "existing"]
      /\ pc'[r] = "existing"
      /\ \A p \in Request : p # r => pc'[p] = pc[p]
      /\ UNCHANGED <<key, tasks, dead, outbox, faults>>
  BY DEF Existing, Goto, SubmissionInv, TypeOK
<1>3. \A p, t : SameKey(p, t)' <=> SameKey(p, t)
  BY <1>2 DEF SameKey
<1>4. Born' = Born /\ r \notin Born /\ q \in Born /\ Born \subseteq Request
  BY <1>2 DEF Born, SubmissionInv, BornLate, TypeOK
<1>5. TypeOK'
  BY <1>1, <1>2 DEF SubmissionInv, TypeOK, Over
<1>6. \A p \in Request : answer'[p] = IF p = r THEN q ELSE answer[p]
  BY <1>1 DEF SubmissionInv, TypeOK
<1>7. BornLate'
  BY <1>2, <1>4, <1>6 DEF SubmissionInv, BornLate
<1>8. OneOfAKey'
  <2>1. Inserted' \subseteq Inserted
    BY <1>2 DEF Inserted
  <2> QED
    BY <1>2, <1>3, <2>1 DEF SubmissionInv, OneOfAKey
<1>9. AnswersFit'
  BY <1>1, <1>2, <1>4, <1>6 DEF SubmissionInv, AnswersFit, SameKey
<1>10. LooksForSome'
  BY <1>2, <1>3, <1>4 DEF SubmissionInv, LooksForSome
<1>11. EventsMatchTasks' /\ FailuresHaveCauses'
  BY <1>2, <1>3 DEF SubmissionInv, EventsMatchTasks, FailuresHaveCauses
<1> QED
  BY <1>5, <1>7, <1>8, <1>9, <1>10, <1>11 DEF SubmissionInv

(* A request gets its key before there is anything of it.                  *)
LEMMA Accepts ==
  ASSUME SubmissionInv, NEW r \in Request, NEW k \in Key \cup {NoKey}, Accept(r, k)
  PROVE  SubmissionInv'
<1>1. /\ pc[r] = "new"
      /\ key' = [key EXCEPT ![r] = k]
      /\ \A q \in Request : q # r => key'[q] = key[q]
      /\ pc' = [pc EXCEPT ![r] = "begin"]
      /\ pc'[r] = "begin"
      /\ \A q \in Request : q # r => pc'[q] = pc[q]
      /\ UNCHANGED <<answer, tasks, dead, outbox, faults>>
  BY DEF Accept, Goto, SubmissionInv, TypeOK
<1>2. TypeOK'
  BY <1>1 DEF SubmissionInv, TypeOK
<1>3. Born' = Born /\ r \notin Born /\ Born \subseteq Request /\ answer[r] = NoRequest
  BY <1>1 DEF Born, SubmissionInv, BornLate, TypeOK
<1>4. Inserted' = Inserted /\ r \notin Inserted
  BY <1>1 DEF Inserted
<1>5. \A q, t \in Request : q # r /\ t # r => (SameKey(q, t)' <=> SameKey(q, t))
  BY <1>1 DEF SameKey
<1>6. BornLate'
  BY <1>1, <1>3 DEF SubmissionInv, BornLate
<1>7. OneOfAKey'
  <2>1. tasks \cup Inserted \subseteq Request \ {r}
    BY <1>3, <1>4 DEF Born, Inserted
  <2> QED
    BY <1>1, <1>4, <1>5, <2>1 DEF SubmissionInv, OneOfAKey
<1>8. AnswersFit'
  <2> SUFFICES ASSUME NEW q \in Request, answer[q] # NoRequest
               PROVE  answer[q] \in Born /\ key'[answer[q]] = key'[q]
    BY <1>1, <1>3 DEF AnswersFit
  <2>1. answer[q] \in Born /\ key[answer[q]] = key[q]
    BY DEF SubmissionInv, AnswersFit
  <2> QED
    BY <1>1, <1>3, <2>1
<1>9. LooksForSome'
  <2> SUFFICES ASSUME NEW q \in Request, pc'[q] = "select"
               PROVE  \E t \in Born : SameKey(q, t)'
    BY <1>3 DEF LooksForSome
  <2>1. q # r /\ pc[q] = "select"
    BY <1>1
  <2>2. PICK t \in Born : SameKey(q, t)
    BY <2>1 DEF SubmissionInv, LooksForSome
  <2> QED
    BY <1>3, <1>5, <2>1, <2>2
<1>10. EventsMatchTasks'
  BY <1>1 DEF SubmissionInv, EventsMatchTasks
<1>11. FailuresHaveCauses'
  <2> SUFFICES ASSUME NEW q \in Request, pc'[q] = "failed", faults = 0
               PROVE  \E t \in dead : SameKey(q, t)'
    BY <1>1 DEF FailuresHaveCauses
  <2>1. q # r /\ pc[q] = "failed"
    BY <1>1
  <2>2. PICK t \in dead : SameKey(q, t)
    BY <2>1 DEF SubmissionInv, FailuresHaveCauses
  <2>3. t \in Born
    BY DEF Born
  <2> QED
    BY <1>3, <1>5, <2>1, <2>2, <2>3
<1> QED
  BY <1>2, <1>6, <1>7, <1>8, <1>9, <1>10, <1>11 DEF SubmissionInv

(* A dead task is a task still, as far as events and answers go.           *)
LEMMA Dies ==
  ASSUME SubmissionInv, NEW t \in Request, MoveToDLQ(t)
  PROVE  SubmissionInv'
<1>1. /\ t \in tasks /\ tasks' = tasks \ {t} /\ dead' = dead \cup {t}
      /\ UNCHANGED <<pc, key, answer, outbox, faults>>
  BY DEF MoveToDLQ
<1>2. Born' = Born /\ Inserted' = Inserted
  BY <1>1 DEF Born, Inserted
<1>3. \A p, q : SameKey(p, q)' <=> SameKey(p, q)
  BY <1>1 DEF SameKey
<1>4. TypeOK' /\ BornLate' /\ AnswersFit'
  BY <1>1, <1>2 DEF SubmissionInv, TypeOK, BornLate, AnswersFit
<1>5. OneOfAKey' /\ LooksForSome'
  BY <1>1, <1>2, <1>3 DEF SubmissionInv, OneOfAKey, LooksForSome
<1>6. EventsMatchTasks' /\ FailuresHaveCauses'
  BY <1>1, <1>3 DEF SubmissionInv, EventsMatchTasks, FailuresHaveCauses
<1> QED
  BY <1>4, <1>5, <1>6 DEF SubmissionInv

(* Every step keeps the invariant.                                         *)
LEMMA NextSubmission == SubmissionInv /\ [Next]_vars => SubmissionInv'
<1> SUFFICES ASSUME SubmissionInv, [Next]_vars PROVE SubmissionInv'
  OBVIOUS
<1>1. faults \in Nat /\ 0 + faults >= faults
  BY DEF SubmissionInv, TypeOK
<1>2. CASE UNCHANGED vars
  BY <1>2 DEF vars, SubmissionInv, TypeOK, BornLate, OneOfAKey, AnswersFit, LooksForSome,
     EventsMatchTasks, FailuresHaveCauses, Born, Inserted, SameKey
<1>3. ASSUME NEW r \in Request, Refuse(r) PROVE SubmissionInv'
  BY <1>1, <1>3, Moves DEF Refuse, Over
<1>4. ASSUME NEW r \in Request, NEW k \in Key \cup {NoKey}, Accept(r, k) PROVE SubmissionInv'
  BY <1>4, Accepts
<1>5. ASSUME NEW r \in Request, Begin(r) PROVE SubmissionInv'
  BY <1>1, <1>5, Moves DEF Begin, Open
<1>6. ASSUME NEW r \in Request, Insert(r) PROVE SubmissionInv'
  <2>1. \A t \in tasks \cup Inserted : ~ SameKey(r, t)
    BY <1>6 DEF Insert, Inserted
  <2> QED
    BY <1>1, <1>6, <2>1, Moves DEF Insert, Open
<1>7. ASSUME NEW r \in Request, Conflict(r) PROVE SubmissionInv'
  <2>1. \E t \in Born : SameKey(r, t)
    BY <1>7 DEF Conflict, Born
  <2> QED
    BY <1>1, <1>7, <2>1, Moves DEF Conflict, Open
<1>8. ASSUME NEW r \in Request, Existing(r) PROVE SubmissionInv'
  BY <1>8, Answers
<1>9. ASSUME NEW r \in Request, Vanished(r) PROVE SubmissionInv'
  <2>1. \E t \in Born : SameKey(r, t)
    BY <1>9 DEF Vanished, SubmissionInv, LooksForSome
  <2>2. \E t \in dead : SameKey(r, t)
    BY <1>9, <2>1 DEF Vanished, Born
  <2> QED
    BY <1>1, <1>9, <2>2, Moves DEF Vanished, Over
<1>10. ASSUME NEW r \in Request, Commit(r) \/ CommitLost(r) PROVE SubmissionInv'
  BY <1>10, Commits
<1>11. ASSUME NEW r \in Request, CallFails(r) PROVE SubmissionInv'
  BY <1>1, <1>11, Moves DEF CallFails, Fault, Open, Over
<1>12. ASSUME NEW r \in Request, Leave(r) PROVE SubmissionInv'
  BY <1>1, <1>12, Moves DEF Leave, Open, Over
<1>13. ASSUME NEW r \in Request, MoveToDLQ(r) PROVE SubmissionInv'
  BY <1>13, Dies
<1> QED
  BY <1>2, <1>3, <1>4, <1>5, <1>6, <1>7, <1>8, <1>9, <1>10, <1>11, <1>12, <1>13
  DEF Next, Serve

(* The submissions keep their invariant.                                   *)
LEMMA SubmissionInvariant == Spec => []SubmissionInv
  BY InitSubmission, NextSubmission, PTL DEF Spec

(* A key has one live task, and its requests are told of that one.         *)
THEOREM KeysAreIdempotent == Spec => []SameKeySameTask
<1>1. SubmissionInv => SameKeySameTask
  <2> SUFFICES ASSUME SubmissionInv PROVE SameKeySameTask
    OBVIOUS
  <2>1. \A t, u \in tasks : SameKey(t, u) => t = u
    BY DEF SubmissionInv, OneOfAKey
  <2>2. ASSUME NEW r \in Request, NEW q \in Request, SameKey(r, q),
               NoRequest \notin {answer[r], answer[q]},
               {answer[r], answer[q]} \cap dead = {}
        PROVE  answer[r] = answer[q]
    <3>1. /\ answer[r] \in Born /\ key[answer[r]] = key[r]
          /\ answer[q] \in Born /\ key[answer[q]] = key[q]
      BY <2>2 DEF SubmissionInv, AnswersFit
    <3>2. answer[r] \in tasks /\ answer[q] \in tasks
      BY <2>2, <3>1 DEF Born
    <3>3. SameKey(answer[r], answer[q])
      BY <2>2, <3>1 DEF SameKey
    <3> QED
      BY <2>1, <3>2, <3>3
  <2> QED
    BY <2>1, <2>2 DEF SameKeySameTask
<1> QED
  BY <1>1, SubmissionInvariant, PTL

(* Every task has its event, and no event is without a task.               *)
THEOREM EventPerTask == Spec => []EventsMatchTasks
<1>1. SubmissionInv => EventsMatchTasks
  BY DEF SubmissionInv
<1> QED
  BY <1>1, SubmissionInvariant, PTL

(* A request fails for a failed call or for the death of its key's task.   *)
THEOREM FailuresExplained == Spec => []FailuresHaveCauses
<1>1. SubmissionInv => FailuresHaveCauses
  BY DEF SubmissionInv
<1> QED
  BY <1>1, SubmissionInvariant, PTL
-----------------------------------------------------------------------------
(* Submission as one atomic operation *)

stages == [r \in Request |-> Stage(pc[r])]

(* Where the stages of a request are.                                      *)
LEMMA Stages ==
  /\ Stage("new") = "new"
  /\ \A at \in {"begin"} \cup Open : Stage(at) = "asked"
  /\ \A at \in Over : Stage(at) = "over"
  BY DEF Stage, Open, Over

(* A request that moves changes its own stage, to that of where it goes.   *)
LEMMA StageMoves ==
  ASSUME SubmissionInv, NEW r \in Request, NEW to, Goto(r, to)
  PROVE  stages' = [stages EXCEPT ![r] = Stage(to)]
<1> HIDE DEF Stage
<1>1. /\ pc'[r] = to /\ \A q \in Request : q # r => pc'[q] = pc[q]
  BY DEF Goto, SubmissionInv, TypeOK
<1> QED
  BY <1>1 DEF stages

(* A request that goes on within its transaction, or ends without effect.  *)
LEMMA Quiet ==
  ASSUME SubmissionInv, NEW r \in Request, NEW to,
         Goto(r, to), UNCHANGED <<key, answer, tasks>>,
         \/ pc[r] \in {"begin"} \cup Open /\ to \in {"begin"} \cup Open \cup Over
         \/ pc[r] = "new" /\ to \in Over
  PROVE  Creation!Next \/ UNCHANGED <<stages, key, answer, tasks>>
<1>1. stages' = [stages EXCEPT ![r] = Stage(to)]
  BY StageMoves
<1>2. DOMAIN stages = Request /\ stages[r] = Stage(pc[r])
  BY DEF stages
<1>7. CASE to \in Over
  <2>1. Creation!Fail(r)
    <3>1. stages[r] \in {"new", "asked"} /\ stages' = [stages EXCEPT ![r] = "over"]
      BY <1>1, <1>2, <1>7, Stages
    <3> QED
      BY <3>1 DEF Creation!Fail, stages
  <2> QED
    BY <2>1 DEF Creation!Next
<1>8. CASE to \notin Over
  <2>1. stages' = [stages EXCEPT ![r] = stages[r]]
    BY <1>1, <1>2, <1>8, Stages DEF Over
  <2>2. stages' = stages
    BY <2>1 DEF stages
  <2> QED
    BY <2>2
<1> QED
  BY <1>7, <1>8

(* A commit creates the task at a moment when no other has its key, thanks *)
(* to the index; a conflict is answered with one that has it.              *)
LEMMA AtomicStep ==
  ASSUME SubmissionInv, [Next]_vars
  PROVE  Creation!Next \/ UNCHANGED <<stages, key, answer, tasks>>
<1> DEFINE Goal == Creation!Next \/ UNCHANGED <<stages, key, answer, tasks>>
<1>1. ASSUME NEW r \in Request, Refuse(r) PROVE Goal
  BY <1>1, Quiet DEF Refuse, Over
<1>2. ASSUME NEW r \in Request, NEW k \in Key \cup {NoKey}, Accept(r, k) PROVE Goal
  <2>1. stages' = [stages EXCEPT ![r] = "asked"]
    BY <1>2, StageMoves, Stages DEF Accept
  <2>2. stages[r] = "new"
    BY <1>2, Stages DEF Accept, stages
  <2>3. Creation!Ask(r, k)
    BY <1>2, <2>1, <2>2 DEF Accept, Creation!Ask, stages
  <2> QED
    BY <2>3 DEF Creation!Next
<1>3. ASSUME NEW r \in Request,
             \/ Begin(r) \/ Insert(r) \/ Conflict(r) \/ Vanished(r) \/ CallFails(r) \/ Leave(r)
      PROVE  Goal
  BY <1>3, Quiet DEF Begin, Insert, Conflict, Vanished, CallFails, Leave, Open, Over
<1>4. ASSUME NEW r \in Request, Existing(r) PROVE Goal
  <2>1. stages' = [stages EXCEPT ![r] = "over"]
    BY <1>4, StageMoves, Stages DEF Existing, Over
  <2>2. stages[r] = "asked"
    BY <1>4, Stages DEF Existing, stages, Open
  <2>3. \E q \in tasks : Creation!HasKeyOf(q, r) /\ answer' = [answer EXCEPT ![r] = q]
    BY <1>4 DEF Existing, SameKey, Creation!HasKeyOf
  <2>4. Creation!Find(r)
    BY <1>4, <2>1, <2>2, <2>3 DEF Existing, Creation!Find, stages
  <2> QED
    BY <2>4 DEF Creation!Next
<1>5. ASSUME NEW r \in Request, Commit(r) \/ CommitLost(r) PROVE Goal
  <2>1. stages' = [stages EXCEPT ![r] = "over"]
    BY <1>5, StageMoves, Stages DEF Commit, CommitLost, Over
  <2>2. stages[r] = "asked" /\ pc[r] = "inserted"
    BY <1>5, Stages DEF Commit, CommitLost, stages, Open
  <2>3. ~ \E q \in tasks : Creation!HasKeyOf(q, r)
    <3> SUFFICES ASSUME NEW q \in tasks, SameKey(q, r) PROVE FALSE
      BY DEF SameKey, Creation!HasKeyOf
    <3>1. r \in Inserted /\ pc[q] # "inserted"
      BY <2>2 DEF Inserted, SubmissionInv, BornLate, Born
    <3>2. q = r
      BY <3>1 DEF SubmissionInv, OneOfAKey
    <3> QED
      BY <2>2, <3>1, <3>2
  <2>4. /\ tasks' = tasks \cup {r} /\ key' = key
        /\ answer' \in {answer, [answer EXCEPT ![r] = r]}
    BY <1>5 DEF Commit, CommitLost
  <2>5. Creation!Create(r)
    BY <2>1, <2>2, <2>3, <2>4 DEF Creation!Create, stages
  <2> QED
    BY <2>5 DEF Creation!Next
<1>6. ASSUME NEW r \in Request, MoveToDLQ(r) PROVE Goal
  <2>1. stages' = stages
    BY <1>6 DEF MoveToDLQ, stages
  <2>2. Creation!Die(r)
    BY <1>6, <2>1 DEF MoveToDLQ, Creation!Die, stages
  <2> QED
    BY <2>2 DEF Creation!Next
<1>7. ASSUME UNCHANGED vars PROVE Goal
  BY <1>7 DEF vars, stages
<1> HIDE DEF Goal
<1>8. Goal
  BY <1>1, <1>2, <1>3, <1>4, <1>5, <1>6, <1>7 DEF Next, Serve
<1> QED
  BY <1>8 DEF Goal

(* The statements of a request, its waits and its second connection amount *)
(* to one operation that takes effect at one instant: it finds the task of *)
(* its key alive, or creates its own where there is none.                  *)
THEOREM SubmissionIsAtomic == Spec => IsAtomic
<1>1. Init => Creation!Init
  BY Stages DEF Init, Creation!Init
<1>2. SubmissionInv /\ [Next]_vars => [Creation!Next]_(Creation!vars)
  BY AtomicStep DEF Creation!vars, stages
<1> QED
  BY <1>1, <1>2, SubmissionInvariant, PTL DEF Spec, IsAtomic, Creation!Spec
=============================================================================

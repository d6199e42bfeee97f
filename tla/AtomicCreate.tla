---------------------------- MODULE AtomicCreate ----------------------------
(***************************************************************************)
(* What POST /tasks promises: each request takes effect at one instant, if *)
(* at all.  Then it creates a task, because none that lives has its key,   *)
(* or it finds one that lives and has it.  A request that fails or is      *)
(* abandoned may have created its task; an answered one never acts again.  *)
(***************************************************************************)
CONSTANTS Request, NoRequest, Key, NoKey

VARIABLES state,    \* of each request
          key,      \* of each request
          answer,   \* the task it is told of
          live      \* tasks, named after the requests that created them

vars == <<state, key, answer, live>>

Init == /\ state  = [r \in Request |-> "new"]
        /\ key    = [r \in Request |-> NoKey]
        /\ answer = [r \in Request |-> NoRequest]
        /\ live   = {}

HasKeyOf(q, r) == key[r] # NoKey /\ key[q] = key[r]

Ask(r, k) == /\ state[r] = "new"
             /\ state' = [state EXCEPT ![r] = "asked"]
             /\ key' = [key EXCEPT ![r] = k]
             /\ UNCHANGED <<answer, live>>

\* The answer may get lost.
Create(r) == /\ state[r] = "asked"
             /\ ~ \E q \in live : HasKeyOf(q, r)
             /\ live' = live \cup {r}
             /\ answer' \in {answer, [answer EXCEPT ![r] = r]}
             /\ state' = [state EXCEPT ![r] = "over"]
             /\ UNCHANGED key

Find(r) == /\ state[r] = "asked"
           /\ \E q \in live : HasKeyOf(q, r) /\ answer' = [answer EXCEPT ![r] = q]
           /\ state' = [state EXCEPT ![r] = "over"]
           /\ UNCHANGED <<key, live>>

Fail(r) == /\ state[r] \in {"new", "asked"}
           /\ state' = [state EXCEPT ![r] = "over"]
           /\ UNCHANGED <<key, answer, live>>

\* A task dies, and frees its key.
Die(t) == /\ t \in live
          /\ live' = live \ {t}
          /\ UNCHANGED <<state, key, answer>>

Next == \E r \in Request : \/ \E k \in Key \cup {NoKey} : Ask(r, k)
                           \/ Create(r) \/ Find(r) \/ Fail(r) \/ Die(r)

Spec == Init /\ [][Next]_vars
=============================================================================

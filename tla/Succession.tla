----------------------------- MODULE Succession -----------------------------
(***************************************************************************)
(* What the leader election promises.  Among the instances that stand for  *)
(* it one leads at a time, and one more for every title that was lost      *)
(* unnoticed; an instance leads once and until it leaves; and while any    *)
(* instance stands, the lead does not stay vacant.                         *)
(***************************************************************************)
EXTENDS Naturals, FiniteSets

CONSTANT Instance

VARIABLES standing,   \* instances whose coordinator runs
          leading,    \* instances whose recovery loops run
          lost        \* titles lost so far

vars == <<standing, leading, lost>>

Init == standing = {} /\ leading = {} /\ lost = 0

\* Whatever else happens, a title may be lost with it.
Lose == lost' \in {lost, lost + 1}

Stand(i) == /\ i \notin standing
            /\ standing' = standing \cup {i}
            /\ UNCHANGED leading
            /\ Lose

Elect(i) == /\ i \in standing \ leading
            /\ Cardinality(leading) <= lost
            /\ leading' = leading \cup {i}
            /\ UNCHANGED standing
            /\ Lose

Leave(i) == /\ i \in standing
            /\ standing' = standing \ {i}
            /\ leading' = leading \ {i}
            /\ Lose

LoseTitle == Lose /\ UNCHANGED <<standing, leading>>

Next == LoseTitle \/ \E i \in Instance : Stand(i) \/ Elect(i) \/ Leave(i)

Spec     == Init /\ [][Next]_vars
FairSpec == Spec /\ WF_vars(leading = {} /\ \E i \in Instance : Elect(i))
=============================================================================

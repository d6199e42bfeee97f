------------------------- MODULE Leadership_proofs -------------------------
(***************************************************************************)
(* The election is a succession, for any instances and any number of       *)
(* broken sessions and failed queries.  (That a lead does not stay vacant  *)
(* is left to the model checker.)                                          *)
(*                                                                         *)
(* Every instance that leads claims the lock, that is, its session was     *)
(* granted it; and of the claimants one holds it, while each of the others *)
(* has lost it to a broken session.                                        *)
(***************************************************************************)
EXTENDS Leadership, FiniteSetTheorems, TLAPS

TypeOK == /\ main \in [Instance -> {"off", "up", "stopping", "released", "down"}]
          /\ lock \in Instance \cup {NoInstance, Orphan}
          /\ leaderConn \subseteq Instance
          /\ tick \in [Instance -> {"off", "select", "asked", "granted", "true", "false", "done"}]
          /\ isLeader \subseteq Instance
          /\ loops \in [Instance -> {"off", "on"}]
          /\ breaks \in Nat

\* Coordinator, connection and loops of one instance agree.
Coherent(i) ==
  /\ main[i] \in {"off", "down"} =>
       tick[i] = "off" /\ i \notin leaderConn /\ i \notin isLeader /\ loops[i] = "off"
  /\ main[i] = "released" => tick[i] = "done"
  /\ tick[i] \in {"asked", "granted", "false"} => i \notin leaderConn
  /\ tick[i] = "true" => i \in leaderConn
  /\ loops[i] = "on" => i \in isLeader
  /\ i \in isLeader /\ main[i] \in {"up", "stopping"} => i \in leaderConn

Claimants == leaderConn \cup {i \in Instance : tick[i] = "granted"}

Deposed == Claimants \ {lock}

LossesCounted == IsFiniteSet(Claimants) /\ Cardinality(Deposed) <= breaks

LeaderInv == TypeOK /\ (\A i \in Instance : Coherent(i)) /\ LossesCounted

standing == {i \in Instance : main[i] = "up"}
leading  == {i \in Instance : Recovering(i)}

(* What an instance does, or what becomes of it, concerns its own state.   *)
LEMMA CoherentStep ==
  ASSUME TypeOK, \A i \in Instance : Coherent(i), [Next]_vars
  PROVE  TypeOK' /\ \A i \in Instance : Coherent(i)'
<1> DEFINE Goal == TypeOK' /\ \A i \in Instance : Coherent(i)'
<1>1. ASSUME NEW i \in Instance, Repeat(i) \/ Ask(i) \/ Grant(i) \/ Refuse(i) PROVE Goal
  BY <1>1 DEF Repeat, Ask, Grant, Refuse, TypeOK, Coherent, Cancelled
<1>2. ASSUME NEW i \in Instance, Pin(i) \/ AskFails(i) PROVE Goal
  BY <1>2 DEF Pin, AskFails, TypeOK, Coherent, Cancelled, Abandoned
<1>3. ASSUME NEW i \in Instance, ReactTrue(i) \/ ReactFalse(i) PROVE Goal
  BY <1>3 DEF ReactTrue, ReactFalse, TypeOK, Coherent
<1>4. ASSUME NEW i \in Instance, CoordinatorStops(i) \/ LoopsEnd(i) PROVE Goal
  BY <1>4 DEF CoordinatorStops, LoopsEnd, TypeOK, Coherent, Cancelled
<1>5. ASSUME NEW i \in Instance, Start(i) \/ Cancel(i) \/ ReleaseLeader(i) PROVE Goal
  BY <1>5 DEF Start, Cancel, ReleaseLeader, TypeOK, Coherent
<1>6. ASSUME NEW i \in Instance, End(i) PROVE Goal
  BY <1>6 DEF End, TypeOK, Coherent, Abandoned
<1>7. ASSUME OrphanEnds \/ SessionBreaks \/ UNCHANGED vars PROVE Goal
  BY <1>7 DEF OrphanEnds, SessionBreaks, vars, TypeOK, Coherent
<1> HIDE DEF Goal
<1>8. Goal
  BY <1>1, <1>2, <1>3, <1>4, <1>5, <1>6, <1>7 DEF Next, Tick, Exit, Crash
<1> QED
  BY <1>8 DEF Goal

(* Only a session that the server ends deposes a claimant.                 *)
LEMMA DeposedStep ==
  ASSUME LeaderInv, [Next]_vars
  PROVE  \/ SessionBreaks
         \/ /\ Deposed' \subseteq Deposed
            /\ UNCHANGED breaks
            /\ \E i : Claimants' \subseteq Claimants \cup {i}
         \/ UNCHANGED <<leaderConn, tick, lock, breaks>>
<1> DEFINE Goal == \/ SessionBreaks
                   \/ /\ Deposed' \subseteq Deposed
                      /\ UNCHANGED breaks
                      /\ \E i : Claimants' \subseteq Claimants \cup {i}
                   \/ UNCHANGED <<leaderConn, tick, lock, breaks>>
<1> USE DEF LeaderInv, TypeOK, Claimants, Deposed
<1>1. ASSUME NEW i \in Instance, Repeat(i) \/ Ask(i) \/ Refuse(i) PROVE Goal
  <2>1. Claimants' \subseteq Claimants /\ UNCHANGED <<lock, breaks>>
    BY <1>1 DEF Repeat, Ask, Refuse
  <2> QED
    BY <2>1
<1>2. ASSUME NEW i \in Instance, Grant(i) PROVE Goal
  <2>1. Claimants' \subseteq Claimants \cup {i} /\ lock = NoInstance /\ lock' = i
        /\ UNCHANGED breaks
    BY <1>2 DEF Grant
  <2>2. Claimants \subseteq Instance
    OBVIOUS
  <2> QED
    BY <2>1, <2>2, HolderAssumption
<1>3. ASSUME NEW i \in Instance, Pin(i) PROVE Goal
  <2>1. Claimants' \subseteq Claimants /\ UNCHANGED <<lock, breaks>>
    BY <1>3 DEF Pin
  <2> QED
    BY <2>1
<1>4. ASSUME NEW i \in Instance, AskFails(i) \/ ReleaseLeader(i) \/ End(i) PROVE Goal
  <2>1. Claimants' \subseteq Claimants \ {i} /\ UNCHANGED breaks
    <3>1. CASE AskFails(i)
      BY <3>1 DEF AskFails, Coherent
    <3>2. CASE ReleaseLeader(i)
      BY <3>2 DEF ReleaseLeader
    <3>3. CASE End(i)
      BY <3>3 DEF End
    <3> QED
      BY <1>4, <3>1, <3>2, <3>3
  <2>2. lock' = lock \/ lock = i
    BY <1>4 DEF AskFails, ReleaseLeader, End, Abandoned
  <2> QED
    BY <2>1, <2>2
<1>5. ASSUME NEW i \in Instance, ReactTrue(i) \/ ReactFalse(i) \/ CoordinatorStops(i)
      PROVE  Goal
  <2>1. Claimants' \subseteq Claimants /\ UNCHANGED <<lock, breaks>>
    BY <1>5 DEF ReactTrue, ReactFalse, CoordinatorStops
  <2> QED
    BY <2>1
<1>6. ASSUME NEW i \in Instance, LoopsEnd(i) \/ Cancel(i) PROVE Goal
  BY <1>6 DEF LoopsEnd, Cancel
<1>7. ASSUME NEW i \in Instance, Start(i) PROVE Goal
  <2>1. Claimants' \subseteq Claimants /\ UNCHANGED <<lock, breaks>>
    BY <1>7 DEF Start
  <2> QED
    BY <2>1
<1>8. ASSUME OrphanEnds PROVE Goal
  <2>1. UNCHANGED <<leaderConn, tick, breaks>> /\ lock = Orphan
    BY <1>8 DEF OrphanEnds
  <2>2. Claimants' = Claimants /\ Deposed = Claimants
    BY <2>1, HolderAssumption
  <2> QED
    BY <2>1, <2>2
<1>9. ASSUME UNCHANGED vars PROVE Goal
  BY <1>9 DEF vars
<1>10. ASSUME SessionBreaks PROVE Goal
  BY <1>10
<1> HIDE DEF Goal, LeaderInv, TypeOK, Claimants, Deposed
<1>11. Goal
  BY <1>1, <1>2, <1>3, <1>4, <1>5, <1>6, <1>7, <1>8, <1>9, <1>10 DEF Next, Tick, Exit, Crash
<1> QED
  BY <1>11 DEF Goal

(* The claimants that do not hold the lock are as many as sessions broke,  *)
(* at most.                                                                *)
LEMMA LeaderStep == LeaderInv /\ [Next]_vars => LeaderInv'
<1> SUFFICES ASSUME LeaderInv, [Next]_vars PROVE LeaderInv'
  OBVIOUS
<1>1. TypeOK' /\ \A i \in Instance : Coherent(i)'
  BY CoherentStep DEF LeaderInv
<1>2. IsFiniteSet(Deposed) /\ Cardinality(Deposed) \in Nat /\ breaks \in Nat
  BY FS_Subset, FS_CardinalityType DEF Deposed, LeaderInv, LossesCounted, TypeOK
<1>3. LossesCounted'
  <2>1. CASE SessionBreaks
    <3>1. Claimants' = Claimants /\ breaks' = breaks + 1
      BY <2>1 DEF SessionBreaks, Claimants
    <3>2. IsFiniteSet(Deposed \cup {lock}) /\ Cardinality(Deposed \cup {lock}) <= breaks'
      <4>1. Cardinality(Deposed) <= breaks
        BY DEF LeaderInv, LossesCounted
      <4>2. /\ IsFiniteSet(Deposed \cup {lock})
            /\ \/ Cardinality(Deposed \cup {lock}) = Cardinality(Deposed)
               \/ Cardinality(Deposed \cup {lock}) = Cardinality(Deposed) + 1
        BY <1>2, FS_AddElement
      <4> QED
        BY <1>2, <3>1, <4>1, <4>2
    <3>3. Deposed' \in SUBSET (Deposed \cup {lock})
      BY <3>1 DEF Deposed
    <3>4. Cardinality(Deposed') <= Cardinality(Deposed \cup {lock})
      BY <3>2, <3>3, FS_Subset
    <3>5. Cardinality(Deposed') \in Nat /\ Cardinality(Deposed \cup {lock}) \in Nat
      BY <3>2, <3>3, FS_Subset, FS_CardinalityType
    <3> QED
      BY <1>2, <3>1, <3>2, <3>4, <3>5 DEF LeaderInv, LossesCounted
  <2>2. CASE /\ Deposed' \subseteq Deposed
             /\ UNCHANGED breaks
             /\ \E i : Claimants' \subseteq Claimants \cup {i}
    <3>1. PICK i : Claimants' \in SUBSET (Claimants \cup {i})
      BY <2>2
    <3>2. IsFiniteSet(Claimants')
      BY <3>1, FS_AddElement, FS_Subset DEF LeaderInv, LossesCounted
    <3>3. Cardinality(Deposed') <= Cardinality(Deposed) /\ Cardinality(Deposed') \in Nat
      BY <1>2, <2>2, FS_Subset, FS_CardinalityType
    <3> QED
      BY <1>2, <2>2, <3>2, <3>3 DEF LeaderInv, LossesCounted
  <2>3. CASE UNCHANGED <<leaderConn, tick, lock, breaks>>
    BY <2>3 DEF LeaderInv, LossesCounted, Deposed, Claimants
  <2> QED
    BY <2>1, <2>2, <2>3, DeposedStep
<1> QED
  BY <1>1, <1>3 DEF LeaderInv

(* Nobody claims the lock at first.                                        *)
LEMMA LeaderInit == Init => LeaderInv
<1> SUFFICES ASSUME Init PROVE LeaderInv
  OBVIOUS
<1>1. TypeOK /\ \A i \in Instance : Coherent(i)
  BY DEF Init, TypeOK, Coherent
<1>2. Claimants = {} /\ Deposed = {}
  BY DEF Init, Claimants, Deposed
<1> QED
  BY <1>1, <1>2, FS_EmptySet DEF Init, LeaderInv, LossesCounted

(* Who becomes leader claims the lock: either nobody else leads but those  *)
(* who lost it, or the new leader has lost it too.                         *)
LEMMA RoomForOne ==
  ASSUME LeaderInv, NEW i \in Instance, i \in leaderConn, i \notin leading
  PROVE  Cardinality(leading) <= breaks
<1>1. leading \subseteq Claimants
  BY DEF leading, Recovering, LeaderInv, TypeOK, Coherent, Claimants
<1>2. i \in Claimants
  BY DEF Claimants
<1>3. IsFiniteSet(Claimants) /\ IsFiniteSet(Deposed) /\ IsFiniteSet(leading)
  BY <1>1, FS_Subset DEF Deposed, LeaderInv, LossesCounted
<1>4. /\ Cardinality(Deposed) \in Nat /\ Cardinality(leading) \in Nat
      /\ Cardinality(Deposed) <= breaks /\ breaks \in Nat
  BY <1>3, FS_CardinalityType DEF LeaderInv, LossesCounted, TypeOK
<1>5. Cardinality(leading) <= Cardinality(Deposed)
  <2>1. CASE lock \notin leading
    BY <1>1, <1>3, <2>1, FS_Subset DEF Deposed
  <2>2. CASE lock \in leading
    <3> DEFINE others == leading \ {lock}
    <3>1. IsFiniteSet(others) /\ Cardinality(others) = Cardinality(leading) - 1
      BY <1>3, <2>2, FS_RemoveElement
    <3>2. i \notin others /\ others \cup {i} \in SUBSET Deposed
      BY <1>1, <1>2, <2>2 DEF Deposed
    <3>3. Cardinality(others \cup {i}) = Cardinality(leading)
      <4> HIDE DEF others
      <4>1. Cardinality(others \cup {i}) = Cardinality(others) + 1
        BY <3>1, <3>2, FS_AddElement
      <4> QED
        BY <1>4, <3>1, <4>1
    <3>4. Cardinality(others \cup {i}) <= Cardinality(Deposed)
      BY <1>3, <3>2, FS_Subset
    <3> QED
      BY <3>3, <3>4
  <2> QED
    BY <2>1, <2>2
<1> QED
  BY <1>4, <1>5

(* Every step of the election is one of the succession, or none.           *)
LEMMA SuccessionStep ==
  ASSUME LeaderInv, [Next]_vars
  PROVE  Elections!Next \/ UNCHANGED <<standing, leading, breaks>>
<1> DEFINE Same == UNCHANGED <<standing, leading, breaks>>
           Goal == Elections!Next \/ Same
<1> USE DEF LeaderInv, TypeOK, standing, leading, Recovering
<1>1. ASSUME NEW i \in Instance,
             \/ Repeat(i) \/ Ask(i) \/ Grant(i) \/ Refuse(i) \/ Pin(i) \/ AskFails(i)
             \/ CoordinatorStops(i)
      PROVE  Goal
  BY <1>1 DEF Repeat, Ask, Grant, Refuse, Pin, AskFails, CoordinatorStops
<1>2. ASSUME NEW i \in Instance, ReactTrue(i) PROVE Goal
  <2>1. i \in leaderConn
    BY <1>2 DEF ReactTrue, Coherent
  <2>2. CASE i \in standing \ leading /\ i \notin isLeader
    <3>1. standing' = standing /\ leading' = leading \cup {i} /\ breaks' = breaks
      BY <1>2, <2>2 DEF ReactTrue
    <3>2. Cardinality(leading) <= breaks
      BY <2>1, <2>2, RoomForOne
    <3>3. Elections!Cardinality(leading) = Cardinality(leading)
      BY DEF Cardinality, Elections!Cardinality
    <3>4. Elections!Elect(i)
      BY <2>2, <3>1, <3>2, <3>3 DEF Elections!Elect, Elections!Lose
    <3> QED
      BY <3>4 DEF Elections!Next
  <2>3. CASE ~ (i \in standing \ leading /\ i \notin isLeader)
    <3>1. i \notin isLeader => loops[i] # "on"
      BY DEF Coherent
    <3> QED
      BY <1>2, <2>3, <3>1 DEF ReactTrue
  <2> QED
    BY <2>2, <2>3
<1>3. ASSUME NEW i \in Instance, ReactFalse(i) PROVE Goal
  <2>1. ~ (main[i] = "up" /\ i \in isLeader)
    BY <1>3 DEF ReactFalse, Coherent
  <2> QED
    BY <1>3, <2>1 DEF ReactFalse
<1>4. ASSUME NEW i \in Instance, LoopsEnd(i) \/ ReleaseLeader(i) \/ Exit(i) PROVE Goal
  BY <1>4 DEF LoopsEnd, ReleaseLeader, Exit, End, Cancelled
<1>5. ASSUME NEW i \in Instance, Start(i) PROVE Goal
  <2>1. i \notin standing /\ standing' = standing \cup {i}
        /\ leading' = leading /\ breaks' = breaks
    BY <1>5 DEF Start, Coherent
  <2>2. Elections!Stand(i)
    BY <2>1 DEF Elections!Stand, Elections!Lose
  <2> QED
    BY <2>2 DEF Elections!Next
<1>6. ASSUME NEW i \in Instance, Cancel(i) \/ Crash(i) PROVE Goal
  <2>1. CASE main[i] = "up"
    <3>1. i \in standing /\ standing' = standing \ {i}
          /\ leading' = leading \ {i} /\ breaks' = breaks
      BY <1>6, <2>1 DEF Cancel, Crash, End
    <3>2. Elections!Leave(i)
      BY <3>1 DEF Elections!Leave, Elections!Lose
    <3> QED
      BY <3>2 DEF Elections!Next
  <2>2. CASE main[i] # "up"
    BY <1>6, <2>2 DEF Cancel, Crash, End
  <2> QED
    BY <2>1, <2>2
<1>7. ASSUME OrphanEnds \/ UNCHANGED vars PROVE Goal
  BY <1>7 DEF OrphanEnds, vars
<1>8. ASSUME SessionBreaks PROVE Goal
  <2>1. standing' = standing /\ leading' = leading /\ breaks' = breaks + 1
    BY <1>8 DEF SessionBreaks
  <2> QED
    BY <2>1 DEF Elections!Next, Elections!LoseTitle, Elections!Lose
<1> HIDE DEF Goal, LeaderInv, TypeOK, standing, leading, Recovering
<1>9. Goal
  BY <1>1, <1>2, <1>3, <1>4, <1>5, <1>6, <1>7, <1>8 DEF Next, Tick
<1> QED
  BY <1>9 DEF Goal

(* One instance recovers tasks at a time, and one more for every session   *)
(* the server ended; each is elected once and leads until it is told to    *)
(* stop, through every handover, crash, failed query and failed unlock.    *)
THEOREM ElectsOneByOne == Spec => Elections!Spec
<1>1. Init => Elections!Init
  BY DEF Init, Elections!Init, Recovering
<1>2. LeaderInv /\ [Next]_vars => [Elections!Next]_(Elections!vars)
  BY SuccessionStep DEF Elections!vars, standing, leading
<1> QED
  BY <1>1, <1>2, LeaderInit, LeaderStep, PTL DEF Spec, Elections!Spec
=============================================================================

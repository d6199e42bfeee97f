------------------------- MODULE OutboxRelay_proofs -------------------------
(***************************************************************************)
(* The safety of the relay for any number of events, instances, batches,   *)
(* rebalances and faults.                                                  *)
(***************************************************************************)
EXTENDS OutboxRelay, SequenceTheorems, TLAPS

Outboxes == [Event -> {"none", "unpublished", "published", "old", "purged"}]

Cycle == [phase : {"idle", "publishing", "purging"},
          todo : SUBSET Event, sent : SUBSET Event]

\* A consumer, when the log has n messages.
Reader(n) == [phase : {"fetching", "claiming", "committing"},
              msg : 0..n, next : 1..(n + 1)]

(* Every variable has its type in the beginning.                           *)
LEMMA InitTypeOK == Init => TypeOK
  BY RelayAssumption DEF Init, TypeOK, Idle, Fetching

(* A message is appended as unseen; nothing else becomes of the log.       *)
LEMMA Delivered ==
  ASSUME TypeOK, NEW m \in Event \cup {Garbage}, Deliver(m)
  PROVE  /\ log' \in Seq(Event \cup {Garbage}) /\ Len(log') = Len(log) + 1
         /\ fate' \in Seq({"unseen", "answered", "failed"}) /\ Len(fate') = Len(log')
         /\ \A n \in 1..Len(log) : log'[n] = log[n] /\ fate'[n] = fate[n]
         /\ log'[Len(log')] = m
  BY DEF TypeOK, Deliver

(* The oldest of a set of events are some of them.                         *)
LEMMA OldestType == \A n, E : Oldest(n, E) \subseteq E
  BY DEF Oldest

(* A consumer that had its type has it when the log has grown.             *)
LEMMA Readers ==
  ASSUME NEW n \in Nat, NEW k \in Nat, n <= k
  PROVE  Reader(n) \subseteq Reader(k)
  BY DEF Reader

(* Every step of the publishers keeps the types.                           *)
LEMMA PublisherTypeOK ==
  ASSUME TypeOK, NEW i \in Instance, PublisherNext(i)
  PROVE  TypeOK'
<1> publisher \in [Instance -> Cycle] /\ consumer \in [Instance -> Reader(Len(log))]
  BY DEF TypeOK, Cycle, Reader
<1>0. Len(log) \in Nat
  BY DEF TypeOK
<1>1. ASSUME NEW c \in Cycle, publisher' = [publisher EXCEPT ![i] = c],
             UNCHANGED <<topic, up>>, outbox' \in Outboxes,
             faults' = faults \/ Fault
      PROVE  TypeOK'
  BY <1>1, RelayAssumption DEF Outboxes, TypeOK, topic, group, Fault, Cycle
<1>2. ASSUME NEW c \in Cycle, NEW e \in Event, publisher' = [publisher EXCEPT ![i] = c],
             Deliver(e), UNCHANGED <<outbox, committed, owner, up, consumer, assigns>>,
             faults' = faults \/ Fault
      PROVE  TypeOK'
  <2>1. /\ log' \in Seq(Event \cup {Garbage}) /\ Len(log') = Len(log) + 1
        /\ fate' \in Seq({"unseen", "answered", "failed"}) /\ Len(fate') = Len(log')
    BY <1>2, Delivered
  <2>2. consumer' \in [Instance -> Reader(Len(log'))]
    BY <1>0, <1>2, <2>1, Readers
  <2> QED
    BY <1>2, <2>1, <2>2, <1>0, RelayAssumption DEF TypeOK, Fault, Cycle, Reader
<1>3. CASE GetUnpublished(i)
  <2>1. Publishing(Oldest(BatchSize, Unpublished)) \in Cycle
    BY OldestType DEF Publishing, Cycle, Unpublished
  <2> QED
    BY <1>1, <1>3, <2>1 DEF Outboxes, GetUnpublished, TypeOK
<1>4. ASSUME NEW e \in Event, Publish(i, e) \/ PublishFails(i, e) PROVE TypeOK'
  <2>1. publisher[i] \in Cycle
    OBVIOUS
  <2>2. [publisher[i] EXCEPT !.todo = @ \ {e}] \in Cycle
    BY <2>1 DEF Cycle
  <2>3. [publisher[i] EXCEPT !.todo = @ \ {e}, !.sent = @ \cup {e}] \in Cycle
    BY <2>1 DEF Cycle
  <2>4. CASE Publish(i, e)
    <3>1. publisher' = [publisher EXCEPT ![i] = [publisher[i] EXCEPT !.todo = @ \ {e},
                                                                     !.sent = @ \cup {e}]]
      BY <2>4 DEF Publish
    <3> QED
      BY <1>2, <2>3, <2>4, <3>1 DEF Publish
  <2>5. CASE PublishFails(i, e)
    <3>1. publisher' = [publisher EXCEPT ![i] = [publisher[i] EXCEPT !.todo = @ \ {e}]]
      BY <2>5 DEF PublishFails
    <3> QED
      BY <1>1, <1>2, <2>2, <2>5, <3>1 DEF Outboxes, PublishFails, TypeOK, topic, group
  <2> QED
    BY <1>4, <2>4, <2>5
<1>5. CASE MarkPublished(i)
  <2>1. [publisher[i] EXCEPT !.phase = "purging", !.sent = {}] \in Cycle
    BY DEF Cycle
  <2>2. outbox' \in Outboxes
    BY <1>5 DEF Outboxes, MarkPublished, TypeOK
  <2> QED
    BY <1>1, <1>5, <2>1, <2>2 DEF MarkPublished
<1>6. CASE MarkFails(i) \/ Purge(i)
  <2>1. Idle \in Cycle
    BY DEF Idle, Cycle
  <2>2. outbox' \in Outboxes
    BY <1>6 DEF Outboxes, MarkFails, Purge, TypeOK
  <2> QED
    BY <1>1, <1>6, <2>1, <2>2 DEF MarkFails, Purge
<1> QED
  BY <1>3, <1>4, <1>5, <1>6 DEF PublisherNext

(* Every step of the consumers and of the broker keeps the types.          *)
LEMMA ConsumerTypeOK ==
  ASSUME TypeOK, NEW i \in Instance,
         Assign(i) \/ Consume(i) \/ ClaimFails(i) \/ CommitFails(i) \/ Stop(i)
  PROVE  TypeOK'
<1> publisher \in [Instance -> Cycle] /\ consumer \in [Instance -> Reader(Len(log))]
  BY DEF TypeOK, Cycle, Reader
<1>0. Len(log) \in Nat
  BY DEF TypeOK
<1>1. ASSUME NEW c \in Reader(Len(log)), consumer' = [consumer EXCEPT ![i] = c],
             UNCHANGED <<outbox, log, owner, up, publisher, assigns>>,
             fate' \in Seq({"unseen", "answered", "failed"}), Len(fate') = Len(log),
             committed' \in 0..Len(log),
             faults' = faults \/ Fault
      PROVE  TypeOK'
  BY <1>1, RelayAssumption DEF TypeOK, Fault, Reader
<1>2. /\ consumer[i] \in Reader(Len(log))
      /\ consumer[i].msg \in 0..Len(log) /\ consumer[i].next \in 1..(Len(log) + 1)
      /\ [phase |-> "fetching", msg |-> 0, next |-> consumer[i].next] \in Reader(Len(log))
      /\ [consumer[i] EXCEPT !.phase = "committing"] \in Reader(Len(log))
  BY <1>0 DEF Reader
<1>3. ASSUME NEW v \in {"answered", "failed"}, fate' = [fate EXCEPT ![consumer[i].msg] = v]
      PROVE  fate' \in Seq({"unseen", "answered", "failed"}) /\ Len(fate') = Len(fate)
  <2>1. fate \in Seq({"unseen", "answered", "failed"})
    BY DEF TypeOK
  <2>2. CASE consumer[i].msg \in 1..Len(fate)
    BY <1>3, <2>1, <2>2, ExceptSeq
  <2>3. CASE consumer[i].msg \notin 1..Len(fate)
    <3>1. fate' = fate
      BY <1>3, <2>1, <2>3
    <3> QED
      BY <2>1, <3>1
  <2> QED
    BY <2>2, <2>3
<1>4. CASE FetchMessage(i)
  <2>1. [phase |-> "claiming", msg |-> consumer[i].next, next |-> consumer[i].next + 1]
          \in Reader(Len(log))
    BY <1>0, <1>2, <1>4 DEF FetchMessage, Reader
  <2> QED
    BY <1>1, <1>4, <2>1 DEF FetchMessage, TypeOK
<1>5. CASE ClaimAnswered(i)
  BY <1>1, <1>2, <1>3, <1>5 DEF ClaimAnswered, TypeOK
<1>6. CASE ClaimFails(i)
  <2>1. \E v \in {"answered", "failed"} : fate' = [fate EXCEPT ![consumer[i].msg] = v]
    BY <1>6 DEF ClaimFails
  <2> QED
    BY <1>1, <1>2, <1>3, <1>6, <2>1 DEF ClaimFails, Fetching, TypeOK
<1>7. CASE CommitMessage(i) \/ CommitFails(i)
  BY <1>1, <1>2, <1>7 DEF CommitMessage, CommitFails, Fetching, TypeOK
<1>8. CASE Assign(i)
  <2>1. committed \in Nat /\ committed <= Len(log)
    BY <1>0 DEF TypeOK
  <2>2. [consumer[i] EXCEPT !.next = committed + 1] \in Reader(Len(log))
    <3>1. committed + 1 \in 1..Len(log) + 1
      BY <1>0, <2>1
    <3>2. \A n \in 1..Len(log) + 1, r \in Reader(Len(log)) :
            [r EXCEPT !.next = n] \in Reader(Len(log))
      BY DEF Reader
    <3> QED
      BY <1>2, <3>1, <3>2
  <2>3. consumer' \in [Instance -> Reader(Len(log))]
    BY <1>8, <2>2 DEF Assign
  <2>4. assigns' \in 0..MaxAssigns
    BY <1>8, RelayAssumption DEF Assign, TypeOK
  <2>5. owner' \in up' \cup {NoInstance}
    BY <1>8 DEF Assign
  <2>6. UNCHANGED <<outbox, log, fate, committed, up, publisher, faults>>
    BY <1>8 DEF Assign
  <2> QED
    BY <2>3, <2>4, <2>5, <2>6 DEF TypeOK, Reader
<1>9. CASE Stop(i)
  <2>1. Idle \in Cycle /\ Fetching(1) \in Reader(Len(log))
    BY <1>0 DEF Idle, Cycle, Fetching, Reader
  <2>2. publisher' \in [Instance -> Cycle] /\ consumer' \in [Instance -> Reader(Len(log))]
    BY <1>9, <2>1 DEF Stop
  <2> QED
    BY <1>9, <2>2, RelayAssumption DEF Stop, TypeOK, Cycle, Reader
<1> QED
  BY <1>4, <1>5, <1>6, <1>7, <1>8, <1>9 DEF Consume

(* Every step keeps the types.                                             *)
LEMMA NextTypeOK == TypeOK /\ [Next]_vars => TypeOK'
<1> SUFFICES ASSUME TypeOK, [Next]_vars PROVE TypeOK'
  OBVIOUS
<1>1. ASSUME NEW e \in Event, InsertOutboxEvent(e) \/ RetentionEnds(e) PROVE TypeOK'
  <2>1. outbox' \in Outboxes
    BY <1>1 DEF Outboxes, InsertOutboxEvent, RetentionEnds, TypeOK
  <2>2. UNCHANGED <<log, fate, committed, owner, up, publisher, consumer, assigns, faults>>
    BY <1>1 DEF InsertOutboxEvent, RetentionEnds, topic, group
  <2> QED
    BY <2>1, <2>2 DEF Outboxes, TypeOK
<1>2. CASE ForeignMessage
  <2>1. Deliver(Garbage) /\ Len(log) \in Nat
    BY <1>2 DEF ForeignMessage, TypeOK
  <2>2. /\ log' \in Seq(Event \cup {Garbage}) /\ Len(log') = Len(log) + 1
        /\ fate' \in Seq({"unseen", "answered", "failed"}) /\ Len(fate') = Len(log')
    BY <2>1, Delivered
  <2>3. consumer' \in [Instance -> Reader(Len(log'))]
    <3>1. consumer \in [Instance -> Reader(Len(log))] /\ consumer' = consumer
      BY <1>2 DEF TypeOK, ForeignMessage, Reader
    <3> QED
      BY <2>1, <2>2, <3>1, Readers
  <2> QED
    BY <1>2, <2>1, <2>2, <2>3 DEF ForeignMessage, TypeOK, Reader
<1>3. CASE UNCHANGED vars
  BY <1>3 DEF vars, TypeOK
<1> QED
  BY <1>1, <1>2, <1>3, PublisherTypeOK, ConsumerTypeOK DEF Next

(* Every variable has its type, in every behaviour.                        *)
THEOREM TypeCorrect == Spec => []TypeOK
  BY InitTypeOK, NextTypeOK, PTL DEF Spec

-----------------------------------------------------------------------------
(* Publication *)

\* What a publisher is about to mark is in the topic.
SentIsLogged == \A i \in Instance : publisher[i].sent \subseteq ToSet(log)

PublishInv == TypeOK /\ SentIsLogged /\ PublishedIsLogged

(* The topic only grows.                                                   *)
LEMMA LogGrows ==
  ASSUME TypeOK, NEW m \in Event \cup {Garbage}, Deliver(m)
  PROVE  ToSet(log) \cup {m} \subseteq ToSet(log')
<1>1. /\ DOMAIN log = 1..Len(log) /\ DOMAIN log' = 1..Len(log')
      /\ Len(log) \in Nat /\ Len(log') = Len(log) + 1
      /\ \A n \in 1..Len(log) : log'[n] = log[n]
      /\ log'[Len(log')] = m
  BY Delivered DEF TypeOK
<1>2. \A n \in DOMAIN log : n \in DOMAIN log' /\ log'[n] = log[n]
  BY <1>1
<1>3. Len(log') \in DOMAIN log'
  BY <1>1
<1> QED
  BY <1>1, <1>2, <1>3 DEF ToSet

(* A step that marks nothing and sends nothing unheard keeps the invariant.*)
LEMMA PublishKept ==
  ASSUME PublishInv, TypeOK', ToSet(log) \subseteq ToSet(log'),
         \A e \in Event : outbox'[e] \in {"published", "old", "purged"}
                            => \/ outbox[e] \in {"published", "old", "purged"}
                               \/ \E i \in Instance : e \in publisher[i].sent,
         \A i \in Instance : publisher'[i].sent \subseteq publisher[i].sent \cup ToSet(log')
  PROVE  PublishInv'
<1>1. SentIsLogged'
  BY DEF PublishInv, SentIsLogged
<1>2. PublishedIsLogged'
  BY DEF PublishInv, SentIsLogged, PublishedIsLogged
<1> QED
  BY <1>1, <1>2 DEF PublishInv

(* Every step keeps the invariant of publication.                          *)
LEMMA NextPublish == PublishInv /\ [Next]_vars => PublishInv'
<1> SUFFICES ASSUME PublishInv, [Next]_vars PROVE PublishInv'
  OBVIOUS
<1>1. TypeOK /\ TypeOK'
  BY NextTypeOK DEF PublishInv
<1>2. publisher \in [Instance -> Cycle]
  BY <1>1 DEF TypeOK, Cycle
<1>3. CASE UNCHANGED <<outbox, log, publisher>>
  BY <1>1, <1>3, PublishKept
<1>4. ASSUME NEW e \in Event, InsertOutboxEvent(e) \/ RetentionEnds(e) PROVE PublishInv'
  <2>1. UNCHANGED <<log, publisher>>
    BY <1>4 DEF InsertOutboxEvent, RetentionEnds, topic
  <2>2. \A d \in Event : outbox'[d] \in {"published", "old", "purged"}
                           => outbox[d] \in {"published", "old", "purged"}
    BY <1>1, <1>4 DEF Outboxes, InsertOutboxEvent, RetentionEnds, TypeOK
  <2> QED
    BY <1>1, <2>1, <2>2, PublishKept
<1>5. CASE ForeignMessage
  <2>1. Deliver(Garbage) /\ UNCHANGED <<outbox, publisher>>
    BY <1>5 DEF ForeignMessage
  <2>2. ToSet(log) \subseteq ToSet(log')
    BY <1>1, <2>1, LogGrows
  <2> QED
    BY <1>1, <2>1, <2>2, PublishKept
<1>6. ASSUME NEW i \in Instance, NEW c, publisher' = [publisher EXCEPT ![i] = c],
             c.sent \subseteq publisher[i].sent \cup ToSet(log')
      PROVE  \A k \in Instance : publisher'[k].sent \subseteq publisher[k].sent \cup ToSet(log')
  BY <1>2, <1>6
<1>7. ASSUME NEW i \in Instance, GetUnpublished(i) \/ MarkFails(i) \/ Purge(i) PROVE PublishInv'
  <2>1. UNCHANGED log
    BY <1>7 DEF GetUnpublished, MarkFails, Purge, topic
  <2>2. \A d \in Event : outbox'[d] \in {"published", "old", "purged"}
                           => outbox[d] \in {"published", "old", "purged"}
    BY <1>1, <1>7 DEF GetUnpublished, MarkFails, Purge, TypeOK
  <2>3. Idle.sent = {} /\ \A E : Publishing(E).sent = {}
    BY DEF Idle, Publishing
  <2>4. \A k \in Instance : publisher'[k].sent \subseteq publisher[k].sent \cup ToSet(log')
    BY <1>6, <1>7, <2>3 DEF GetUnpublished, MarkFails, Purge
  <2> QED
    BY <1>1, <2>1, <2>2, <2>4, PublishKept
<1>8. ASSUME NEW i \in Instance, MarkPublished(i) PROVE PublishInv'
  <2>1. UNCHANGED log
    BY <1>8 DEF MarkPublished, topic
  <2>2. \A d \in Event : outbox'[d] \in {"published", "old", "purged"}
                           => \/ outbox[d] \in {"published", "old", "purged"}
                              \/ d \in publisher[i].sent
    BY <1>8 DEF MarkPublished
  <2>3. \A k \in Instance : publisher'[k].sent \subseteq publisher[k].sent \cup ToSet(log')
    <3> DEFINE c == [publisher[i] EXCEPT !.phase = "purging", !.sent = {}]
    <3>1. c.sent = {}
      BY <1>2 DEF Cycle
    <3>2. publisher' = [publisher EXCEPT ![i] = c]
      BY <1>8 DEF MarkPublished
    <3> HIDE DEF c
    <3> QED
      BY <1>6, <3>1, <3>2
  <2> QED
    BY <1>1, <2>1, <2>2, <2>3, PublishKept
<1>9. ASSUME NEW i \in Instance, NEW e \in Event, Publish(i, e) PROVE PublishInv'
  <2>1. Deliver(e) /\ UNCHANGED outbox
    BY <1>9 DEF Publish
  <2>2. ToSet(log) \subseteq ToSet(log') /\ e \in ToSet(log')
    BY <1>1, <2>1, LogGrows
  <2>3. \A k \in Instance : publisher'[k].sent \subseteq publisher[k].sent \cup {e}
    BY <1>2, <1>9 DEF Publish, Cycle
  <2> QED
    BY <1>1, <2>1, <2>2, <2>3, PublishKept
<1>10. ASSUME NEW i \in Instance, NEW e \in Event, PublishFails(i, e) PROVE PublishInv'
  <2>1. UNCHANGED outbox /\ (Deliver(e) \/ UNCHANGED log)
    BY <1>10 DEF PublishFails
  <2>2. ToSet(log) \subseteq ToSet(log')
    BY <1>1, <2>1, LogGrows
  <2>3. \A k \in Instance : publisher'[k].sent \subseteq publisher[k].sent
    BY <1>2, <1>10 DEF PublishFails, Cycle
  <2> QED
    BY <1>1, <2>1, <2>2, <2>3, PublishKept
<1>11. ASSUME NEW i \in Instance, Stop(i) PROVE PublishInv'
  <2>1. UNCHANGED <<outbox, log>> /\ publisher' = [publisher EXCEPT ![i] = Idle] /\ Idle.sent = {}
    BY <1>11 DEF Stop, Idle
  <2> QED
    BY <1>1, <1>6, <2>1, PublishKept
<1>12. ASSUME NEW i \in Instance, Assign(i) \/ Consume(i) \/ ClaimFails(i) \/ CommitFails(i)
       PROVE  PublishInv'
  BY <1>3, <1>12 DEF Assign, Consume, FetchMessage, ClaimAnswered, CommitMessage, ClaimFails,
     CommitFails
<1>13. CASE UNCHANGED vars
  BY <1>3, <1>13 DEF vars
<1> QED
  BY <1>4, <1>5, <1>7, <1>8, <1>9, <1>10, <1>11, <1>12, <1>13 DEF Next, PublisherNext

(* An event that is marked published is in the topic, whatever publishers  *)
(* read the same rows, fail or stop.                                       *)
THEOREM NothingDropped == Spec => []PublishedIsLogged
<1>1. Init => PublishInv
  BY InitTypeOK DEF Init, PublishInv, SentIsLogged, PublishedIsLogged, Idle
<1>2. PublishInv => PublishedIsLogged
  BY DEF PublishInv
<1> QED
  BY <1>1, <1>2, NextPublish, PTL DEF Spec

-----------------------------------------------------------------------------
(* Consumption *)

\* What a consumer has left behind was tried, by it or by the group: all it
\* passed but the message in hand, and that one when it comes to the commit.
ReadersSeen ==
  \A i \in Instance : \A n \in DOMAIN fate :
    LET c == consumer[i] IN
    fate[n] = "unseen" => /\ n >= c.msg
                          /\ n >= c.next \/ (n = c.msg /\ c.phase = "claiming")
                          /\ n = c.msg => c.phase = "claiming"

ConsumeInv == TypeOK /\ ReadersSeen /\ CommittedIsSeen

(* Fates that are only decided, or begin as unseen beyond the old end,     *)
(* leave what others passed seen.                                          *)
LEMMA ConsumeKept ==
  ASSUME ConsumeInv, TypeOK',
         \A n \in DOMAIN fate' : fate'[n] = "unseen"
            => (n \in DOMAIN fate /\ fate[n] = "unseen") \/ n > Len(log),
         NEW i \in Instance, \A k \in Instance : k # i => consumer'[k] = consumer[k],
         \A n \in DOMAIN fate' :
           LET c == consumer'[i] IN
           fate'[n] = "unseen" => /\ n >= c.msg
                                  /\ n >= c.next \/ (n = c.msg /\ c.phase = "claiming")
                                  /\ n = c.msg => c.phase = "claiming",
         \A n \in 1..committed' : n <= committed \/ fate'[n] # "unseen"
  PROVE  ConsumeInv'
<1>1. /\ consumer \in [Instance -> Reader(Len(log))] /\ Len(log) \in Nat
      /\ committed \in 0..Len(log)
      /\ DOMAIN fate = 1..Len(log)
      /\ committed' \in 0..Len(log') /\ DOMAIN fate' = 1..Len(log')
  BY DEF ConsumeInv, TypeOK, Reader
<1>2. ASSUME NEW k \in Instance, k # i, NEW n \in DOMAIN fate', fate'[n] = "unseen"
      PROVE  LET c == consumer'[k] IN
             /\ n >= c.msg
             /\ n >= c.next \/ (n = c.msg /\ c.phase = "claiming")
             /\ n = c.msg => c.phase = "claiming"
  <2>1. consumer'[k] = consumer[k]
    BY <1>2
  <2>2. consumer[k].msg \in 0..Len(log) /\ consumer[k].next \in 1..(Len(log) + 1)
    BY <1>1 DEF Reader
  <2>3. CASE n \in DOMAIN fate /\ fate[n] = "unseen"
    BY <2>1, <2>3 DEF ConsumeInv, ReadersSeen
  <2>4. CASE n > Len(log)
    BY <1>1, <2>1, <2>2, <2>4
  <2> QED
    BY <1>2, <2>3, <2>4
<1>4. ReadersSeen'
  BY <1>2 DEF ReadersSeen
<1>3. CommittedIsSeen'
  <2> SUFFICES ASSUME NEW n \in 1..committed', fate'[n] = "unseen" PROVE FALSE
    BY DEF CommittedIsSeen
  <2>1. n <= committed /\ n \in DOMAIN fate'
    BY <1>1
  <2>2. n \in DOMAIN fate /\ fate[n] = "unseen"
    BY <1>1, <2>1
  <2> QED
    BY <1>1, <2>1, <2>2 DEF ConsumeInv, CommittedIsSeen
<1> QED
  BY <1>3, <1>4 DEF ConsumeInv

(* Every step keeps the invariant of consumption.                          *)
LEMMA NextConsume == ConsumeInv /\ [Next]_vars => ConsumeInv'
<1> SUFFICES ASSUME ConsumeInv, [Next]_vars PROVE ConsumeInv'
  OBVIOUS
<1>1. /\ TypeOK /\ TypeOK'
      /\ consumer \in [Instance -> Reader(Len(log))] /\ Len(log) \in Nat
      /\ committed \in 0..Len(log) /\ DOMAIN fate = 1..Len(log) /\ Len(fate) = Len(log)
  <2>1. TypeOK /\ TypeOK'
    BY NextTypeOK DEF ConsumeInv
  <2>2. /\ consumer \in [Instance -> Reader(Len(log))]
        /\ log \in Seq(Event \cup {Garbage}) /\ committed \in 0..Len(log)
        /\ fate \in Seq({"unseen", "answered", "failed"}) /\ Len(fate) = Len(log)
    BY <2>1 DEF TypeOK, Reader
  <2>3. Len(log) \in Nat /\ DOMAIN fate = 1..Len(log)
    BY <2>2
  <2> QED
    BY <2>1, <2>2, <2>3
<1>2. CASE UNCHANGED <<log, fate, committed, consumer>>
  BY <1>1, <1>2 DEF ConsumeInv, ReadersSeen, CommittedIsSeen
<1>3. ASSUME NEW m \in Event \cup {Garbage}, Deliver(m), UNCHANGED <<committed, consumer>>
      PROVE  ConsumeInv'
  <2>1. /\ DOMAIN fate' = 1..(Len(log) + 1)
        /\ \A n \in 1..Len(log) : fate'[n] = fate[n]
    BY <1>1, <1>3, Delivered
  <2>2. ASSUME NEW k \in Instance, NEW n \in DOMAIN fate', fate'[n] = "unseen"
        PROVE  LET c == consumer'[k] IN
               /\ n >= c.msg
               /\ n >= c.next \/ (n = c.msg /\ c.phase = "claiming")
               /\ n = c.msg => c.phase = "claiming"
    <3>1. consumer[k].msg \in 0..Len(log) /\ consumer[k].next \in 1..(Len(log) + 1)
      BY <1>1 DEF Reader
    <3>2. CASE n \in 1..Len(log)
      BY <1>1, <1>3, <2>1, <2>2, <3>2 DEF ConsumeInv, ReadersSeen
    <3>3. CASE n = Len(log) + 1
      BY <1>1, <1>3, <3>1, <3>3
    <3> QED
      BY <1>1, <2>1, <3>2, <3>3
  <2>3. CommittedIsSeen'
    BY <1>1, <1>3, <2>1 DEF ConsumeInv, CommittedIsSeen
  <2> QED
    BY <1>1, <2>2, <2>3 DEF ConsumeInv, ReadersSeen
<1>4. ASSUME NEW i \in Instance, FetchMessage(i) PROVE ConsumeInv'
  <2>1. /\ consumer[i].next \in 1..Len(log) /\ UNCHANGED <<fate, committed>>
        /\ consumer[i].phase = "fetching"
        /\ consumer'[i].phase = "claiming" /\ consumer'[i].msg = consumer[i].next
        /\ consumer'[i].next = consumer[i].next + 1
        /\ \A k \in Instance : k # i => consumer'[k] = consumer[k]
    BY <1>1, <1>4 DEF FetchMessage, Reader
  <2>2. \A n \in DOMAIN fate : fate[n] = "unseen" => n >= consumer[i].next
    BY <2>1 DEF ConsumeInv, ReadersSeen
  <2> QED
    BY <1>1, <2>1, <2>2, ConsumeKept
<1>5. ASSUME NEW i \in Instance, ClaimAnswered(i) \/ ClaimFails(i) PROVE ConsumeInv'
  <2>1. /\ UNCHANGED <<log, committed>> /\ consumer[i].phase = "claiming"
        /\ \E v \in {"answered", "failed"} : fate' = [fate EXCEPT ![consumer[i].msg] = v]
        /\ \A k \in Instance : k # i => consumer'[k] = consumer[k]
    BY <1>1, <1>5 DEF ClaimAnswered, ClaimFails
  <2>2. /\ DOMAIN fate' = DOMAIN fate
        /\ \A n \in DOMAIN fate : IF n = consumer[i].msg THEN fate'[n] # "unseen"
                                                      ELSE fate'[n] = fate[n]
    BY <2>1
  <2>3. /\ consumer'[i].next = consumer[i].next
        /\ consumer'[i].msg \in {0, consumer[i].msg}
    BY <1>1, <1>5 DEF ClaimAnswered, ClaimFails, Fetching, Reader
  <2>4. ASSUME NEW n \in DOMAIN fate, fate'[n] = "unseen"
        PROVE  n # consumer[i].msg /\ n > consumer'[i].msg /\ n >= consumer[i].next
    <3>1. n # consumer[i].msg /\ fate[n] = "unseen"
      BY <2>2, <2>4
    <3>2. n >= consumer[i].msg /\ n >= consumer[i].next
      BY <3>1 DEF ConsumeInv, ReadersSeen
    <3>3. n \in Nat \ {0} /\ consumer[i].msg \in Nat
      BY <1>1 DEF Reader
    <3> QED
      BY <2>3, <3>1, <3>2, <3>3
  <2>5. consumer'[i].msg \in Nat /\ consumer'[i].next \in Nat /\ DOMAIN fate \subseteq Nat
    BY <1>1, <2>3 DEF Reader
  <2>6. \A n \in DOMAIN fate' : fate'[n] = "unseen" => n \in DOMAIN fate /\ fate[n] = "unseen"
    BY <2>2
  <2>7. \A n \in DOMAIN fate' :
          LET c == consumer'[i] IN
          fate'[n] = "unseen" => /\ n >= c.msg
                                 /\ n >= c.next \/ (n = c.msg /\ c.phase = "claiming")
                                 /\ n = c.msg => c.phase = "claiming"
    BY <2>2, <2>3, <2>4, <2>5
  <2>8. \A n \in 1..committed' : n <= committed
    BY <1>1, <2>1
  <2> QED
    BY <1>1, <2>1, <2>6, <2>7, <2>8, ConsumeKept
<1>6. ASSUME NEW i \in Instance, CommitMessage(i) \/ CommitFails(i) PROVE ConsumeInv'
  <2>1. /\ UNCHANGED <<log, fate>> /\ consumer[i].phase = "committing"
        /\ committed' \in {committed, consumer[i].msg}
        /\ \A k \in Instance : k # i => consumer'[k] = consumer[k]
    BY <1>1, <1>6 DEF CommitMessage, CommitFails
  <2>2. consumer'[i].msg = 0 /\ consumer'[i].next = consumer[i].next
    BY <1>1, <1>6 DEF CommitMessage, CommitFails, Fetching
  <2>3. consumer[i].msg \in 0..Len(log) /\ consumer[i].next \in Nat
    BY <1>1 DEF Reader
  <2>4. \A n \in DOMAIN fate : fate[n] = "unseen" => n > consumer[i].msg /\ n >= consumer[i].next
    BY <1>1, <2>1, <2>3 DEF ConsumeInv, ReadersSeen
  <2>5. \A n \in 1..committed' : n <= committed \/ fate'[n] # "unseen"
    BY <1>1, <2>1, <2>3, <2>4
  <2>6. \A n \in DOMAIN fate : fate[n] = "unseen" => n >= 0 /\ n # 0
    BY <1>1
  <2> QED
    BY <1>1, <2>1, <2>2, <2>4, <2>5, <2>6, ConsumeKept
<1>7. ASSUME NEW i \in Instance, Assign(i) PROVE ConsumeInv'
  <2>1. /\ UNCHANGED <<log, fate, committed>>
        /\ consumer'[i].msg = consumer[i].msg /\ consumer'[i].phase = consumer[i].phase
        /\ consumer'[i].next = committed + 1
        /\ \A k \in Instance : k # i => consumer'[k] = consumer[k]
    BY <1>1, <1>7 DEF Assign, Reader
  <2>2. \A n \in DOMAIN fate : fate[n] = "unseen" => n >= committed + 1
    BY <1>1 DEF ConsumeInv, CommittedIsSeen
  <2>3. \A n \in DOMAIN fate : fate[n] = "unseen"
          => n >= consumer[i].msg /\ (n = consumer[i].msg => consumer[i].phase = "claiming")
    BY DEF ConsumeInv, ReadersSeen
  <2> QED
    BY <1>1, <2>1, <2>2, <2>3, ConsumeKept
<1>8. ASSUME NEW i \in Instance, Stop(i) PROVE ConsumeInv'
  <2>1. /\ UNCHANGED <<log, fate, committed>>
        /\ consumer'[i].msg = 0 /\ consumer'[i].next = 1
        /\ \A k \in Instance : k # i => consumer'[k] = consumer[k]
    BY <1>1, <1>8 DEF Stop, Fetching
  <2>2. \A n \in DOMAIN fate : n >= 1 /\ n >= 0 /\ n # 0
    BY <1>1
  <2> QED
    BY <1>1, <2>1, <2>2, ConsumeKept
<1>9. ASSUME NEW e \in Event, InsertOutboxEvent(e) \/ RetentionEnds(e) PROVE ConsumeInv'
  BY <1>2, <1>9 DEF InsertOutboxEvent, RetentionEnds, topic, group
<1>10. CASE ForeignMessage
  BY <1>3, <1>10 DEF ForeignMessage
<1>11. ASSUME NEW i \in Instance, PublisherNext(i) PROVE ConsumeInv'
  BY <1>2, <1>3, <1>11 DEF PublisherNext, GetUnpublished, Publish, PublishFails, MarkPublished,
     MarkFails, Purge, topic, group
<1>12. CASE UNCHANGED vars
  BY <1>2, <1>12 DEF vars
<1> QED
  BY <1>4, <1>5, <1>6, <1>7, <1>8, <1>9, <1>10, <1>11, <1>12 DEF Next, Consume

(* The group's offset passes no message that no claim was tried for,       *)
(* whatever becomes of assignments, commits and consumers.                 *)
THEOREM NothingSkipped == Spec => []CommittedIsSeen
<1>1. Init => ConsumeInv
  BY InitTypeOK DEF Init, ConsumeInv, ReadersSeen, CommittedIsSeen
<1>2. ConsumeInv => CommittedIsSeen
  BY DEF ConsumeInv
<1> QED
  BY <1>1, <1>2, NextConsume, PTL DEF Spec
-----------------------------------------------------------------------------
(* The relay as an at-least-once delivery *)

Inserted == {e \in Event : outbox[e] # "none"}
paid     == {e \in Event : outbox[e] \in {"published", "old", "purged"}}
tried    == {n \in DOMAIN fate : fate[n] # "unseen"}

\* Publishers know inserted events only.
KnownEvents == \A i \in Instance : publisher[i].todo \cup publisher[i].sent \subseteq Inserted

\* A consumer that claims or commits has a message in hand.
HandsFull == \A i \in Instance : consumer[i].phase # "fetching" => consumer[i].msg # 0

DeliveryInv == PublishInv /\ ConsumeInv /\ KnownEvents /\ HandsFull

(* A publisher takes its batch from the inserted rows, and inserted rows   *)
(* stay known as such.                                                     *)
LEMMA NextKnown == TypeOK /\ KnownEvents /\ [Next]_vars => KnownEvents'
<1> SUFFICES ASSUME TypeOK, KnownEvents, [Next]_vars PROVE KnownEvents'
  OBVIOUS
<1>0. publisher \in [Instance -> Cycle] /\ outbox \in Outboxes
  BY DEF TypeOK, Cycle, Outboxes
<1>1. CASE UNCHANGED <<outbox, publisher>>
  BY <1>1 DEF KnownEvents, Inserted
<1>2. ASSUME Inserted \subseteq Inserted', NEW i \in Instance, NEW c,
             publisher' = [publisher EXCEPT ![i] = c],
             c.todo \cup c.sent \subseteq Inserted
      PROVE  KnownEvents'
  BY <1>0, <1>2 DEF KnownEvents
<1>3. ASSUME NEW e \in Event, InsertOutboxEvent(e) \/ RetentionEnds(e) PROVE KnownEvents'
  <2>1. publisher' = publisher /\ Inserted \subseteq Inserted'
    BY <1>0, <1>3 DEF InsertOutboxEvent, RetentionEnds, Inserted, Outboxes
  <2> QED
    BY <2>1 DEF KnownEvents
<1>4. ASSUME NEW i \in Instance, GetUnpublished(i) PROVE KnownEvents'
  <2> DEFINE c == Publishing(Oldest(BatchSize, Unpublished))
  <2>1. c.todo \cup c.sent \subseteq Unpublished
    BY OldestType DEF Publishing
  <2>2. publisher' = [publisher EXCEPT ![i] = c] /\ outbox' = outbox
    BY <1>4 DEF GetUnpublished
  <2> HIDE DEF c
  <2> QED
    BY <1>2, <2>1, <2>2 DEF Unpublished, Inserted
<1>5. ASSUME NEW i \in Instance, NEW e \in Event, Publish(i, e) \/ PublishFails(i, e)
      PROVE  KnownEvents'
  <2>1. outbox' = outbox
    BY <1>5 DEF Publish, PublishFails
  <2>2. e \in publisher[i].todo
    BY <1>5, OldestType DEF Publish, PublishFails
  <2>3. /\ \A k \in Instance : k # i => publisher'[k] = publisher[k]
        /\ publisher'[i].todo \subseteq publisher[i].todo
        /\ publisher'[i].sent \subseteq publisher[i].sent \cup {e}
    BY <1>0, <1>5 DEF Publish, PublishFails, Cycle
  <2> QED
    BY <2>1, <2>2, <2>3 DEF KnownEvents, Inserted
<1>6. ASSUME NEW i \in Instance, MarkPublished(i) PROVE KnownEvents'
  <2>1. Inserted \subseteq Inserted'
    BY <1>6 DEF MarkPublished, Inserted
  <2>2. /\ \A k \in Instance : k # i => publisher'[k] = publisher[k]
        /\ publisher'[i].todo = publisher[i].todo
        /\ publisher'[i].sent = {}
    BY <1>0, <1>6 DEF MarkPublished, Cycle
  <2> QED
    BY <2>1, <2>2 DEF KnownEvents
<1>7. ASSUME NEW i \in Instance, MarkFails(i) \/ Purge(i) \/ Stop(i) PROVE KnownEvents'
  <2>1. Inserted \subseteq Inserted'
    BY <1>7 DEF MarkFails, Purge, Stop, Inserted
  <2>2. publisher' = [publisher EXCEPT ![i] = Idle] /\ Idle.todo = {} /\ Idle.sent = {}
    BY <1>7 DEF MarkFails, Purge, Stop, Idle
  <2> HIDE DEF Idle
  <2> QED
    BY <1>2, <2>1, <2>2
<1>8. ASSUME NEW i \in Instance, Assign(i) \/ Consume(i) \/ ClaimFails(i) \/ CommitFails(i)
      PROVE  UNCHANGED <<outbox, publisher>>
  BY <1>8 DEF Assign, Consume, FetchMessage, ClaimAnswered, CommitMessage, ClaimFails,
     CommitFails
<1>9. CASE ForeignMessage \/ UNCHANGED vars
  BY <1>1, <1>9 DEF ForeignMessage, vars
<1> QED
  BY <1>1, <1>3, <1>4, <1>5, <1>6, <1>7, <1>8, <1>9 DEF Next, PublisherNext

(* A consumer has a message in hand from the fetch to the end of the       *)
(* commit.                                                                 *)
LEMMA NextHands == TypeOK /\ HandsFull /\ [Next]_vars => HandsFull'
<1> SUFFICES ASSUME TypeOK, HandsFull, [Next]_vars PROVE HandsFull'
  OBVIOUS
<1>0. consumer \in [Instance -> Reader(Len(log))] /\ Len(log) \in Nat
  BY DEF TypeOK, Reader
<1>1. CASE UNCHANGED consumer
  BY <1>1 DEF HandsFull
<1>2. ASSUME NEW i \in Instance,
             \/ Assign(i) \/ Consume(i) \/ ClaimFails(i) \/ CommitFails(i) \/ Stop(i)
      PROVE  HandsFull'
  <2>1. /\ \A k \in Instance : k # i => consumer'[k] = consumer[k]
        /\ \/ consumer'[i].phase = "fetching"
           \/ consumer'[i].msg = consumer[i].next
           \/ consumer'[i].msg = consumer[i].msg /\ consumer'[i].phase = consumer[i].phase
           \/ consumer'[i].msg = consumer[i].msg /\ consumer[i].phase = "claiming"
    BY <1>0, <1>2 DEF Assign, Consume, FetchMessage, ClaimAnswered, CommitMessage, ClaimFails,
       CommitFails, Stop, Fetching, Reader
  <2>2. consumer[i].next # 0
    BY <1>0 DEF Reader
  <2> QED
    BY <2>1, <2>2 DEF HandsFull
<1>3. ASSUME NEW i \in Instance, PublisherNext(i) PROVE UNCHANGED consumer
  BY <1>3 DEF PublisherNext, GetUnpublished, Publish, PublishFails, MarkPublished, MarkFails,
     Purge, topic, group
<1>4. ASSUME NEW e \in Event, InsertOutboxEvent(e) \/ RetentionEnds(e) PROVE UNCHANGED consumer
  BY <1>4 DEF InsertOutboxEvent, RetentionEnds, topic, group
<1>5. CASE ForeignMessage \/ UNCHANGED vars
  BY <1>1, <1>5 DEF ForeignMessage, vars
<1> QED
  BY <1>1, <1>2, <1>3, <1>4, <1>5 DEF Next

(* A message that was delivered is not tried yet.                          *)
LEMMA Untried ==
  ASSUME TypeOK, NEW m \in Event \cup {Garbage}, Deliver(m)
  PROVE  tried' = tried /\ log' = Append(log, m)
<1>1. /\ fate \in Seq({"unseen", "answered", "failed"}) /\ fate' = Append(fate, "unseen")
      /\ log' = Append(log, m)
  BY DEF Deliver, TypeOK
<1>2. /\ DOMAIN fate = 1..Len(fate) /\ DOMAIN fate' = 1..Len(fate) + 1
      /\ Len(fate) \in Nat
      /\ \A n \in 1..Len(fate) : fate'[n] = fate[n]
      /\ fate'[Len(fate) + 1] = "unseen"
  BY <1>1
<1>3. \A n : n \in tried' <=> n \in tried
  BY <1>2 DEF tried
<1> QED
  BY <1>1, <1>3

(* The moves of the delivery.                                              *)
LEMMA DeliveryMoves ==
  /\ \A e \in Event : Delivery!Insert(e) \/ Delivery!Send(e) => Delivery!Next
  /\ Delivery!Send(Garbage) => Delivery!Next
  /\ \A events \in SUBSET Event : Delivery!Pay(events) => Delivery!Next
  /\ \A n \in DOMAIN log : Delivery!Try(n) \/ Delivery!Commit(n) => Delivery!Next
<1>1. ASSUME NEW e \in Event, Delivery!Insert(e) \/ Delivery!Send(e) PROVE Delivery!Next
  BY <1>1 DEF Delivery!Next
<1>2. ASSUME Delivery!Send(Garbage) PROVE Delivery!Next
  BY <1>2 DEF Delivery!Next
<1>3. ASSUME NEW events \in SUBSET Event, Delivery!Pay(events) PROVE Delivery!Next
  BY <1>3 DEF Delivery!Next
<1>4. ASSUME NEW n \in DOMAIN log, Delivery!Try(n) \/ Delivery!Commit(n) PROVE Delivery!Next
  BY <1>4 DEF Delivery!Next
<1> QED
  BY <1>1, <1>2, <1>3, <1>4

(* A publisher sends what was inserted and marks what is in the topic.     *)
LEMMA PublisherDelivers ==
  ASSUME DeliveryInv, NEW i \in Instance, PublisherNext(i)
  PROVE  Delivery!Next \/ UNCHANGED <<Unpublished, paid, log, tried, committed>>
<1> DEFINE Same == UNCHANGED <<Unpublished, paid, log, tried, committed>>
           Goal == Delivery!Next \/ Same
<1>0. TypeOK /\ outbox \in Outboxes
  BY DEF DeliveryInv, PublishInv, TypeOK, Outboxes
<1>1. Inserted = Unpublished \cup paid /\ Unpublished \cap paid = {}
  BY <1>0 DEF Inserted, Unpublished, paid, Outboxes
<1>2. ASSUME NEW e \in Event, e \in publisher[i].todo, Deliver(e),
             UNCHANGED <<outbox, committed>>
      PROVE  Goal
  <2>1. e \in Unpublished \cup paid
    BY <1>1, <1>2 DEF DeliveryInv, KnownEvents
  <2>2. tried' = tried /\ log' = Append(log, e)
    BY <1>0, <1>2, Untried
  <2>3. Unpublished' = Unpublished /\ paid' = paid
    BY <1>2 DEF Unpublished, paid
  <2>4. Delivery!Send(e)
    BY <1>2, <2>1, <2>2, <2>3 DEF Delivery!Send, paid, tried
  <2> QED
    BY <2>4, DeliveryMoves
<1>3. ASSUME NEW e \in Event, Publish(i, e) \/ PublishFails(i, e) PROVE Goal
  <2>1. e \in publisher[i].todo /\ UNCHANGED <<outbox, committed>>
    BY <1>3, OldestType DEF Publish, PublishFails
  <2>2. CASE Deliver(e)
    BY <1>2, <2>1, <2>2
  <2>3. CASE UNCHANGED <<log, fate>>
    <3>1. Same
      BY <2>1, <2>3 DEF Unpublished, paid, tried
    <3> QED
      BY <3>1
  <2> QED
    BY <1>3, <2>2, <2>3 DEF Publish, PublishFails
<1>4. ASSUME MarkPublished(i) PROVE Goal
  <2> DEFINE marked == publisher[i].sent \cap Unpublished
  <2>1. /\ publisher[i].sent \subseteq ToSet(log)
        /\ publisher[i].sent \subseteq Unpublished \cup paid
    BY <1>1 DEF DeliveryInv, PublishInv, SentIsLogged, KnownEvents
  <2>2. \A e \in Event : outbox'[e] = IF e \in publisher[i].sent /\ outbox[e] # "purged"
                                      THEN "published" ELSE outbox[e]
    BY <1>4 DEF MarkPublished
  <2>3. Unpublished' = Unpublished \ marked
    BY <2>2 DEF Unpublished
  <2>4. paid' = paid \cup marked
    BY <2>1, <2>2 DEF Unpublished, paid
  <2>5. UNCHANGED <<log, fate, committed, tried>>
    BY <1>4 DEF MarkPublished, topic, group, tried
  <2>6. marked \subseteq Unpublished \cap Delivery!ToSet(log)
    BY <2>1 DEF ToSet, Delivery!ToSet
  <2>7. marked \in SUBSET Event
    BY DEF Unpublished
  <2> HIDE DEF marked
  <2>8. PICK events \in SUBSET Event : events = marked
    BY <2>7
  <2>9. Delivery!Pay(events)
    BY <2>3, <2>4, <2>5, <2>6, <2>8 DEF Delivery!Pay, paid, tried
  <2> QED
    BY <2>9, DeliveryMoves
<1>5. ASSUME GetUnpublished(i) \/ MarkFails(i) \/ Purge(i) PROVE Goal
  <2>1. UNCHANGED <<log, fate, committed>>
    BY <1>5 DEF GetUnpublished, MarkFails, Purge, topic, group
  <2>2. \/ outbox' = outbox
        \/ \A e \in Event : outbox'[e] = IF outbox[e] = "old" THEN "purged" ELSE outbox[e]
    BY <1>5 DEF GetUnpublished, MarkFails, Purge
  <2>3. Unpublished' = Unpublished /\ paid' = paid
    BY <2>2 DEF Unpublished, paid
  <2> QED
    BY <2>1, <2>3 DEF tried
<1> HIDE DEF Goal
<1>6. Goal
  BY <1>3, <1>4, <1>5 DEF PublisherNext
<1> QED
  BY <1>6 DEF Goal

(* A consumer tries the message in its hand, and commits it when it and    *)
(* all before it were tried.                                               *)
LEMMA ConsumerDelivers ==
  ASSUME DeliveryInv, NEW i \in Instance,
         \/ Assign(i) \/ Consume(i) \/ ClaimFails(i) \/ CommitFails(i) \/ Stop(i)
  PROVE  Delivery!Next \/ UNCHANGED <<Unpublished, paid, log, tried, committed>>
<1> DEFINE Same == UNCHANGED <<Unpublished, paid, log, tried, committed>>
           Goal == Delivery!Next \/ Same
           msg  == consumer[i].msg
<1>0. /\ TypeOK
      /\ fate \in Seq({"unseen", "answered", "failed"}) /\ Len(fate) = Len(log)
      /\ log \in Seq(Event \cup {Garbage})
      /\ msg \in 0..Len(log)
  BY DEF DeliveryInv, PublishInv, TypeOK
<1>1. DOMAIN fate = 1..Len(log) /\ DOMAIN log = 1..Len(log) /\ Len(log) \in Nat
  BY <1>0
<1>2. UNCHANGED <<outbox, log>> /\ UNCHANGED <<Unpublished, paid>>
  BY DEF Assign, Consume, FetchMessage, ClaimAnswered, CommitMessage, ClaimFails, CommitFails,
     Stop, Unpublished, paid
<1>3. ASSUME UNCHANGED <<fate, committed>> PROVE Goal
  BY <1>2, <1>3 DEF tried
<1>4. ASSUME NEW v \in {"answered", "failed"}, fate' = [fate EXCEPT ![msg] = v],
             UNCHANGED committed
      PROVE  Goal
  <2>1. CASE msg \in DOMAIN fate
    <3>1. tried' = tried \cup {msg}
      BY <1>4, <2>1 DEF tried
    <3>2. CASE msg \in tried
      BY <1>2, <1>4, <3>1, <3>2
    <3>3. CASE msg \notin tried
      <4>1. PICK n \in DOMAIN log : n = msg
        BY <1>1, <2>1
      <4> HIDE DEF msg
      <4>2. Delivery!Try(n)
        BY <1>1, <1>2, <1>4, <3>1, <3>3, <4>1 DEF Delivery!Try, paid, tried
      <4> QED
        BY <4>2, DeliveryMoves
    <3> QED
      BY <3>2, <3>3
  <2>2. CASE msg \notin DOMAIN fate
    <3>1. fate' = fate
      BY <1>0, <1>4, <2>2
    <3> QED
      BY <1>3, <1>4, <3>1
  <2> QED
    BY <2>1, <2>2
<1>5. ASSUME ClaimAnswered(i) \/ ClaimFails(i) PROVE Goal
  <2>1. UNCHANGED committed
        /\ \E v \in {"answered", "failed"} : fate' = [fate EXCEPT ![msg] = v]
    BY <1>5 DEF ClaimAnswered, ClaimFails
  <2> QED
    BY <1>4, <2>1
<1>6. ASSUME CommitMessage(i) PROVE Goal
  <2>1. consumer[i].phase = "committing" /\ UNCHANGED fate /\ committed' \in {committed, msg}
    BY <1>6 DEF CommitMessage
  <2>2. msg \in 1..Len(log)
    BY <1>0, <1>1, <2>1 DEF DeliveryInv, HandsFull
  <2>3. \A n \in DOMAIN fate : fate[n] = "unseen" => n > msg
    BY <1>1, <2>1, <2>2 DEF DeliveryInv, ConsumeInv, ReadersSeen
  <2>4. 1..msg \subseteq tried
    BY <1>1, <2>2, <2>3 DEF tried
  <2>5. tried' = tried
    BY <2>1 DEF tried
  <2>6. CASE committed' = msg
    <3>1. PICK n \in DOMAIN log : n = msg
      BY <1>1, <2>2
    <3> HIDE DEF msg
    <3>2. Delivery!Commit(n)
      BY <1>1, <1>2, <2>2, <2>4, <2>5, <2>6, <3>1 DEF Delivery!Commit, paid, tried
    <3> QED
      BY <3>2, DeliveryMoves
  <2>7. CASE committed' = committed
    BY <1>3, <2>1, <2>7
  <2> QED
    BY <2>1, <2>6, <2>7
<1>7. ASSUME Assign(i) \/ FetchMessage(i) \/ CommitFails(i) \/ Stop(i) PROVE Goal
  <2>1. UNCHANGED <<fate, committed>>
    BY <1>7 DEF Assign, FetchMessage, CommitFails, Stop
  <2> QED
    BY <1>3, <2>1
<1> HIDE DEF Goal
<1>8. Goal
  BY <1>5, <1>6, <1>7 DEF Consume
<1> QED
  BY <1>8 DEF Goal

(* Each event is delivered at least once, and each message tried before it *)
(* is passed: what publishers of the same rows, failed calls, rebalances,  *)
(* late commits and stops can do is what AtLeastOnce allows.               *)
THEOREM DeliversAtLeastOnce == Spec => IsAtLeastOnce
<1>1. Init => DeliveryInv
  BY InitTypeOK DEF Init, DeliveryInv, PublishInv, SentIsLogged, PublishedIsLogged, ConsumeInv,
     ReadersSeen, CommittedIsSeen, KnownEvents, HandsFull, Idle, Fetching
<1>2. DeliveryInv /\ [Next]_vars => DeliveryInv'
  BY NextPublish, NextConsume, NextKnown, NextHands DEF DeliveryInv, PublishInv
<1>3. Init => Delivery!Init
  BY DEF Init, Delivery!Init, Unpublished
<1>4. ASSUME DeliveryInv, [Next]_vars
      PROVE  Delivery!Next \/ UNCHANGED <<Unpublished, paid, log, tried, committed>>
  <2> DEFINE Same == UNCHANGED <<Unpublished, paid, log, tried, committed>>
             Goal == Delivery!Next \/ Same
  <2>0. TypeOK /\ outbox \in Outboxes
    BY <1>4 DEF DeliveryInv, PublishInv, TypeOK, Outboxes
  <2>1. ASSUME NEW e \in Event, InsertOutboxEvent(e) PROVE Goal
    <3>1. e \notin Unpublished \cup paid /\ Unpublished' = Unpublished \cup {e} /\ paid' = paid
      BY <2>0, <2>1 DEF InsertOutboxEvent, Unpublished, paid, Outboxes
    <3>2. UNCHANGED <<log, tried, committed>>
      BY <2>1 DEF InsertOutboxEvent, topic, group, tried
    <3>3. Delivery!Insert(e)
      BY <3>1, <3>2 DEF Delivery!Insert, paid, tried
    <3> QED
      BY <3>3, DeliveryMoves
  <2>2. ASSUME NEW e \in Event, RetentionEnds(e) PROVE Goal
    <3>1. Unpublished' = Unpublished /\ paid' = paid
      BY <2>0, <2>2 DEF RetentionEnds, Unpublished, paid, Outboxes
    <3>2. UNCHANGED <<log, tried, committed>>
      BY <2>2 DEF RetentionEnds, topic, group, tried
    <3> QED
      BY <3>1, <3>2
  <2>3. ASSUME ForeignMessage PROVE Goal
    <3>1. tried' = tried /\ log' = Append(log, Garbage)
      BY <2>0, <2>3, Untried DEF ForeignMessage
    <3>2. UNCHANGED <<Unpublished, paid, committed>>
      BY <2>3 DEF ForeignMessage, Unpublished, paid
    <3>3. Delivery!Send(Garbage)
      BY <3>1, <3>2 DEF Delivery!Send, paid, tried
    <3> QED
      BY <3>3, DeliveryMoves
  <2>4. ASSUME NEW i \in Instance, PublisherNext(i) PROVE Goal
    BY <1>4, <2>4, PublisherDelivers
  <2>5. ASSUME NEW i \in Instance,
               \/ Assign(i) \/ Consume(i) \/ ClaimFails(i) \/ CommitFails(i) \/ Stop(i)
        PROVE  Goal
    BY <1>4, <2>5, ConsumerDelivers
  <2>6. ASSUME UNCHANGED vars PROVE Goal
    BY <2>6 DEF vars, Unpublished, paid, tried
  <2> HIDE DEF Goal
  <2>7. Goal
    BY <1>4, <2>1, <2>2, <2>3, <2>4, <2>5, <2>6 DEF Next
  <2> QED
    BY <2>7 DEF Goal
<1>5. DeliveryInv /\ [Next]_vars => [Delivery!Next]_(Delivery!vars)
  BY <1>4 DEF Delivery!vars, paid, tried
<1> QED
  BY <1>1, <1>2, <1>3, <1>5, PTL DEF Spec, IsAtLeastOnce, Delivery!Spec
=============================================================================

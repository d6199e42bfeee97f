---------------------------- MODULE OutboxRelay ----------------------------
(***************************************************************************)
(* The way of a task's creation event: written to `outbox` with the task,  *)
(* published to Kafka by the OutboxPublisher of any instance, fetched by   *)
(* the consumer that owns the partition, answered by ClaimTask (claimed,   *)
(* or nothing left to claim) and committed.                                *)
(*                                                                         *)
(* What a claim does to the task is the business of TaskQueue, where an    *)
(* event may arrive at any time and any number of times.  Here a claim is  *)
(* answered or fails.  One partition stands for each of the topic's.       *)
(***************************************************************************)
EXTENDS Naturals, FiniteSets, SequencesExt

CONSTANTS Instance,
          NoInstance,
          Events,       \* bound: events ever inserted, one per created task
          Garbage,      \* a message of the topic that is no event of the outbox
          BatchSize,    \* OUTBOX_BATCH_SIZE
          MaxGarbage,   \* bound: such messages in a behaviour
          MaxAssigns,   \* bound: assignments of the partition
          MaxFaults     \* bound: failed calls in a behaviour

ASSUME RelayAssumption ==
  /\ NoInstance \notin Instance
  /\ Events \in Nat /\ Garbage \notin Nat
  /\ BatchSize \in Nat \ {0}
  /\ MaxGarbage \in Nat /\ MaxAssigns \in Nat /\ MaxFaults \in Nat

Event == 1..Events      \* in the order of created_at, which need not be that of the commits

VARIABLES outbox,       \* table outbox: the state of each event's row
          log,          \* the messages of the partition
          fate,         \* history: what became of the message at each offset
          committed,    \* the group's offset: messages 1..committed are done
          owner,        \* the instance the partition is assigned to
          up,           \* the instances that serve
          publisher,    \* the cycle of each OutboxPublisher
          consumer,     \* the message each Consumer processes
          assigns, faults   \* how many happened, against the bounds

vars == <<outbox, log, fate, committed, owner, up, publisher, consumer, assigns, faults>>
group == <<fate, committed, owner, consumer, assigns>>
topic == <<log, group>>

Idle == [phase |-> "idle", todo |-> {}, sent |-> {}]
Publishing(batch) == [phase |-> "publishing", todo |-> batch, sent |-> {}]

\* next is where the reader is, msg the offset of the message in hand.
Fetching(next) == [phase |-> "fetching", msg |-> 0, next |-> next]

Init == /\ outbox    = [e \in Event |-> "none"]
        /\ log       = <<>>
        /\ fate      = <<>>
        /\ committed = 0
        /\ owner     = NoInstance
        /\ up        = Instance
        /\ publisher = [i \in Instance |-> Idle]
        /\ consumer  = [i \in Instance |-> Fetching(1)]
        /\ assigns   = 0
        /\ faults    = 0

Fault == faults < MaxFaults /\ faults' = faults + 1

Unpublished == {e \in Event : outbox[e] = "unpublished"}

\* ORDER BY created_at LIMIT n
Oldest(n, events) == {e \in events : Cardinality({d \in events : d <= e}) <= n}

Deliver(message) == log' = Append(log, message) /\ fate' = Append(fate, "unseen")

-----------------------------------------------------------------------------
(* TaskRepository.Create, as far as the outbox is concerned: the row is in  *)
(* the transaction of the task's.                                           *)
InsertOutboxEvent(e) ==
  /\ outbox[e] = "none"
  /\ outbox' = [outbox EXCEPT ![e] = "unpublished"]
  /\ UNCHANGED <<topic, up, publisher, faults>>

-----------------------------------------------------------------------------
(* OutboxPublisher.processCycle.  Nothing locks the rows: the publishers of  *)
(* several instances read the same ones.                                     *)

GetUnpublished(i) ==
  /\ i \in up
  /\ publisher[i] = Idle
  /\ publisher' = [publisher EXCEPT ![i] = Publishing(Oldest(BatchSize, Unpublished))]
  /\ UNCHANGED <<outbox, topic, up, faults>>

Publish(i, e) ==
  /\ i \in up
  /\ {e} = Oldest(1, publisher[i].todo)
  /\ Deliver(e)
  /\ publisher' = [publisher EXCEPT ![i].todo = @ \ {e}, ![i].sent = @ \cup {e}]
  /\ UNCHANGED <<outbox, committed, owner, up, consumer, assigns, faults>>

\* Mutation: a failed publication is marked as well.
PublishFails_Marked(i, e) ==
  /\ i \in up
  /\ {e} = Oldest(1, publisher[i].todo)
  /\ publisher' = [publisher EXCEPT ![i].todo = @ \ {e}, ![i].sent = @ \cup {e}]
  /\ Fault
  /\ UNCHANGED <<outbox, topic, up>>

\* Mutation: a failed publication ends the loop of Run.
PublishFails_Ends(i, e) ==
  /\ i \in up
  /\ {e} = Oldest(1, publisher[i].todo)
  /\ publisher' = [publisher EXCEPT ![i] = [@ EXCEPT !.phase = "ended", !.todo = {}]]
  /\ Fault
  /\ UNCHANGED <<outbox, topic, up>>

\* An error, which does not say whether the broker has the message.
PublishFails(i, e) ==
  /\ i \in up
  /\ {e} = Oldest(1, publisher[i].todo)
  /\ Deliver(e) \/ UNCHANGED <<log, fate>>
  /\ publisher' = [publisher EXCEPT ![i].todo = @ \ {e}]
  /\ Fault
  /\ UNCHANGED <<outbox, committed, owner, up, consumer, assigns>>

\* One UPDATE for the whole batch; a purged row is no longer there.
MarkPublished(i) ==
  /\ i \in up
  /\ publisher[i].phase = "publishing"
  /\ publisher[i].todo = {}
  /\ outbox' = [e \in Event |-> IF e \in publisher[i].sent /\ outbox[e] # "purged"
                                THEN "published" ELSE outbox[e]]
  /\ publisher' = [publisher EXCEPT ![i] = [@ EXCEPT !.phase = "purging", !.sent = {}]]
  /\ UNCHANGED <<topic, up, faults>>

\* The cycle ends without a purge, and the events stay unpublished.
MarkFails(i) ==
  /\ i \in up
  /\ publisher[i].phase = "publishing"
  /\ publisher[i].todo = {}
  /\ publisher[i].sent # {}
  /\ publisher' = [publisher EXCEPT ![i] = Idle]
  /\ Fault
  /\ UNCHANGED <<outbox, topic, up>>

\* Mutation: deletes what was created that long ago.
Purge_Created(i) ==
  /\ i \in up
  /\ publisher[i].phase = "purging"
  /\ \/ /\ outbox' = [e \in Event |-> IF outbox[e] \in {"unpublished", "old"} THEN "purged"
                                      ELSE outbox[e]]
        /\ UNCHANGED faults
     \/ UNCHANGED outbox /\ Fault
  /\ publisher' = [publisher EXCEPT ![i] = Idle]
  /\ UNCHANGED <<topic, up>>

\* Deletes what was published longer than the retention ago.
Purge(i) ==
  /\ i \in up
  /\ publisher[i].phase = "purging"
  /\ \/ /\ outbox' = [e \in Event |-> IF outbox[e] = "old" THEN "purged" ELSE outbox[e]]
        /\ UNCHANGED faults
     \/ UNCHANGED outbox /\ Fault
  /\ publisher' = [publisher EXCEPT ![i] = Idle]
  /\ UNCHANGED <<topic, up>>

\* The retention of a published event ends.
RetentionEnds(e) ==
  /\ outbox[e] = "published"
  /\ outbox' = [outbox EXCEPT ![e] = "old"]
  /\ UNCHANGED <<topic, up, publisher, faults>>

-----------------------------------------------------------------------------
(* The broker *)

ForeignMessage ==
  /\ Cardinality({n \in DOMAIN log : log[n] = Garbage}) < MaxGarbage
  /\ Deliver(Garbage)
  /\ UNCHANGED <<outbox, committed, owner, up, publisher, consumer, assigns, faults>>

\* The partition goes to i, whose reader starts at the committed offset: it is
\* not asked whether it, or the owner before it, has a message in hand.
Assign(i) ==
  /\ i \in up
  /\ owner # i
  /\ assigns < MaxAssigns /\ assigns' = assigns + 1
  /\ owner' = i
  /\ consumer' = [consumer EXCEPT ![i].next = committed + 1]
  /\ UNCHANGED <<outbox, log, fate, committed, up, publisher, faults>>

-----------------------------------------------------------------------------
(* Consumer.Run and processMessage *)

\* Mutation: the offset is committed with the fetch.
FetchMessage_Commits(i) ==
  /\ i \in up
  /\ owner = i
  /\ consumer[i].phase = "fetching"
  /\ consumer[i].next <= Len(log)
  /\ consumer' = [consumer EXCEPT ![i] = [phase |-> "claiming", msg |-> @.next, next |-> @.next + 1]]
  /\ committed' = consumer[i].next
  /\ UNCHANGED <<outbox, log, fate, owner, up, publisher, assigns, faults>>

FetchMessage(i) ==
  /\ i \in up
  /\ owner = i
  /\ consumer[i].phase = "fetching"
  /\ consumer[i].next <= Len(log)
  /\ consumer' = [consumer EXCEPT ![i] = [phase |-> "claiming", msg |-> @.next, next |-> @.next + 1]]
  /\ UNCHANGED <<outbox, log, fate, committed, owner, up, publisher, assigns, faults>>

\* ClaimTask answers, or the message is not one to be claimed.
ClaimAnswered(i) ==
  /\ i \in up
  /\ consumer[i].phase = "claiming"
  /\ fate' = [fate EXCEPT ![consumer[i].msg] = "answered"]
  /\ consumer' = [consumer EXCEPT ![i].phase = "committing"]
  /\ UNCHANGED <<outbox, log, committed, owner, up, publisher, assigns, faults>>

\* Mutation: a failed claim ends the loop of Run.
ClaimFails_Ends(i) ==
  /\ i \in up
  /\ consumer[i].phase = "claiming"
  /\ log[consumer[i].msg] # Garbage
  /\ fate' = [fate EXCEPT ![consumer[i].msg] = IF @ = "answered" THEN @ ELSE "failed"]
  /\ consumer' = [consumer EXCEPT ![i].phase = "ended"]
  /\ Fault
  /\ UNCHANGED <<outbox, log, committed, owner, up, publisher, assigns>>

\* ClaimTask fails: no commit, and on to the next message.
ClaimFails(i) ==
  /\ i \in up
  /\ consumer[i].phase = "claiming"
  /\ log[consumer[i].msg] # Garbage
  /\ fate' = [fate EXCEPT ![consumer[i].msg] = IF @ = "answered" THEN @ ELSE "failed"]
  /\ consumer' = [consumer EXCEPT ![i] = Fetching(@.next)]
  /\ Fault
  /\ UNCHANGED <<outbox, log, committed, owner, up, publisher, assigns>>

\* Mutation: the offset of the message after it is committed.
CommitMessage_Next(i) ==
  /\ i \in up
  /\ consumer[i].phase = "committing"
  /\ committed' = consumer[i].msg + 1
  /\ consumer' = [consumer EXCEPT ![i] = Fetching(@.next)]
  /\ UNCHANGED <<outbox, log, fate, owner, up, publisher, assigns, faults>>

\* The broker may take the commit of a consumer that lost the partition, or
\* not; the offset may then go back.  The consumer goes on either way.
CommitMessage(i) ==
  /\ i \in up
  /\ consumer[i].phase = "committing"
  /\ committed' = consumer[i].msg \/ (owner # i /\ UNCHANGED committed)
  /\ consumer' = [consumer EXCEPT ![i] = Fetching(@.next)]
  /\ UNCHANGED <<outbox, log, fate, owner, up, publisher, assigns, faults>>

CommitFails(i) ==
  /\ i \in up
  /\ consumer[i].phase = "committing"
  /\ consumer' = [consumer EXCEPT ![i] = Fetching(@.next)]
  /\ Fault
  /\ UNCHANGED <<outbox, log, fate, committed, owner, up, publisher, assigns>>

-----------------------------------------------------------------------------
\* The process of i ends, between any two of its calls.
Stop(i) ==
  /\ i \in up
  /\ up' = up \ {i}
  /\ owner' = IF owner = i THEN NoInstance ELSE owner
  /\ publisher' = [publisher EXCEPT ![i] = Idle]
  /\ consumer' = [consumer EXCEPT ![i] = Fetching(1)]
  /\ UNCHANGED <<outbox, log, fate, committed, assigns, faults>>

PublisherNext(i) == \/ GetUnpublished(i) \/ MarkPublished(i) \/ MarkFails(i) \/ Purge(i)
                    \/ \E e \in Event : Publish(i, e) \/ PublishFails(i, e)

Consume(i) == FetchMessage(i) \/ ClaimAnswered(i) \/ CommitMessage(i)

Next == \/ \E e \in Event : InsertOutboxEvent(e) \/ RetentionEnds(e)
        \/ ForeignMessage
        \/ \E i \in Instance : \/ PublisherNext(i)
                               \/ Assign(i)
                               \/ Consume(i) \/ ClaimFails(i) \/ CommitFails(i)
                               \/ Stop(i)

Spec == Init /\ [][Next]_vars

(***************************************************************************)
(* Fairness: the publishers' tickers tick, the loop of the consumer turns, *)
(* the broker assigns a partition that has no owner.  It is not forced to  *)
(* reassign one that has.                                                  *)
(***************************************************************************)
PublisherStep(i) == \/ GetUnpublished(i) \/ MarkPublished(i) \/ Purge(i)
                    \/ \E e \in Event : Publish(i, e)

FairSpec == /\ Spec
            /\ \A i \in Instance : WF_vars(PublisherStep(i)) /\ WF_vars(Consume(i))
            /\ WF_vars(owner = NoInstance /\ \E i \in Instance : Assign(i))

-----------------------------------------------------------------------------
(* Every variable has its type. *)
TypeOK ==
  /\ outbox \in [Event -> {"none", "unpublished", "published", "old", "purged"}]
  /\ log \in Seq(Event \cup {Garbage})
  /\ fate \in Seq({"unseen", "answered", "failed"}) /\ Len(fate) = Len(log)
  /\ committed \in 0..Len(log)
  /\ owner \in up \cup {NoInstance}
  /\ up \subseteq Instance
  /\ publisher \in [Instance -> [phase : {"idle", "publishing", "purging"},
                                 todo : SUBSET Event, sent : SUBSET Event]]
  /\ consumer \in [Instance -> [phase : {"fetching", "claiming", "committing"},
                                msg : 0..Len(log), next : 1..(Len(log) + 1)]]
  /\ assigns \in 0..MaxAssigns
  /\ faults \in 0..MaxFaults

(* An event that is marked published, or purged, reached the topic: failed *)
(* and ambiguous publications, several publishers of the same row and      *)
(* stops in mid-cycle duplicate events and never drop one.                 *)
PublishedIsLogged ==
  \A e \in Event : outbox[e] \in {"published", "old", "purged"} => e \in ToSet(log)

(* The group's offset never passes a message that no claim was tried for,  *)
(* through rebalances, failed commits and stops.                           *)
CommittedIsSeen ==
  \A n \in 1..committed : fate[n] # "unseen"

(* Publishers, broker and consumers together deliver each event at least   *)
(* once: only inserted events are sent, only sent ones are marked, and the *)
(* offset moves, forth or back, over tried messages only; no row of the    *)
(* outbox is owed again and no message is taken from the topic.            *)
Delivery == INSTANCE AtLeastOnce WITH
              owed  <- Unpublished,
              paid  <- {e \in Event : outbox[e] \in {"published", "old", "purged"}},
              tried <- {n \in DOMAIN fate : fate[n] # "unseen"}

IsAtLeastOnce == Delivery!Spec

(* consumer_test.go on a claim that failed in the database: "DB error      *)
(* should not commit".                                                     *)
FailedIsUncommitted ==
  \A n \in 1..committed : fate[n] # "failed"

(* While one instance stays up, every event inserted reaches the topic and *)
(* leaves the unpublished rows.                                            *)
OutboxDrains ==
  (\E i \in Instance : <>[](i \in up))
    => \A e \in Event : (outbox[e] = "unpublished") ~> (outbox[e] \in {"published", "old", "purged"})

(* While one instance stays up and the broker comes to rest, the consumers *)
(* try a claim for every message of the topic.                             *)
ConsumersCatchUp ==
  (/\ \E i \in Instance : <>[](i \in up)
   /\ \E i \in Instance : <>[](owner = i))
    => []<>(\A n \in DOMAIN fate : fate[n] # "unseen")
=============================================================================

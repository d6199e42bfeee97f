---------------------------- MODULE AtLeastOnce -----------------------------
(***************************************************************************)
(* What the relay promises of events.  Each is owed from its insertion     *)
(* until it is in the topic, and may be there more than once; what else is *)
(* in the topic comes from others.  Every message is tried at least once   *)
(* before the group's offset passes it, though the offset may go back.     *)
(***************************************************************************)
EXTENDS SequencesExt

CONSTANTS Event, Garbage

VARIABLES owed,        \* events to be published
          paid,        \* events that are not to be published any more
          log,         \* the topic
          tried,       \* offsets of messages that were tried
          committed    \* the group's offset

vars == <<owed, paid, log, tried, committed>>

Init == /\ owed      = {}
        /\ paid      = {}
        /\ log       = <<>>
        /\ tried     = {}
        /\ committed = 0

Insert(e) == /\ e \notin owed \cup paid
             /\ owed' = owed \cup {e}
             /\ UNCHANGED <<paid, log, tried, committed>>

\* A paid event may be sent again.
Send(m) == /\ m \in owed \cup paid \cup {Garbage}
           /\ log' = Append(log, m)
           /\ UNCHANGED <<owed, paid, tried, committed>>

Pay(events) == /\ events \subseteq owed \cap ToSet(log)
               /\ owed' = owed \ events
               /\ paid' = paid \cup events
               /\ UNCHANGED <<log, tried, committed>>

Try(n) == /\ n \in DOMAIN log \ tried
          /\ tried' = tried \cup {n}
          /\ UNCHANGED <<owed, paid, log, committed>>

Commit(n) == /\ n \in DOMAIN log
             /\ 1..n \subseteq tried
             /\ committed' = n
             /\ UNCHANGED <<owed, paid, log, tried>>

Next == \/ \E e \in Event : Insert(e) \/ Send(e)
        \/ Send(Garbage)
        \/ \E events \in SUBSET Event : Pay(events)
        \/ \E n \in DOMAIN log : Try(n) \/ Commit(n)

Spec == Init /\ [][Next]_vars
=============================================================================

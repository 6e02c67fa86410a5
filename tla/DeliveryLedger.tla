--------------------------- MODULE DeliveryLedger ---------------------------
(***************************************************************************)
(* What the write path promises about each entry of the stream "events":   *)
(* at-most-once delivery.  An entry waits in the queue, is held by one     *)
(* worker, and ends done or lost; it is done only when every store has it, *)
(* and nothing that is lost is ever taken up again.                        *)
(***************************************************************************)
EXTENDS Naturals

CONSTANT Entries

VARIABLES
    status,   \* entry -> where it is
    stored    \* entries that every store has

vars == <<status, stored>>

Statuses == {"absent", "queued", "held", "done", "lost"}

In(s) == {i \in Entries : status[i] = s}

Move(S, s) == status' = [i \in Entries |-> IF i \in S THEN s ELSE status[i]]

\* What is stored stays stored.  Two entries may carry the same thing, so an
\* entry can be stored before it is held, or after it was lost.
Store == \E S \in SUBSET Entries : stored' = stored \cup S

Init ==
    /\ status = [i \in Entries |-> "absent"]
    /\ stored = {}

\* Entries are appended in order behind everything that was added before.
Add ==
    \E S \in SUBSET In("absent") :
        /\ \A i \in S, j \in In("absent") \ S : i < j
        /\ Move(S, "queued")
        /\ Store

\* The oldest queued entries are handed to one worker, or lost on the way.
Deliver ==
    \E S \in SUBSET In("queued"), s \in {"held", "lost"} :
        /\ \A i \in S, j \in In("queued") \ S : i < j
        /\ Move(S, s)
        /\ Store

\* Work on held entries stores something and loses some of them.
Process ==
    \E L \in SUBSET In("held") :
        /\ Move(L, "lost")
        /\ Store

\* Only a held entry that is stored everywhere is done.
Finish ==
    \E S \in SUBSET (In("held") \cap stored) :
        /\ Move(S, "done")
        /\ UNCHANGED stored

Next == Add \/ Deliver \/ Process \/ Finish

Spec == Init /\ [][Next]_vars

-----------------------------------------------------------------------------

TypeOK ==
    /\ status \in [Entries -> Statuses]
    /\ stored \in SUBSET Entries

\* An entry that is done is in every store.
DoneIsStored == In("done") \subseteq stored
=============================================================================

---------------------------- MODULE EntityWindow ----------------------------
(***************************************************************************)
(* What -records-per-key promises of Keys: each record starts a new Entity *)
(* or belongs to one of the MaxEntities most recent ones, and one that has *)
(* retired never comes back.  Entities are numbered as they are created.   *)
(***************************************************************************)
EXTENDS Integers

CONSTANT MaxEntities

VARIABLES
  created,   \* how many Entities there have been
  entity     \* the Entity of the latest record, 0 before the first

Recent == {e \in 1..created : e > created - MaxEntities}

Init == created = 0 /\ entity = 0

NewEntity == created' = created + 1 /\ entity' = created + 1

Recur == entity' \in Recent /\ UNCHANGED created

Next == NewEntity \/ Recur

Spec == Init /\ [][Next]_<<created, entity>>
=============================================================================

------------------------------ MODULE KeyReuse ------------------------------
(***************************************************************************)
(* The Key reuse pool of internal/keyplan/reuse.go: a ring of the Keys of  *)
(* the most recent Entities, from which a record draws its Key unless it   *)
(* starts an Entity of its own.                                            *)
(*                                                                         *)
(* A Key stands for its Entity and is the Entity's number: two Entities    *)
(* whose generated Keys happen to be equal are still told apart here.  The *)
(* seeded stream is any choice of indices.                                 *)
(***************************************************************************)
EXTENDS Integers, Sequences

CONSTANTS
  MaxEntities,  \* maxEntities
  PerKeys,      \* the values -records-per-key may have
  EntityBound   \* bound on the Entities one run creates

ASSUME MaxAssumption    == MaxEntities \in Nat \ {0}
ASSUME PerKeyAssumption == PerKeys \subseteq Nat \ {0}
ASSUME BoundAssumption  == EntityBound \in Nat

VARIABLES
  perKey,   \* fixed for a run
  keys,     \* the ring; keys[i] of the code is keys[i + 1] here
  oldest,   \* index in the ring of the Key to be overwritten next
  created,  \* history: the Entities the generator has been asked for
  key       \* the Key Value returned last, 0 before it is called

vars == <<perKey, keys, oldest, created, key>>

Init ==
  /\ perKey \in PerKeys
  /\ keys = <<>>
  /\ oldest = 0
  /\ created = 0
  /\ key = 0

(* The generator has given a fresh Key, k.                                 *)
KeepInPlace(k) ==
  IF Len(keys) < MaxEntities
  THEN keys' = Append(keys, k) /\ UNCHANGED oldest
  ELSE keys' = [keys EXCEPT ![oldest + 1] = k] /\ UNCHANGED oldest

Keep(k) ==
  IF Len(keys) < MaxEntities
  THEN keys' = Append(keys, k) /\ UNCHANGED oldest
  ELSE /\ keys' = [keys EXCEPT ![oldest + 1] = k]
       /\ oldest' = (oldest + 1) % MaxEntities

(* A record starts a new Entity.  With perKey 1 there is no pool: Reuse    *)
(* returns the Key generator itself.                                       *)
Fresh ==
  /\ created < EntityBound
  /\ created' = created + 1
  /\ key' = created + 1
  /\ IF perKey <= 1 THEN UNCHANGED <<keys, oldest>> ELSE Keep(created + 1)
  /\ UNCHANGED perKey

(* A record draws its Key from the pool: Pick(perKey) is not 0.            *)
ReuseKey ==
  /\ perKey > 1
  /\ Len(keys) > 0
  /\ \E pick \in 0..(Len(keys) - 1) : key' = keys[pick + 1]
  /\ UNCHANGED <<perKey, keys, oldest, created>>

(* The Key generator fails: the error is returned and the pool unchanged.  *)
FreshFails == UNCHANGED vars

Next == Fresh \/ ReuseKey \/ FreshFails

Spec == Init /\ [][Next]_vars

-----------------------------------------------------------------------------
(* Types; the index of the oldest Key stays one of the ring's.             *)
TypeOK ==
  /\ perKey \in PerKeys
  /\ keys \in Seq(Nat \ {0})
  /\ oldest \in 0..(MaxEntities - 1)
  /\ created \in Nat
  /\ key \in Nat

Window == INSTANCE EntityWindow WITH entity <- key

(* The pool holds exactly the most recent Entities, each of them once, so  *)
(* that each is as likely to be picked as any other, and memory stays      *)
(* bounded on an endless run.                                              *)
PoolIsWindow ==
  perKey > 1 =>
    /\ {keys[i] : i \in DOMAIN keys} = Window!Recent
    /\ \A i, j \in DOMAIN keys : keys[i] = keys[j] => i = j

(* Seen from outside the pool is a sliding window over the Entities.       *)
KeepsWindow == Window!Spec
=============================================================================

-------------------------- MODULE PlannedRun_proofs --------------------------
(* Proofs about PlannedRun and the pool of Keys in it, for every ring size,    *)
(* every -records-per-key and every set of invocations: the pool implements    *)
(* EntityWindow, by itself and in a planned run; a plan judges its flags       *)
(* before its files and ignores nothing in silence; and a run encodes each     *)
(* message with the schemas it was generated of.                               *)
EXTENDS PlannedRun, TLAPS

-----------------------------------------------------------------------------
(* The pool (KeyReuse).                                                        *)


(* Entity i's place in the ring: the oldest Key is at index `oldest', from *)
(* where the Entities follow each other round the ring to the newest.      *)
RingAt(i) ==
  IF i > oldest THEN created - Len(keys) + (i - oldest)
                ELSE created - oldest + i

(* Inductive.  Until the ring is full it holds every Entity there has been *)
(* and has not begun to turn.                                              *)
RingInv ==
  /\ TypeOK
  /\ key <= created
  /\ Len(keys) <= MaxEntities
  /\ perKey > 1 =>
       /\ Len(keys) < MaxEntities => oldest = 0 /\ created = Len(keys)
       /\ Len(keys) <= created
       /\ \A i \in 1..Len(keys) : keys[i] = RingAt(i)

-----------------------------------------------------------------------------
(* One step round the ring.                                                *)
LEMMA NextIndex ==
  ASSUME NEW m \in Nat \ {0}, NEW a \in 0..(m - 1)
  PROVE  (a + 1) % m = IF a + 1 = m THEN 0 ELSE a + 1
OBVIOUS

LEMMA RingInit == Init => RingInv
BY MaxAssumption DEF Init, RingInv, TypeOK

(* A fresh Key taken into the pool: the ring grows, or turns by one.       *)
LEMMA RingFresh == RingInv /\ Fresh => RingInv'
<1> SUFFICES ASSUME RingInv, Fresh PROVE RingInv'
  OBVIOUS
<1> USE MaxAssumption DEF RingInv, TypeOK, Fresh
<1>1. CASE perKey <= 1
  <2>1. perKey \in Nat \ {0}
    BY PerKeyAssumption
  <2> QED BY <1>1, <2>1
<1>2. CASE perKey > 1 /\ Len(keys) < MaxEntities
  <2>1. keys' = Append(keys, created + 1) /\ oldest' = oldest
    BY <1>2, PerKeyAssumption DEF Keep
  <2>2. ~(perKey <= 1) /\ perKey' = perKey
    BY <1>2, PerKeyAssumption
  <2>3. \A i \in 1..Len(keys') : keys'[i] = RingAt(i)'
    BY <1>2, <2>1, <2>2 DEF RingAt
  <2> QED BY <1>2, <2>1, <2>2, <2>3
<1>3. CASE perKey > 1 /\ ~(Len(keys) < MaxEntities)
  <2>1. /\ keys' = [keys EXCEPT ![oldest + 1] = created + 1]
        /\ oldest' = (oldest + 1) % MaxEntities
    BY <1>3, PerKeyAssumption DEF Keep
  <2>2. oldest' = IF oldest + 1 = MaxEntities THEN 0 ELSE oldest + 1
    BY <2>1, NextIndex
  <2>3. Len(keys) = MaxEntities /\ perKey' = perKey
    BY <1>3
  <2>4. keys' \in Seq(Nat \ {0}) /\ Len(keys') = Len(keys)
    BY <2>1, <2>3
  <2>5. \A i \in 1..Len(keys') : keys'[i] = RingAt(i)'
    <3> SUFFICES ASSUME NEW i \in 1..MaxEntities PROVE keys'[i] = RingAt(i)'
      BY <2>3, <2>4
    <3>1. CASE i = oldest + 1
      <4>1. keys'[i] = created + 1
        BY <3>1, <2>1, <2>3
      <4> QED BY <3>1, <4>1, <2>2, <2>3, <2>4 DEF RingAt
    <3>2. CASE i # oldest + 1
      <4>1. keys'[i] = RingAt(i)
        BY <3>2, <2>1, <2>3, <1>3
      <4> QED BY <3>2, <4>1, <2>2, <2>3, <2>4 DEF RingAt
    <3> QED BY <3>1, <3>2
  <2> QED BY <1>3, <2>2, <2>3, <2>4, <2>5
<1> QED BY <1>1, <1>2, <1>3, PerKeyAssumption

(* A reused Key is one of the pool, so it is of an Entity already created. *)
LEMMA RingReuse == RingInv /\ ReuseKey => RingInv'
<1> SUFFICES ASSUME RingInv, ReuseKey PROVE RingInv'
  OBVIOUS
<1> USE MaxAssumption DEF RingInv, TypeOK, ReuseKey
<1>1. PICK pick \in 0..(Len(keys) - 1) : key' = keys[pick + 1]
  OBVIOUS
<1>2. key' \in Nat /\ key' = RingAt(pick + 1)
  BY <1>1
<1>3. key' <= created
  BY <1>2 DEF RingAt
<1>4. \A i \in 1..Len(keys) : RingAt(i)' = RingAt(i)
  BY DEF RingAt
<1> QED BY <1>2, <1>3, <1>4

LEMMA RingStep == RingInv /\ [Next]_vars => RingInv'
<1> SUFFICES ASSUME RingInv, [Next]_vars PROVE RingInv'
  OBVIOUS
<1>1. CASE Fresh
  BY <1>1, RingFresh
<1>2. CASE ReuseKey
  BY <1>2, RingReuse
<1>3. CASE UNCHANGED vars
  BY <1>3 DEF vars, RingInv, TypeOK, RingAt
<1> QED BY <1>1, <1>2, <1>3 DEF Next, FreshFails

(* Every reachable pool is such a ring.                                    *)
THEOREM RingCorrect == Spec => []RingInv
BY RingInit, RingStep, PTL DEF Spec

(* The pool's variables have their types, whatever is drawn.               *)
THEOREM TypeCorrect == Spec => []TypeOK
BY RingCorrect, PTL DEF RingInv

-----------------------------------------------------------------------------
(* An Entity of the window has its place in the ring.                      *)
LEMMA RecentHasPlace ==
  ASSUME RingInv, perKey > 1, NEW e \in Window!Recent
  PROVE  \E i \in 1..Len(keys) : keys[i] = e
<1> USE MaxAssumption DEF RingInv, TypeOK, Window!Recent
<1> DEFINE off == e - (created - Len(keys))
<1>1. off \in 1..Len(keys) /\ e \in Int
  OBVIOUS
<1>2. CASE oldest + off <= Len(keys)
  <2> DEFINE i == oldest + off
  <2>1. i \in 1..Len(keys) /\ i > oldest
    BY <1>1, <1>2
  <2>2. keys[i] = RingAt(i)
    BY <2>1
  <2>3. RingAt(i) = e
    BY <2>1, <1>1 DEF RingAt
  <2> QED BY <2>1, <2>2, <2>3
<1>3. CASE ~(oldest + off <= Len(keys))
  <2> DEFINE i == oldest + off - Len(keys)
  <2>1. i \in 1..Len(keys) /\ ~(i > oldest)
    BY <1>1, <1>3
  <2>2. keys[i] = RingAt(i)
    BY <2>1
  <2>3. RingAt(i) = e
    BY <2>1, <1>1, <1>3 DEF RingAt
  <2> QED BY <2>1, <2>2, <2>3
<1> QED BY <1>2, <1>3

(* What is in the ring is in the window.                                   *)
LEMMA PlaceIsRecent ==
  ASSUME RingInv, perKey > 1, NEW i \in 1..Len(keys)
  PROVE  keys[i] \in Window!Recent
BY MaxAssumption DEF RingInv, TypeOK, RingAt, Window!Recent

(* The pool holds exactly the MaxEntities most recent Entities, each once. *)
THEOREM WindowCorrect == Spec => []PoolIsWindow
<1>1. RingInv => PoolIsWindow
  <2> SUFFICES ASSUME RingInv, perKey > 1
               PROVE  /\ {keys[i] : i \in DOMAIN keys} = Window!Recent
                      /\ \A i, j \in DOMAIN keys : keys[i] = keys[j] => i = j
    BY DEF PoolIsWindow
  <2>1. DOMAIN keys = 1..Len(keys)
    BY DEF RingInv, TypeOK
  <2>2. {keys[i] : i \in DOMAIN keys} = Window!Recent
    BY <2>1, RecentHasPlace, PlaceIsRecent
  <2>3. ASSUME NEW i \in 1..Len(keys), NEW j \in 1..Len(keys), keys[i] = keys[j]
        PROVE  i = j
    <3>1. keys[i] = RingAt(i) /\ keys[j] = RingAt(j)
      BY DEF RingInv
    <3>2. RingAt(i) = RingAt(j)
      BY <2>3, <3>1
    <3> QED BY <3>2, MaxAssumption DEF RingInv, TypeOK, RingAt
  <2> QED BY <2>1, <2>2, <2>3
<1> QED BY <1>1, RingCorrect, PTL

(* A step of the pool is one of the window.                                *)
LEMMA WindowStep == RingInv /\ [Next]_vars => [Window!Next]_<<created, key>>
<1> SUFFICES ASSUME RingInv, [Next]_vars PROVE [Window!Next]_<<created, key>>
  OBVIOUS
<1>1. CASE Fresh
  BY <1>1 DEF Fresh, Window!Next, Window!NewEntity
<1>2. CASE ReuseKey
  <2>1. PICK pick \in 0..(Len(keys) - 1) : key' = keys[pick + 1]
    BY <1>2 DEF ReuseKey
  <2>2. pick + 1 \in 1..Len(keys)
    BY <2>1 DEF RingInv, TypeOK
  <2>3. key' \in Window!Recent
    BY <1>2, <2>1, <2>2, PlaceIsRecent DEF ReuseKey
  <2> QED BY <1>2, <2>3 DEF ReuseKey, Window!Next, Window!Recur
<1>3. CASE UNCHANGED vars
  BY <1>3 DEF vars
<1> QED BY <1>1, <1>2, <1>3 DEF Next, FreshFails

(* Every record's Key belongs to a new Entity or one in the window: the    *)
(* pool implements EntityWindow.                                           *)
THEOREM Implements == Spec => KeepsWindow
<1>1. Init => Window!Init
  BY DEF Init, Window!Init
<1> QED BY <1>1, WindowStep, RingCorrect, PTL DEF Spec, KeepsWindow, Window!Spec

-----------------------------------------------------------------------------
(* The rules: which come where.                                                *)

LEMMA ConcatAt ==
    ASSUME NEW S, NEW a \in Seq(S), NEW b \in Seq(S)
    PROVE  /\ a \o b \in Seq(S) /\ Len(a \o b) = Len(a) + Len(b)
           /\ \A i \in 1..Len(a) : (a \o b)[i] = a[i]
           /\ \A i \in 1..Len(b) : (a \o b)[Len(a) + i] = b[i]
  OBVIOUS

LEMMA ConcatHolds ==
    ASSUME NEW S, NEW a \in Seq(S), NEW b \in Seq(S)
    PROVE  /\ \A i \in 1..Len(a) : a[i] \in ToSet(a \o b)
           /\ \A i \in 1..Len(b) : b[i] \in ToSet(a \o b)
  <1>1. \A i \in 1..Len(a) : i \in DOMAIN (a \o b) /\ (a \o b)[i] = a[i]
    BY ConcatAt
  <1>2. \A i \in 1..Len(b) : Len(a) + i \in DOMAIN (a \o b) /\ (a \o b)[Len(a) + i] = b[i]
    BY ConcatAt
  <1> QED
    BY <1>1, <1>2 DEF ToSet

\* The rules an invocation may be judged by.
RuleSet(i) == UNION {{RunRules(i)[k] : k \in 1..10}, {JSONRules(i)[k] : k \in 1..8},
                     {AvroFlagRules(i)[k] : k \in 1..7}, {AvroFileRules(i)[k] : k \in 1..6}}


LEMMA RulesAreSequences ==
    ASSUME NEW i
    PROVE  /\ RunRules(i) \in Seq(RuleSet(i)) /\ Len(RunRules(i)) = 10
           /\ JSONRules(i) \in Seq(RuleSet(i)) /\ Len(JSONRules(i)) = 8
           /\ AvroFlagRules(i) \in Seq(RuleSet(i)) /\ Len(AvroFlagRules(i)) = 7
           /\ AvroFileRules(i) \in Seq(RuleSet(i)) /\ Len(AvroFileRules(i)) = 6
  <1>1. ASSUME NEW s, NEW n \in Nat, s = [k \in 1..n |-> s[k]], \A k \in 1..n : s[k] \in RuleSet(i)
        PROVE  s \in Seq(RuleSet(i)) /\ Len(s) = n
    BY <1>1
  <1>2. RunRules(i) = [k \in 1..10 |-> RunRules(i)[k]]
    BY DEF RunRules
  <1>3. JSONRules(i) = [k \in 1..8 |-> JSONRules(i)[k]]
    BY DEF JSONRules
  <1>4. AvroFlagRules(i) = [k \in 1..7 |-> AvroFlagRules(i)[k]]
    BY DEF AvroFlagRules
  <1>5. AvroFileRules(i) = [k \in 1..6 |-> AvroFileRules(i)[k]]
    BY DEF AvroFileRules
  <1>6. RunRules(i) \in Seq(RuleSet(i)) /\ Len(RunRules(i)) = 10
    BY <1>1, <1>2 DEF RuleSet
  <1>7. JSONRules(i) \in Seq(RuleSet(i)) /\ Len(JSONRules(i)) = 8
    BY <1>1, <1>3 DEF RuleSet
  <1>8. AvroFlagRules(i) \in Seq(RuleSet(i)) /\ Len(AvroFlagRules(i)) = 7
    BY <1>1, <1>4 DEF RuleSet
  <1>9. AvroFileRules(i) \in Seq(RuleSet(i)) /\ Len(AvroFileRules(i)) = 6
    BY <1>1, <1>5 DEF RuleSet
  <1> QED
    BY <1>6, <1>7, <1>8, <1>9

\* all is the m rules of a, then the n of b.
Joined(S, all, a, m, b, n) ==
    /\ all \in Seq(S) /\ Len(all) = m + n
    /\ \A k \in 1..m : all[k] = a[k] /\ a[k] \in ToSet(all)
    /\ \A k \in 1..n : all[m + k] = b[k] /\ b[k] \in ToSet(all)

LEMMA Concatenated ==
    ASSUME NEW S, NEW a \in Seq(S), NEW b \in Seq(S)
    PROVE  Joined(S, a \o b, a, Len(a), b, Len(b))
  BY ConcatAt, ConcatHolds DEF Joined

LEMMA RulesPlaced ==
    ASSUME NEW i
    PROVE  /\ Rules(i) \in Seq(RuleSet(i))
           /\ \A k \in 1..10 : Rules(i)[k] = RunRules(i)[k] /\ RunRules(i)[k] \in ToSet(Rules(i))
           /\ WireFormat(i) = "json" =>
                /\ Len(Rules(i)) = 18
                /\ \A k \in 1..8 : Rules(i)[10 + k] = JSONRules(i)[k] /\ JSONRules(i)[k] \in ToSet(Rules(i))
           /\ WireFormat(i) # "json" =>
                /\ Len(Rules(i)) = 23
                /\ \A k \in 1..7 : Rules(i)[10 + k] = AvroFlagRules(i)[k] /\ AvroFlagRules(i)[k] \in ToSet(Rules(i))
                /\ \A k \in 1..6 : Rules(i)[17 + k] = AvroFileRules(i)[k] /\ AvroFileRules(i)[k] \in ToSet(Rules(i))
  <1> DEFINE run == RunRules(i)
             json == JSONRules(i)
             flag == AvroFlagRules(i)
             file == AvroFileRules(i)
             S == RuleSet(i)
  <1>1. /\ run \in Seq(S) /\ Len(run) = 10
        /\ json \in Seq(S) /\ Len(json) = 8
        /\ flag \in Seq(S) /\ Len(flag) = 7
        /\ file \in Seq(S) /\ Len(file) = 6
    BY RulesAreSequences
  <1>2. Rules(i) = run \o (IF WireFormat(i) = "json" THEN json ELSE flag \o file)
    BY DEF Rules
  <1> HIDE DEF run, json, flag, file, S
  <1>3. CASE WireFormat(i) = "json"
    <2>1. PICK all : all = run \o json /\ Joined(S, all, run, 10, json, 8)
      BY <1>1, Concatenated
    <2>2. /\ all \in Seq(S) /\ Len(all) = 10 + 8
          /\ \A k \in 1..10 : all[k] = run[k] /\ run[k] \in ToSet(all)
          /\ \A k \in 1..8 : all[10 + k] = json[k] /\ json[k] \in ToSet(all)
      BY <2>1 DEF Joined
    <2>3. Rules(i) = all
      BY <1>2, <1>3, <2>1
    <2> QED
      BY <1>3, <2>2, <2>3 DEF run, json, S
  <1>4. CASE WireFormat(i) # "json"
    <2>1. PICK avro : avro = flag \o file /\ Joined(S, avro, flag, 7, file, 6)
      BY <1>1, Concatenated
    <2>2. /\ avro \in Seq(S) /\ Len(avro) = 7 + 6
          /\ \A k \in 1..7 : avro[k] = flag[k]
          /\ \A k \in 1..6 : avro[7 + k] = file[k]
      BY <2>1 DEF Joined
    <2>3. avro \in Seq(S) /\ Len(avro) = 13
      BY <2>2
    <2>4. PICK all : all = run \o avro /\ Joined(S, all, run, 10, avro, 13)
      BY <1>1, <2>3, Concatenated
    <2>5. /\ all \in Seq(S) /\ Len(all) = 10 + 13
          /\ \A k \in 1..10 : all[k] = run[k] /\ run[k] \in ToSet(all)
          /\ \A k \in 1..13 : all[10 + k] = avro[k] /\ avro[k] \in ToSet(all)
      BY <2>4 DEF Joined
    <2>6. \A k \in 1..7 : all[10 + k] = flag[k] /\ flag[k] \in ToSet(all)
      <3>1. \A k \in 1..7 : k \in 1..13
        OBVIOUS
      <3> QED
        BY <2>2, <2>5, <3>1
    <2>7. \A k \in 1..6 : 7 + k \in 1..13 /\ 10 + (7 + k) = 17 + k
      OBVIOUS
    <2>8. \A k \in 1..6 : all[17 + k] = file[k] /\ file[k] \in ToSet(all)
      BY <2>2, <2>5, <2>7
    <2>9. Rules(i) = all
      BY <1>2, <1>4, <2>1, <2>4
    <2> QED
      BY <1>4, <2>5, <2>6, <2>8, <2>9 DEF run, flag, file, S
  <1> QED
    BY <1>3, <1>4

LEMMA NothingReadYet ==
    ASSUME NEW i
    PROVE  /\ \A k \in 1..10 : RunRules(i)[k].reads = {}
           /\ \A k \in 1..8 : JSONRules(i)[k].reads = {}
           /\ \A k \in 1..7 : AvroFlagRules(i)[k].reads = {}
           /\ \A k \in 1..6 : ~AvroFileRules(i)[k].usage
  <1>1. \A k \in 1..10 : RunRules(i)[k].reads = {}
    BY DEF RunRules, Usage, Rule
  <1>2. \A k \in 1..8 : JSONRules(i)[k].reads = {}
    BY DEF JSONRules, Usage, Rule
  <1>3. \A k \in 1..7 : AvroFlagRules(i)[k].reads = {}
    <2> SUFFICES ASSUME NEW k \in 1..7 PROVE AvroFlagRules(i)[k].reads = {}
      OBVIOUS
    <2> DEFINE none(r) == r.reads = {}
    <2>1. none(AvroFlagRules(i)[1]) /\ none(AvroFlagRules(i)[2]) /\ none(AvroFlagRules(i)[3])
      BY DEF AvroFlagRules, Usage, Rule
    <2>2. none(AvroFlagRules(i)[4]) /\ none(AvroFlagRules(i)[5]) /\ none(AvroFlagRules(i)[6])
      BY DEF AvroFlagRules, Usage, Rule
    <2>3. none(AvroFlagRules(i)[7])
      BY DEF AvroFlagRules, Usage, Rule
    <2> QED
      BY <2>1, <2>2, <2>3
  <1>4. \A k \in 1..6 : ~AvroFileRules(i)[k].usage
    <2> SUFFICES ASSUME NEW k \in 1..6 PROVE ~AvroFileRules(i)[k].usage
      OBVIOUS
    <2>1. ~AvroFileRules(i)[1].usage /\ ~AvroFileRules(i)[2].usage /\ ~AvroFileRules(i)[3].usage
      BY DEF AvroFileRules, Reading, Rule
    <2>2. ~AvroFileRules(i)[4].usage /\ ~AvroFileRules(i)[5].usage /\ ~AvroFileRules(i)[6].usage
      BY DEF AvroFileRules, Reading, Rule
    <2> QED
      BY <2>1, <2>2
  <1> QED
    BY <1>1, <1>2, <1>3, <1>4

\* Every rule about the flags comes before every rule that reads.
LEMMA UsageComesFirst ==
    ASSUME NEW i, NEW j \in DOMAIN Rules(i), NEW k \in DOMAIN Rules(i),
           Rules(i)[j].usage, Rules(i)[k].reads # {}
    PROVE  j < k
  <1>0. /\ DOMAIN Rules(i) = 1..Len(Rules(i)) /\ Len(Rules(i)) \in Nat
        /\ \A n \in 1..10 : Rules(i)[n] = RunRules(i)[n]
    BY RulesPlaced
  <1>1. \A n \in 1..10 : Rules(i)[n].reads = {}
    BY <1>0, NothingReadYet
  <1>2. CASE WireFormat(i) = "json"
    <2>0. Len(Rules(i)) = 18 /\ \A n \in 1..8 : Rules(i)[10 + n] = JSONRules(i)[n]
      BY <1>2, RulesPlaced
    <2>1. \A n \in 1..8 : Rules(i)[10 + n].reads = {}
      BY <2>0, NothingReadYet
    <2>2. \A n \in 11..18 : n - 10 \in 1..8 /\ 10 + (n - 10) = n
      OBVIOUS
    <2>3. \A n \in 1..18 : Rules(i)[n].reads = {}
      BY <1>1, <2>1, <2>2
    <2> QED
      BY <1>0, <2>0, <2>3
  <1>3. CASE WireFormat(i) # "json"
    <2>0. /\ Len(Rules(i)) = 23
          /\ \A n \in 1..7 : Rules(i)[10 + n] = AvroFlagRules(i)[n]
          /\ \A n \in 1..6 : Rules(i)[17 + n] = AvroFileRules(i)[n]
      BY <1>3, RulesPlaced
    <2>1. \A n \in 1..7 : Rules(i)[10 + n].reads = {}
      BY <2>0, NothingReadYet
    <2>2. \A n \in 1..6 : ~Rules(i)[17 + n].usage
      BY <2>0, NothingReadYet
    <2>4. k > 17
      <3>1. k \in 11..17 => k - 10 \in 1..7 /\ 10 + (k - 10) = k
        BY <1>0
      <3> QED
        BY <1>0, <1>1, <2>1, <3>1
    <2>5. j <= 17
      <3>1. j \in 18..23 => j - 17 \in 1..6 /\ 17 + (j - 17) = j
        BY <1>0
      <3> QED
        BY <1>0, <2>0, <2>2, <3>1
    <2> QED
      BY <1>0, <2>4, <2>5
  <1> QED
    BY <1>2, <1>3

-----------------------------------------------------------------------------
(* What an invocation that breaks no rule keeps to.                            *)

LEMMA RuleBites ==
    ASSUME NEW option, NEW broken, broken
    PROVE  Usage(option, broken).broken /\ Rule(option, broken).broken
  BY DEF Usage, Rule

LEMMA RunKept ==
    ASSUME NEW i, ~Refused(i)
    PROVE  ~(i.flags.perKey < 1)
  <1> SUFFICES ASSUME i.flags.perKey < 1 PROVE FALSE
    OBVIOUS
  <1>1. RunRules(i)[5] = Usage("records-per-key", i.flags.perKey < 1)
    BY DEF RunRules
  <1>2. Usage("records-per-key", i.flags.perKey < 1).broken
    BY RuleBites
  <1>3. RunRules(i)[5] \in ToSet(Rules(i))
    BY RulesPlaced
  <1> QED
    BY <1>1, <1>2, <1>3 DEF Refused

\* The conditions of JSONRules that the properties turn on.
JSONKept(i) ==
    /\ i.flags.avroKeySchema = None /\ ~i.flags.registry
    /\ ~KeysDiffer(i.topic.types)
    /\ ~(i.flags.perKey > 1 /\ ~(SharedKeyBinding(i.topic.types) # None))

LEMMA JSONRulesKept ==
    ASSUME NEW i, WireFormat(i) = "json", ~Refused(i)
    PROVE  JSONKept(i)
  <1>1. \A k \in 1..8 : ~JSONRules(i)[k].broken
    BY RulesPlaced DEF Refused
  <1>2. i.flags.avroKeySchema = None
    <2> SUFFICES ASSUME i.flags.avroKeySchema # None PROVE FALSE
      OBVIOUS
    <2>1. JSONRules(i)[1] = Usage("avro-key-schema", i.flags.avroKeySchema # None)
      BY DEF JSONRules
    <2>2. Usage("avro-key-schema", i.flags.avroKeySchema # None).broken
      BY RuleBites
    <2> QED
      BY <1>1, <2>1, <2>2
  <1>3. ~i.flags.registry
    <2> SUFFICES ASSUME i.flags.registry PROVE FALSE
      OBVIOUS
    <2>1. JSONRules(i)[2] = Usage("registry", i.flags.registry)
      BY DEF JSONRules
    <2>2. Usage("registry", i.flags.registry).broken
      BY RuleBites
    <2>3. ~JSONRules(i)[2].broken
      BY <1>1
    <2> QED
      BY <2>1, <2>2, <2>3, Zenon
  <1>4. ~KeysDiffer(i.topic.types)
    <2> SUFFICES ASSUME KeysDiffer(i.topic.types) PROVE FALSE
      OBVIOUS
    <2>1. JSONRules(i)[5] = Rule("topic", KeysDiffer(i.topic.types))
      BY DEF JSONRules
    <2>2. Rule("topic", KeysDiffer(i.topic.types)).broken
      BY RuleBites
    <2>3. ~JSONRules(i)[5].broken
      BY <1>1
    <2> QED
      BY <2>1, <2>2, <2>3, Zenon
  <1>5. ~(i.flags.perKey > 1 /\ ~(SharedKeyBinding(i.topic.types) # None))
    <2> DEFINE pooled == i.flags.perKey > 1 /\ ~(SharedKeyBinding(i.topic.types) # None)
    <2> SUFFICES ASSUME pooled PROVE FALSE
      OBVIOUS
    <2>1. JSONRules(i)[7] = Usage("records-per-key", pooled)
      BY DEF JSONRules
    <2>2. Usage("records-per-key", pooled).broken
      BY RuleBites
    <2> QED
      BY <1>1, <2>1, <2>2
  <1> QED
    BY <1>2, <1>3, <1>4, <1>5 DEF JSONKept

\* Those of the Avro format.
SpecKeyed(i) == \E n \in DOMAIN SpecAvro(i) : SpecAvro(i)[n].key # None
AvroKept(i) ==
    /\ ~(SpecAvro(i) # <<>> /\ i.flags.avroSchema # None)
    /\ ~(SpecAvro(i) = <<>> /\ i.flags.avroSchema = None)
    /\ ~(SpecKeyed(i) /\ i.flags.avroKeySchema # None)
    /\ ~(~i.flags.dryRun /\ ~i.flags.registry)
    /\ ~(i.flags.perKey > 1 /\ ~SpecKeyed(i) /\ i.flags.avroKeySchema = None)
    /\ ~KeysDiffer(SpecAvro(i))
    /\ ~(Len(ValueAvscs(i)) > 1 /\ ~Unites(i))

LEMMA AvroRulesKept ==
    ASSUME NEW i, WireFormat(i) # "json", ~Refused(i)
    PROVE  AvroKept(i)
  <1>1. /\ \A k \in 1..7 : ~AvroFlagRules(i)[k].broken
        /\ \A k \in 1..6 : ~AvroFileRules(i)[k].broken
    BY RulesPlaced DEF Refused
  <1>2. ~(SpecAvro(i) # <<>> /\ i.flags.avroSchema # None)
    <2> DEFINE twice == SpecAvro(i) # <<>> /\ i.flags.avroSchema # None
    <2> SUFFICES ASSUME twice PROVE FALSE
      OBVIOUS
    <2>1. AvroFlagRules(i)[1] = Usage("avro-schema", twice)
      BY DEF AvroFlagRules
    <2>2. Usage("avro-schema", twice).broken
      BY RuleBites
    <2> QED
      BY <1>1, <2>1, <2>2
  <1>3. ~(SpecAvro(i) = <<>> /\ i.flags.avroSchema = None)
    <2> DEFINE never == SpecAvro(i) = <<>> /\ i.flags.avroSchema = None
    <2> SUFFICES ASSUME never PROVE FALSE
      OBVIOUS
    <2>1. AvroFlagRules(i)[2] = Usage("avro-schema", never)
      BY DEF AvroFlagRules
    <2>2. Usage("avro-schema", never).broken
      BY RuleBites
    <2> QED
      BY <1>1, <2>1, <2>2
  <1>4. ~(SpecKeyed(i) /\ i.flags.avroKeySchema # None)
    <2> DEFINE twice == SpecKeyed(i) /\ i.flags.avroKeySchema # None
    <2> SUFFICES ASSUME twice PROVE FALSE
      OBVIOUS
    <2>1. AvroFlagRules(i)[3] = Usage("avro-key-schema", twice)
      BY DEF AvroFlagRules, SpecKeyed
    <2>2. Usage("avro-key-schema", twice).broken
      BY RuleBites
    <2> QED
      BY <1>1, <2>1, <2>2
  <1>5. ~(~i.flags.dryRun /\ ~i.flags.registry)
    <2> DEFINE unregistered == ~i.flags.dryRun /\ ~i.flags.registry
    <2> SUFFICES ASSUME unregistered PROVE FALSE
      OBVIOUS
    <2>1. AvroFlagRules(i)[5] = Usage("registry", unregistered)
      BY DEF AvroFlagRules
    <2>2. Usage("registry", unregistered).broken
      BY RuleBites
    <2> QED
      BY <1>1, <2>1, <2>2
  <1>6. ~(i.flags.perKey > 1 /\ ~SpecKeyed(i) /\ i.flags.avroKeySchema = None)
    <2> DEFINE pooled == i.flags.perKey > 1 /\ (~SpecKeyed(i) /\ i.flags.avroKeySchema = None)
    <2> SUFFICES ASSUME pooled PROVE FALSE
      OBVIOUS
    <2>1. AvroFlagRules(i)[7] = Usage("records-per-key", pooled)
      BY DEF AvroFlagRules, SpecKeyed
    <2>2. Usage("records-per-key", pooled).broken
      BY RuleBites
    <2> QED
      BY <1>1, <2>1, <2>2
  <1>7. ~KeysDiffer(SpecAvro(i))
    <2> SUFFICES ASSUME KeysDiffer(SpecAvro(i)) PROVE FALSE
      OBVIOUS
    <2>1. AvroFileRules(i)[2] = Rule("topic", KeysDiffer(SpecAvro(i)))
      BY DEF AvroFileRules
    <2>2. Rule("topic", KeysDiffer(SpecAvro(i))).broken
      BY RuleBites
    <2>3. ~AvroFileRules(i)[2].broken
      BY <1>1
    <2> QED
      BY <2>1, <2>2, <2>3, Zenon
  <1>8. ~(Len(ValueAvscs(i)) > 1 /\ ~Unites(i))
    <2> DEFINE apart == Len(ValueAvscs(i)) > 1 /\ ~Unites(i)
    <2> SUFFICES ASSUME apart PROVE FALSE
      OBVIOUS
    <2>1. AvroFileRules(i)[6] = Rule("topic", apart)
      BY DEF AvroFileRules
    <2>2. Rule("topic", apart).broken
      BY RuleBites
    <2> QED
      BY <1>1, <2>1, <2>2
  <1> QED
    BY <1>2, <1>3, <1>4, <1>5, <1>6, <1>7, <1>8 DEF AvroKept

-----------------------------------------------------------------------------
(* The inductive invariant of a planned run.                                   *)

\* The rules before the one judged next are kept, and only they have read; a
\* run that goes on keeps them all.
PlanInv ==
    /\ inv \in Invocations
    /\ phase \in {"plan", "help", "refused", "generate", "failed", "encode", "nonconforming"}
    /\ phase = "plan" => /\ rule \in 1..(Len(Rules(inv)) + 1)
                         /\ \A k \in 1..(rule - 1) : ~Rules(inv)[k].broken
                         /\ opened # {} => \E k \in 1..(rule - 1) : Rules(inv)[k].reads # {}
                         /\ encodedWith = None
    /\ phase = "refused" => /\ rule \in 1..Len(Rules(inv))
                            /\ \A k \in 1..(rule - 1) : ~Rules(inv)[k].broken
                            /\ opened # {} => \E k \in 1..rule : Rules(inv)[k].reads # {}
    /\ phase \notin {"plan", "help", "refused"} => ~Refused(inv)

\* The message in hand is of a bound Message type and of its own schemas.
Drawn == /\ message.type \in DOMAIN Bound(inv) /\ message.of = Bound(inv)[message.type].payload
         /\ message.key \in KeyValues[KeySchema(inv)]
MessageInv ==
    /\ phase \in {"encode", "nonconforming"} => Drawn
    /\ phase = "nonconforming" => KeyMismatch(message)
    /\ phase = "generate" /\ encodedWith # None =>
          /\ Drawn /\ ~KeyMismatch(message)
          /\ encodedWith = [payload |-> AvscsFor(message),
                            key |-> IF message.key = "null" THEN None ELSE KeySchema(inv)]

\* The ring is one of KeyReuse, untouched until the run is planned.
RunRingInv ==
    /\ RingInv
    /\ phase = "plan" => Init /\ perKey = 1

RunInv == PlanInv /\ MessageInv /\ RunRingInv

LEMMA PlanStep ==
    ASSUME PlanInv, [RunNext]_runVars
    PROVE  PlanInv' /\ inv' = inv
  <1>1. inv' = inv
    BY DEF RunNext, AskForHelp, Judge, Build, Generate, GenerateFails, Encode, EncodeFails, runVars
  <1>2. PICK rules : rules = Rules(inv)
    OBVIOUS
  <1>3. Rules(inv)' = rules /\ (Refused(inv)' <=> Refused(inv))
    BY <1>1, <1>2
  <1>4. DOMAIN rules = 1..Len(rules) /\ Len(rules) \in Nat
    BY <1>2, RulesPlaced
  <1>5. CASE AskForHelp
    BY <1>1, <1>5 DEF AskForHelp, PlanInv
  <1>6. CASE Judge
    <2>1. /\ phase = "plan" /\ rule \in 1..Len(rules)
          /\ \A k \in 1..(rule - 1) : ~rules[k].broken
          /\ opened # {} => \E k \in 1..(rule - 1) : rules[k].reads # {}
          /\ opened' = opened \union rules[rule].reads /\ encodedWith' = None
      BY <1>2, <1>4, <1>6 DEF Judge, PlanInv
    <2>2. opened' # {} => \E k \in 1..rule : rules[k].reads # {}
      BY <2>1
    <2>3. CASE rules[rule].broken
      <3>1. phase' = "refused" /\ rule' = rule
        BY <1>2, <1>6, <2>3 DEF Judge
      <3> QED
        BY <1>1, <1>3, <2>1, <2>2, <3>1 DEF PlanInv
    <2>4. CASE ~rules[rule].broken
      <3>1. phase' = "plan" /\ rule' = rule + 1
        BY <1>2, <1>6, <2>1, <2>4 DEF Judge
      <3>2. rule' \in 1..(Len(rules) + 1) /\ rule' - 1 = rule
        BY <1>4, <2>1, <3>1
      <3>3. \A k \in 1..rule : ~rules[k].broken
        BY <2>1, <2>4
      <3> QED
        BY <1>1, <1>3, <2>1, <2>2, <3>1, <3>2, <3>3 DEF PlanInv
    <2> QED
      BY <2>3, <2>4
  <1>7. CASE Build
    <2>1. phase = "plan" /\ phase' = "generate" /\ rule > Len(rules) /\ rule \in 1..(Len(rules) + 1)
          /\ \A k \in 1..(rule - 1) : ~rules[k].broken
      BY <1>2, <1>7 DEF Build, PlanInv
    <2>2. \A k \in 1..Len(rules) : ~rules[k].broken
      BY <1>4, <2>1
    <2>3. ~Refused(inv)
      BY <1>2, <1>4, <2>2 DEF Refused, ToSet
    <2> QED
      BY <1>1, <1>3, <2>1, <2>3 DEF PlanInv
  <1>8. CASE Generate \/ GenerateFails \/ Encode \/ EncodeFails
    <2>1. /\ phase \in {"generate", "encode"}
          /\ phase' \in {"generate", "encode", "failed", "nonconforming"}
      BY <1>8 DEF Generate, GenerateFails, Encode, EncodeFails
    <2> QED
      BY <1>1, <1>3, <2>1 DEF PlanInv
  <1>9. CASE UNCHANGED runVars
    BY <1>1, <1>3, <1>9 DEF runVars, planning, PlanInv
  <1> QED
    BY <1>1, <1>5, <1>6, <1>7, <1>8, <1>9 DEF RunNext

LEMMA MessageStep ==
    ASSUME PlanInv, MessageInv, [RunNext]_runVars
    PROVE  MessageInv'
  <1>1. inv' = inv
    BY PlanStep
  <1>2. /\ Bound(inv)' = Bound(inv) /\ KeySchema(inv)' = KeySchema(inv) /\ EncoderOf(inv)' = EncoderOf(inv)
        /\ Keyed(inv)' = Keyed(inv) /\ ValueAvscs(inv)' = ValueAvscs(inv)
    BY <1>1
  <1>3. message' = message =>
           (Drawn' <=> Drawn) /\ (KeyMismatch(message)' <=> KeyMismatch(message)) /\ AvscsFor(message)' = AvscsFor(message)
    BY <1>2 DEF Drawn, KeyMismatch, AvscsFor
  <1>4. CASE AskForHelp \/ Judge \/ GenerateFails
    BY <1>4 DEF AskForHelp, Judge, GenerateFails, MessageInv
  <1>5. CASE Build
    BY <1>5 DEF Build, PlanInv, MessageInv
  <1>6. CASE Generate
    <2>1. PICK type \in DOMAIN Bound(inv), k \in KeyValues[KeySchema(inv)] :
             message' = [type |-> type, of |-> Bound(inv)[type].payload, key |-> k]
      BY <1>6 DEF Generate
    <2>2. message.type' = type /\ message.of' = Bound(inv)[type].payload /\ message.key' = k
      BY <2>1
    <2>3. Drawn'
      BY <1>2, <2>2 DEF Drawn
    <2> QED
      BY <1>6, <2>3 DEF Generate, MessageInv
  <1>7. CASE Encode
    <2>1. /\ phase = "encode" /\ phase' = "generate" /\ message' = message /\ ~KeyMismatch(message)
          /\ encodedWith' = [payload |-> AvscsFor(message),
                             key |-> IF message.key = "null" THEN None ELSE KeySchema(inv)]
      BY <1>7 DEF Encode
    <2>2. Drawn
      BY <2>1 DEF MessageInv
    <2> QED
      BY <1>2, <1>3, <2>1, <2>2 DEF MessageInv
  <1>8. CASE EncodeFails
    BY <1>3, <1>8 DEF EncodeFails, MessageInv
  <1>9. CASE UNCHANGED runVars
    BY <1>2, <1>3, <1>9 DEF runVars, MessageInv
  <1> QED
    BY <1>4, <1>5, <1>6, <1>7, <1>8, <1>9 DEF RunNext

LEMMA RunRingStep ==
    ASSUME PlanInv, RunRingInv, [RunNext]_runVars
    PROVE  RunRingInv' /\ [Window!Next]_<<created, key>>
  <1>1. CASE UNCHANGED ring /\ (phase' = "plan" => phase = "plan")
    <2>1. UNCHANGED vars
      BY <1>1 DEF ring, vars
    <2> QED
      BY <1>1, <2>1, RingStep DEF RunRingInv, ring, Init
  <1>2. CASE Build
    <2>1. /\ phase = "plan" /\ phase' = "generate" /\ rule > Len(Rules(inv))
          /\ perKey' = PlanOf(inv).perKey
          /\ keys' = keys /\ oldest' = oldest /\ created' = created /\ key' = key
      BY <1>2 DEF Build
    <2>2. keys = <<>> /\ oldest = 0 /\ created = 0 /\ key = 0
      BY <2>1 DEF RunRingInv, Init
    <2>3. ~Refused(inv)
      BY <1>2, <2>1, PlanStep DEF PlanInv
    <2>4. PlanOf(inv).perKey \in PerKeys
      <3>1. PlanOf(inv).perKey = IF Keyed(inv) THEN inv.flags.perKey ELSE 1
        BY DEF PlanOf
      <3>2. inv.flags.perKey \in Int
        BY InvocationsAssumption DEF PlanInv, FlagSet
      <3> QED
        BY <2>3, <3>1, <3>2, RunKept, InvocationsAssumption DEF PlanInv
    <2>5. RingInv'
      BY <2>1, <2>2, <2>4, MaxAssumption DEF RingInv, TypeOK
    <2> QED
      BY <2>1, <2>5 DEF RunRingInv
  <1>3. CASE Generate
    <2>1. phase' = "encode" /\ [Next]_vars
      BY <1>3 DEF Generate, DrawKey, Next, ring, vars
    <2> QED
      BY <2>1, RingStep, WindowStep DEF RunRingInv
  <1>4. CASE GenerateFails
    <2>1. phase' = "failed" /\ UNCHANGED vars
      BY <1>4 DEF GenerateFails, FreshFails
    <2> QED
      BY <1>1, <2>1 DEF ring, vars
  <1>5. CASE AskForHelp \/ Judge \/ Encode \/ EncodeFails
    <2>1. UNCHANGED ring /\ (phase' = "plan" => phase = "plan")
      BY <1>5 DEF AskForHelp, Judge, Encode, EncodeFails
    <2> QED
      BY <1>1, <2>1
  <1>6. CASE UNCHANGED runVars
    BY <1>1, <1>6 DEF runVars
  <1> QED
    BY <1>2, <1>3, <1>4, <1>5, <1>6 DEF RunNext

-----------------------------------------------------------------------------
(* The theorems about a planned run.                                           *)

\* A run (main.go:43) is planned as its rules say and draws Keys from a ring.
THEOREM RunInvariant == RunSpec => []RunInv
  <1>1. RunInit => RunInv
    <2> SUFFICES ASSUME RunInit PROVE RunInv
      OBVIOUS
    <2>1. Len(Rules(inv)) \in Nat
      BY RulesPlaced
    <2>2. PlanInv
      BY <2>1 DEF RunInit, PlanInv
    <2>3. Init /\ perKey = 1
      BY InvocationsAssumption DEF RunInit, Init
    <2> QED
      BY <2>2, <2>3, RingInit DEF RunInit, RunInv, MessageInv, RunRingInv
  <1>2. RunInv /\ [RunNext]_runVars => RunInv'
    BY PlanStep, MessageStep, RunRingStep DEF RunInv
  <1> QED
    BY <1>1, <1>2, PTL DEF RunSpec

\* FlagsBeforeFiles: "a conflicting or missing flag wins over a broken file"
\* (wire.go:24), whichever rules an invocation breaks.
THEOREM FlagsFirst == RunSpec => []FlagsBeforeFiles
  <1>1. RunInv => FlagsBeforeFiles
    <2> SUFFICES ASSUME RunInv, phase = "refused", opened # {},
                        NEW j \in DOMAIN Rules(inv), Rules(inv)[j].usage
                 PROVE  ~Rules(inv)[j].broken
      BY DEF FlagsBeforeFiles
    <2>1. DOMAIN Rules(inv) = 1..Len(Rules(inv)) /\ Len(Rules(inv)) \in Nat
      BY RulesPlaced
    <2>2. PICK k \in 1..rule : Rules(inv)[k].reads # {}
      BY DEF RunInv, PlanInv
    <2>3. rule \in 1..Len(Rules(inv)) /\ \A n \in 1..(rule - 1) : ~Rules(inv)[n].broken
      BY DEF RunInv, PlanInv
    <2>4. PICK i : i = inv
      OBVIOUS
    <2>5. j < k
      <3>1. j \in DOMAIN Rules(i) /\ k \in DOMAIN Rules(i)
        BY <2>1, <2>2, <2>3, <2>4
      <3> QED
        BY <2>2, <2>4, <3>1, UsageComesFirst
    <2> QED
      BY <2>1, <2>2, <2>3, <2>5
  <1> QED
    BY <1>1, RunInvariant, PTL

\* The branch of the union named like a bound record is that record's avsc.
LEMMA OwnBranch ==
    ASSUME NEW i, AvroKept(i), SpecAvro(i) \in Seq(MessageTypeSet), Len(ValueAvscs(i)) > 1,
           NEW n \in DOMAIN ValueAvscs(i)
    PROVE  {avsc \in ToSet(ValueAvscs(i)) : RecordOf[avsc] = RecordOf[ValueAvscs(i)[n]]} = {ValueAvscs(i)[n]}
  <1> DEFINE values == ValueAvscs(i)
  <1>1. IsInjective(Names(values))
    BY DEF AvroKept, Unites
  <1>2. \A m \in DOMAIN values : RecordOf[values[m]] = RecordOf[values[n]] => m = n
    BY <1>1 DEF IsInjective, Names
  <1> QED
    BY <1>2 DEF ToSet

LEMMA OwnAvsc ==
    ASSUME RunInv, Drawn, ~Refused(inv)
    PROVE  AvscsFor(message) = {message.of}
  <1> DEFINE types == inv.topic.types
             own == Bound(inv)[message.type].payload
  <1>1. message.type \in DOMAIN Bound(inv) /\ message.of = own
    BY DEF Drawn
  <1>2. /\ types \in Seq(MessageTypeSet) /\ inv.flags.format \in {None, "json", "avro"}
        /\ inv.topic.format \in {"json", "avro"}
    BY InvocationsAssumption DEF RunInv, PlanInv, FlagSet, TopicSet
  <1>3. CASE EncoderOf(inv) \notin {"union", "framed"}
    BY <1>1, <1>3 DEF AvscsFor
  <1>4. CASE EncoderOf(inv) \in {"union", "framed"}
    <2>1. WireFormat(inv) # "json"
      BY <1>4 DEF EncoderOf
    <2>2. AvroKept(inv)
      BY <2>1, AvroRulesKept
    <2>3. WireFormat(inv) = "avro"
      BY <1>2, <2>1 DEF WireFormat
    <2>4. CASE SpecAvro(inv) = <<>>
      <3>1. Bound(inv) = <<[payload |-> inv.flags.avroSchema, headers |-> FALSE]>> /\ Len(ValueAvscs(inv)) = 1
        BY <2>3, <2>4 DEF Bound, ValueAvscs
      <3>2. EncoderOf(inv) = "framed"
        BY <1>4, <3>1 DEF EncoderOf
      <3>3. message.type = 1
        BY <1>1, <3>1
      <3> QED
        BY <1>1, <3>2, <3>3 DEF AvscsFor
    <2>5. CASE SpecAvro(inv) # <<>>
      <3>1. SpecAvro(inv) = types
        BY <2>5 DEF SpecAvro
      <3>2. ValueAvscs(inv) = [n \in DOMAIN types |-> types[n].payload]
        BY <2>5, <3>1 DEF ValueAvscs
      <3>3. Bound(inv) = [n \in DOMAIN types |-> [payload |-> types[n].payload, headers |-> types[n].headers]]
        BY <2>5 DEF Bound
      <3>4. DOMAIN types = 1..Len(types) /\ Len(types) \in Nat
        BY <1>2
      <3>5. message.type \in DOMAIN types /\ own = ValueAvscs(inv)[message.type] /\ Len(ValueAvscs(inv)) = Len(types)
        BY <1>1, <3>2, <3>3, <3>4
      <3>6. CASE Len(types) > 1
        <4>1. EncoderOf(inv) = "union"
          BY <1>4, <3>5, <3>6 DEF EncoderOf
        <4>2. PICK i, n : i = inv /\ n = message.type
          OBVIOUS
        <4>3. {avsc \in ToSet(ValueAvscs(i)) : RecordOf[avsc] = RecordOf[ValueAvscs(i)[n]]} = {ValueAvscs(i)[n]}
          BY <1>2, <2>2, <3>1, <3>2, <3>5, <3>6, <4>2, OwnBranch
        <4> QED
          BY <1>1, <3>5, <4>1, <4>2, <4>3 DEF AvscsFor
      <3>7. CASE ~(Len(types) > 1)
        <4>1. EncoderOf(inv) = "framed"
          BY <1>2, <1>4, <3>4, <3>5, <3>7 DEF EncoderOf
        <4>2. message.type = 1
          BY <3>4, <3>5, <3>7
        <4> QED
          BY <1>1, <4>1, <4>2 DEF AvscsFor
      <3> QED
        BY <3>6, <3>7
    <2> QED
      BY <2>4, <2>5
  <1> QED
    BY <1>3, <1>4

LEMMA KeySchemaKnown ==
    ASSUME NEW i \in Invocations
    PROVE  KeySchema(i) \in DOMAIN KeyValues
  <1>1. i.topic.types \in Seq(MessageTypeSet) /\ i.flags.avroKeySchema \in DOMAIN KeyValues
    BY InvocationsAssumption DEF FlagSet, TopicSet
  <1>2. ASSUME NEW types \in Seq(MessageTypeSet) PROVE SharedKeyBinding(types) \in DOMAIN KeyValues
    <2>1. types # <<>> => types[1] \in MessageTypeSet
      OBVIOUS
    <2> QED
      BY <2>1, KeyValuesAssumption DEF SharedKeyBinding, MessageTypeSet
  <1>3. SpecAvro(i) \in Seq(MessageTypeSet)
    BY <1>1 DEF SpecAvro
  <1>4. SharedKeyBinding(SpecAvro(i)) \in DOMAIN KeyValues
    BY <1>2, <1>3
  <1>5. SharedKeyBinding(i.topic.types) \in DOMAIN KeyValues
    BY <1>1, <1>2
  <1> QED
    BY <1>1, <1>4, <1>5 DEF KeySchema, KeyAvsc

\* EncodesAsGenerated: of several avscs the Encoder takes the one the Payload
\* was generated of (avro_encoder.go:207), and the Key is what it looks for.
THEOREM EncodesCorrect == RunSpec => []EncodesAsGenerated
  <1>1. RunInv => EncodesAsGenerated
    <2> SUFFICES ASSUME RunInv PROVE EncodesAsGenerated
      OBVIOUS
    <2>1. KeyValues[KeySchema(inv)] \subseteq {"value", "null"}
      BY KeySchemaKnown, KeyValuesAssumption DEF RunInv, PlanInv
    <2>2. Drawn => message.key \in {"value", "null"} /\ message.key \in KeyValues[KeySchema(inv)]
      BY <2>1 DEF Drawn
    <2>3. ~Keyed(inv) => KeyValues[KeySchema(inv)] = {"null"}
      BY KeyValuesAssumption DEF Keyed
    <2>4. ASSUME phase = "generate", encodedWith # None
          PROVE  encodedWith.payload = {message.of} /\ (EncoderOf(inv) # "json" => encodedWith.key = KeySchema(inv))
      <3>1. /\ Drawn /\ ~KeyMismatch(message) /\ ~Refused(inv)
            /\ encodedWith.payload = AvscsFor(message)
            /\ encodedWith.key = IF message.key = "null" THEN None ELSE KeySchema(inv)
        BY <2>4 DEF RunInv, MessageInv, PlanInv
      <3>2. EncoderOf(inv) # "json" /\ message.key = "null" => KeySchema(inv) = None
        BY <3>1 DEF KeyMismatch, Keyed
      <3> QED
        BY <3>1, <3>2, OwnAvsc
    <2>5. ASSUME phase = "nonconforming" PROVE "null" \in KeyValues[KeySchema(inv)] /\ Keyed(inv)
      <3>1. Drawn /\ KeyMismatch(message)
        BY <2>5 DEF RunInv, MessageInv
      <3>2. CASE Keyed(inv)
        <4>1. message.key # "value"
          BY <3>1, <3>2 DEF KeyMismatch, Keyed
        <4> QED
          BY <2>2, <3>1, <3>2, <4>1
      <3>3. CASE ~Keyed(inv)
        <4>1. message.key = "value"
          BY <3>1, <3>3 DEF KeyMismatch, Keyed
        <4> QED
          BY <2>2, <2>3, <3>1, <3>3, <4>1
      <3> QED
        BY <3>2, <3>3
    <2> QED
      BY <2>4, <2>5 DEF EncodesAsGenerated
  <1> QED
    BY <1>1, RunInvariant, PTL

\* KeepsWindow, of a whole run: whatever the plan says of records per Key.
THEOREM RunKeepsWindow == RunSpec => KeepsWindow
  <1>1. RunInit => Window!Init
    BY DEF RunInit, Window!Init
  <1>2. RunInv /\ [RunNext]_runVars => [Window!Next]_<<created, key>>
    BY RunRingStep DEF RunInv
  <1> QED
    BY <1>1, <1>2, RunInvariant, PTL DEF RunSpec, KeepsWindow, Window!Spec

-----------------------------------------------------------------------------
(* Nothing is ignored in silence.                                              *)

\* What NothingIgnored asks of one thing said.
Heeded(i, what) ==
    \/ Without(i, what) = i
    \/ Refused(Without(i, what))
    \/ SilentPlan(Without(i, what)) # SilentPlan(i)
    \/ Diagnostic(what) \in PlanOf(i).diagnostics

LEMMA Typed ==
    ASSUME NEW i \in Invocations
    PROVE  i \in [flags : FlagSet, topic : TopicSet] /\ i.flags \in FlagSet /\ i.topic \in TopicSet
           /\ i.topic.types \in Seq(MessageTypeSet)
  <1>1. i \in [flags : FlagSet, topic : TopicSet]
    BY InvocationsAssumption
  <1>2. i.flags \in FlagSet /\ i.topic \in TopicSet
    BY <1>1
  <1> QED
    BY <1>1, <1>2 DEF TopicSet

\* Two silent plans are the same only part by part.
LEMMA SamePlan ==
    ASSUME NEW i, NEW w, SilentPlan(i) = SilentPlan(w)
    PROVE  /\ Bound(i) = Bound(w) /\ KeySchema(i) = KeySchema(w) /\ EncoderOf(i) = EncoderOf(w)
           /\ (IF Keyed(i) THEN i.flags.perKey ELSE 1) = (IF Keyed(w) THEN w.flags.perKey ELSE 1)
           /\ i.flags.keyPath = w.flags.keyPath
           /\ (IF i.flags.dryRun THEN <<"stdout">> ELSE <<"broker", i.flags.kafka>>)
                = (IF w.flags.dryRun THEN <<"stdout">> ELSE <<"broker", w.flags.kafka>>)
  BY DEF SilentPlan, PlanOf

LEMMA KeyPathHeeded ==
    ASSUME NEW i \in Invocations
    PROVE  Heeded(i, "keyPath")
  <1> DEFINE w == Without(i, "keyPath")
  <1>1. w = [i EXCEPT !.flags.keyPath = FALSE]
    BY DEF Without
  <1>2. i \in [flags : FlagSet, topic : TopicSet] /\ i.flags \in FlagSet
    BY Typed
  <1>3. w.flags.keyPath = FALSE
    BY <1>1, <1>2 DEF FlagSet
  <1>4. CASE i.flags.keyPath = FALSE
    <2>1. [i.flags EXCEPT !.keyPath = FALSE] = i.flags
      BY <1>2, <1>4 DEF FlagSet
    <2>2. w = i
      BY <1>1, <1>2, <2>1
    <2> QED
      BY <2>2 DEF Heeded
  <1>5. CASE i.flags.keyPath # FALSE
    BY <1>3, <1>5, SamePlan DEF Heeded
  <1> QED
    BY <1>4, <1>5

LEMMA AvroSchemaHeeded ==
    ASSUME NEW i \in Invocations, ~Refused(i)
    PROVE  Heeded(i, "avro-schema")
  <1> DEFINE w == Without(i, "avro-schema")
  <1>1. w = [i EXCEPT !.flags.avroSchema = None]
    BY DEF Without
  <1>2. i \in [flags : FlagSet, topic : TopicSet] /\ i.flags \in FlagSet
    BY Typed
  <1>3. w.flags.avroSchema = None /\ w.topic = i.topic
    BY <1>1, <1>2 DEF FlagSet
  <1>4. CASE i.flags.avroSchema = None
    <2>1. [i.flags EXCEPT !.avroSchema = None] = i.flags
      BY <1>2, <1>4 DEF FlagSet
    <2>2. w = i
      BY <1>1, <1>2, <2>1
    <2> QED
      BY <2>2 DEF Heeded
  <1>5. CASE i.flags.avroSchema # None
    <2>1. WireFormat(i) = "avro" /\ EncoderOf(i) # "json"
      BY <1>5 DEF WireFormat, EncoderOf
    <2>2. SpecAvro(w) = <<>>
      BY <1>3, <1>5, <2>1, AvroRulesKept DEF AvroKept, SpecAvro
    <2>3. CASE WireFormat(w) = "json"
      <3>1. EncoderOf(w) = "json"
        BY <2>3 DEF EncoderOf
      <3> QED
        BY <2>1, <3>1, SamePlan DEF Heeded
    <2>4. CASE WireFormat(w) # "json"
      <3>1. Refused(w)
        BY <1>3, <2>2, <2>4, AvroRulesKept DEF AvroKept
      <3> QED
        BY <3>1 DEF Heeded
    <2> QED
      BY <2>3, <2>4
  <1> QED
    BY <1>4, <1>5

\* A Key binding that all Message types share is each one's.
LEMMA SharedByAll ==
    ASSUME NEW types \in Seq(MessageTypeSet), ~KeysDiffer(types), NEW n \in DOMAIN types
    PROVE  SharedKeyBinding(types) = types[n].key
  <1>1. types # <<>> /\ 1 \in DOMAIN types
    OBVIOUS
  <1> QED
    BY <1>1 DEF KeysDiffer, SharedKeyBinding

LEMMA SpecTyped ==
    ASSUME NEW i \in Invocations
    PROVE  SpecAvro(i) \in Seq(MessageTypeSet)
  BY Typed DEF SpecAvro

LEMMA UnkeyedSpec ==
    ASSUME NEW i \in Invocations, ~SpecKeyed(i)
    PROVE  ~KeyFromSpec(i)
  <1>1. SpecAvro(i) # <<>> => 1 \in DOMAIN SpecAvro(i)
    BY SpecTyped
  <1> QED
    BY <1>1 DEF SpecKeyed, KeyFromSpec, SharedKeyBinding

LEMMA AvroKeySchemaHeeded ==
    ASSUME NEW i \in Invocations, ~Refused(i)
    PROVE  Heeded(i, "avro-key-schema")
  <1> DEFINE w == Without(i, "avro-key-schema")
  <1>1. w = [i EXCEPT !.flags.avroKeySchema = None]
    BY DEF Without
  <1>2. i \in [flags : FlagSet, topic : TopicSet] /\ i.flags \in FlagSet
    BY Typed
  <1>3. /\ w.flags.avroKeySchema = None /\ w.topic = i.topic
        /\ w.flags.avroSchema = i.flags.avroSchema /\ w.flags.format = i.flags.format
    BY <1>1, <1>2 DEF FlagSet
  <1>4. CASE i.flags.avroKeySchema = None
    <2>1. [i.flags EXCEPT !.avroKeySchema = None] = i.flags
      BY <1>2, <1>4 DEF FlagSet
    <2>2. w = i
      BY <1>1, <1>2, <2>1
    <2> QED
      BY <2>2 DEF Heeded
  <1>5. CASE i.flags.avroKeySchema # None
    <2>1. WireFormat(i) # "json"
      BY <1>5, JSONRulesKept DEF JSONKept
    <2>2. WireFormat(i) = "avro" /\ WireFormat(w) = "avro"
      BY <1>2, <1>3, <2>1 DEF WireFormat, FlagSet
    <2>3. ~SpecKeyed(i)
      BY <1>5, <2>1, AvroRulesKept DEF AvroKept
    <2>4. ~KeyFromSpec(i) /\ ~KeyFromSpec(w)
      BY <1>3, <2>3, UnkeyedSpec DEF KeyFromSpec, SpecAvro
    <2>5. KeySchema(i) # None /\ KeySchema(w) = None
      BY <1>3, <1>5, <2>2, <2>4 DEF KeySchema, KeyAvsc
    <2> QED
      BY <2>5, SamePlan DEF Heeded
  <1> QED
    BY <1>4, <1>5

LEMMA RegistryHeeded ==
    ASSUME NEW i \in Invocations, ~Refused(i)
    PROVE  Heeded(i, "registry")
  <1> DEFINE w == Without(i, "registry")
  <1>1. w = [i EXCEPT !.flags.registry = FALSE]
    BY DEF Without
  <1>2. i \in [flags : FlagSet, topic : TopicSet] /\ i.flags \in FlagSet
    BY Typed
  <1>3. /\ ~w.flags.registry /\ w.topic = i.topic /\ w.flags.dryRun = i.flags.dryRun
        /\ w.flags.avroSchema = i.flags.avroSchema /\ w.flags.format = i.flags.format
    BY <1>1, <1>2 DEF FlagSet
  <1>4. CASE i.flags.registry = FALSE
    <2>1. [i.flags EXCEPT !.registry = FALSE] = i.flags
      BY <1>2, <1>4 DEF FlagSet
    <2>2. w = i
      BY <1>1, <1>2, <2>1
    <2> QED
      BY <2>2 DEF Heeded
  <1>5. CASE i.flags.registry
    <2>1. WireFormat(i) # "json"
      BY <1>5, JSONRulesKept DEF JSONKept
    <2>2. WireFormat(w) # "json"
      BY <1>2, <1>3, <2>1 DEF WireFormat, FlagSet
    <2>3. CASE i.flags.dryRun
      <3>1. "kafka options" \in DisregardedDiagnostics(i)
        BY <1>5, <2>3 DEF DisregardedDiagnostics
      <3> QED
        BY <3>1 DEF Heeded, Diagnostic, PlanOf
    <2>4. CASE ~i.flags.dryRun
      <3>1. Refused(w)
        BY <1>3, <2>2, <2>4, AvroRulesKept DEF AvroKept
      <3> QED
        BY <3>1 DEF Heeded
    <2> QED
      BY <2>3, <2>4
  <1> QED
    BY <1>2, <1>4, <1>5 DEF FlagSet

LEMMA KafkaHeeded ==
    ASSUME NEW i \in Invocations
    PROVE  Heeded(i, "kafka options")
  <1> DEFINE w == Without(i, "kafka options")
  <1>1. w = [i EXCEPT !.flags.kafka = FALSE]
    BY DEF Without
  <1>2. i \in [flags : FlagSet, topic : TopicSet] /\ i.flags \in FlagSet
    BY Typed
  <1>3. /\ ~w.flags.kafka /\ w.topic = i.topic /\ w.flags.dryRun = i.flags.dryRun
        /\ w.flags.avroSchema = i.flags.avroSchema /\ w.flags.format = i.flags.format
    BY <1>1, <1>2 DEF FlagSet
  <1>4. CASE i.flags.kafka = FALSE
    <2>1. [i.flags EXCEPT !.kafka = FALSE] = i.flags
      BY <1>2, <1>4 DEF FlagSet
    <2>2. w = i
      BY <1>1, <1>2, <2>1
    <2> QED
      BY <2>2 DEF Heeded
  <1>5. CASE i.flags.kafka /\ i.flags.dryRun
    <2>1. "kafka options" \in DisregardedDiagnostics(i)
      BY <1>5 DEF DisregardedDiagnostics
    <2> QED
      BY <2>1 DEF Heeded, Diagnostic, PlanOf
  <1>6. CASE i.flags.kafka /\ ~i.flags.dryRun
    <2>1. <<"broker", i.flags.kafka>>[2] # <<"broker", w.flags.kafka>>[2]
      BY <1>3, <1>6
    <2> QED
      BY <1>3, <1>6, <2>1, SamePlan DEF Heeded
  <1> QED
    BY <1>2, <1>4, <1>5, <1>6 DEF FlagSet

LEMMA RecordsPerKeyHeeded ==
    ASSUME NEW i \in Invocations, ~Refused(i)
    PROVE  Heeded(i, "records-per-key")
  <1> DEFINE w == Without(i, "records-per-key")
  <1>1. w = [i EXCEPT !.flags.perKey = 1]
    BY DEF Without
  <1>2. i \in [flags : FlagSet, topic : TopicSet] /\ i.flags \in FlagSet /\ i.topic.types \in Seq(MessageTypeSet)
    BY Typed
  <1>3. /\ w.flags.perKey = 1 /\ w.topic = i.topic /\ w.flags.avroKeySchema = i.flags.avroKeySchema
        /\ w.flags.avroSchema = i.flags.avroSchema /\ w.flags.format = i.flags.format
    BY <1>1, <1>2 DEF FlagSet
  <1>4. CASE i.flags.perKey = 1
    <2>1. [i.flags EXCEPT !.perKey = 1] = i.flags
      BY <1>2, <1>4 DEF FlagSet
    <2>2. w = i
      BY <1>1, <1>2, <2>1
    <2> QED
      BY <2>2 DEF Heeded
  <1>5. CASE i.flags.perKey # 1
    <2>1. i.flags.perKey > 1
      BY <1>2, <1>5, RunKept DEF FlagSet
    <2>2. KeySchema(w) = KeySchema(i)
      BY <1>3 DEF KeySchema, KeyAvsc, KeyFromSpec, SpecAvro, WireFormat
    <2>3. CASE Keyed(i)
      BY <1>3, <1>5, <2>2, <2>3, SamePlan DEF Heeded, Keyed
    <2>4. CASE ~Keyed(i)
      <3>1. WireFormat(i) # "json"
        BY <2>1, <2>4, JSONRulesKept DEF JSONKept, Keyed, KeySchema
      <3>2. KeyAvsc(i) = None
        BY <1>2, <2>4, <3>1 DEF Keyed, KeySchema, WireFormat, FlagSet
      <3>3. AvroKept(i)
        BY <3>1, AvroRulesKept
      <3>4. ~SpecKeyed(i)
        <4> SUFFICES ASSUME NEW n \in DOMAIN SpecAvro(i), SpecAvro(i)[n].key # None PROVE FALSE
          BY DEF SpecKeyed
        <4>1. SharedKeyBinding(SpecAvro(i)) = SpecAvro(i)[n].key
          BY <3>3, SpecTyped, SharedByAll DEF AvroKept
        <4> QED
          BY <3>2, <4>1 DEF KeyAvsc, KeyFromSpec
      <3>5. i.flags.avroKeySchema = None
        BY <3>2, <3>4, UnkeyedSpec DEF KeyAvsc
      <3> QED
        BY <2>1, <3>3, <3>4, <3>5 DEF AvroKept
    <2> QED
      BY <2>3, <2>4
  <1> QED
    BY <1>4, <1>5

\* What no Message type declares cannot be taken off.
LEMMA Undeclarable ==
    ASSUME NEW i \in Invocations, NEW part, NEW value,
           \A n \in DOMAIN i.topic.types : [i.topic.types[n] EXCEPT ![part] = value] = i.topic.types[n]
    PROVE  WithoutDeclared(i, part, value) = i
  <1> DEFINE types == i.topic.types
  <1>1. i \in [flags : FlagSet, topic : TopicSet] /\ i.topic \in TopicSet /\ types \in Seq(MessageTypeSet)
    BY Typed
  <1>2. [n \in DOMAIN types |-> [types[n] EXCEPT ![part] = value]] = types
    <2>1. [n \in DOMAIN types |-> [types[n] EXCEPT ![part] = value]] = [n \in DOMAIN types |-> types[n]]
      OBVIOUS
    <2>2. [n \in DOMAIN types |-> types[n]] = types
      BY <1>1
    <2> QED
      BY <2>1, <2>2
  <1>3. [i.topic EXCEPT !.types = types] = i.topic
    BY <1>1 DEF TopicSet
  <1> QED
    BY <1>1, <1>2, <1>3 DEF WithoutDeclared

LEMMA HeadersHeeded ==
    ASSUME NEW i \in Invocations
    PROVE  Heeded(i, "headers")
  <1> DEFINE w == Without(i, "headers")
             types == i.topic.types
  <1>1. w = WithoutDeclared(i, "headers", FALSE)
    BY DEF Without
  <1>2. types \in Seq(MessageTypeSet) /\ i.flags \in FlagSet /\ i.topic.format \in {"json", "avro"}
    BY Typed DEF TopicSet
  <1>3. /\ w.flags = i.flags /\ w.topic.format = i.topic.format
        /\ w.topic.types = [n \in DOMAIN types |-> [types[n] EXCEPT !.headers = FALSE]]
    <2> DEFINE rest == [n \in DOMAIN types |-> [types[n] EXCEPT !.headers = FALSE]]
    <2>1. w = [i EXCEPT !.topic.types = rest]
      BY <1>1 DEF WithoutDeclared
    <2>2. i \in [flags : FlagSet, topic : TopicSet] /\ i.topic \in TopicSet
      BY Typed
    <2> HIDE DEF rest
    <2>3. w.flags = i.flags /\ w.topic.format = i.topic.format /\ w.topic.types = rest
      BY <2>1, <2>2 DEF TopicSet
    <2> QED
      BY <2>3 DEF rest
  <1>4. CASE \A n \in DOMAIN types : ~types[n].headers
    <2>1. ASSUME NEW n \in DOMAIN types PROVE [types[n] EXCEPT !.headers = FALSE] = types[n]
      <3>1. types[n] \in MessageTypeSet
        BY <1>2
      <3>2. types[n].headers = FALSE
        BY <1>4, <3>1 DEF MessageTypeSet
      <3> QED
        BY <3>1, <3>2 DEF MessageTypeSet
    <2> QED
      BY <1>1, <2>1, Undeclarable DEF Heeded
  <1>5. CASE \E n \in DOMAIN types : types[n].headers
    <2>1. PICK n \in DOMAIN types : types[n].headers
      BY <1>5
    <2>2. types[n] \in MessageTypeSet /\ types # <<>>
      BY <1>2, <2>1
    <2>3. CASE WireFormat(i) # "json" /\ SpecAvro(i) = <<>>
      <3>1. "headers" \in IgnoredDiagnostics(i)
        BY <2>1, <2>3 DEF IgnoredDiagnostics
      <3> QED
        BY <3>1 DEF Heeded, Diagnostic, PlanOf
    <2>4. CASE WireFormat(i) = "json" \/ SpecAvro(i) # <<>>
      <3>1. n \in DOMAIN w.topic.types /\ w.topic.types # <<>> /\ ~w.topic.types[n].headers
        BY <1>3, <2>1, <2>2 DEF MessageTypeSet
      <3>2. WireFormat(w) = WireFormat(i)
        BY <1>3 DEF WireFormat
      <3>3. SpecAvro(i) # <<>> => SpecAvro(w) # <<>>
        BY <1>3, <3>1 DEF SpecAvro
      <3>4. Bound(i) = [m \in DOMAIN types |-> [payload |-> types[m].payload, headers |-> types[m].headers]]
        BY <2>4 DEF Bound
      <3>5. Bound(w) = [m \in DOMAIN w.topic.types |-> [payload |-> w.topic.types[m].payload,
                                                        headers |-> w.topic.types[m].headers]]
        BY <2>4, <3>2, <3>3 DEF Bound
      <3>6. Bound(i)[n].headers /\ ~Bound(w)[n].headers
        BY <2>1, <3>1, <3>4, <3>5
      <3>7. Bound(i) # Bound(w)
        BY <3>6
      <3> QED
        BY <3>7, SamePlan DEF Heeded
    <2> QED
      BY <2>3, <2>4
  <1> QED
    BY <1>4, <1>5

LEMMA KeyBindingsHeeded ==
    ASSUME NEW i \in Invocations, ~Refused(i)
    PROVE  Heeded(i, "key bindings")
  <1> DEFINE w == Without(i, "key bindings")
             types == i.topic.types
  <1>1. w = WithoutDeclared(i, "key", None)
    BY DEF Without
  <1>2. types \in Seq(MessageTypeSet) /\ i.flags \in FlagSet /\ i.topic.format \in {"json", "avro"}
    BY Typed DEF TopicSet
  <1>3. /\ w.flags = i.flags /\ w.topic.format = i.topic.format
        /\ w.topic.types = [n \in DOMAIN types |-> [types[n] EXCEPT !.key = None]]
    <2> DEFINE rest == [n \in DOMAIN types |-> [types[n] EXCEPT !.key = None]]
    <2>1. w = [i EXCEPT !.topic.types = rest]
      BY <1>1 DEF WithoutDeclared
    <2>2. i \in [flags : FlagSet, topic : TopicSet] /\ i.topic \in TopicSet
      BY Typed
    <2> HIDE DEF rest
    <2>3. w.flags = i.flags /\ w.topic.format = i.topic.format /\ w.topic.types = rest
      BY <2>1, <2>2 DEF TopicSet
    <2> QED
      BY <2>3 DEF rest
  <1>4. WireFormat(w) = WireFormat(i) /\ WireFormat(i) \in {"json", "avro"}
    BY <1>2, <1>3 DEF WireFormat, FlagSet
  <1>5. CASE \A n \in DOMAIN types : types[n].key = None
    <2>1. ASSUME NEW n \in DOMAIN types PROVE [types[n] EXCEPT !.key = None] = types[n]
      <3>1. types[n] \in MessageTypeSet
        BY <1>2
      <3>2. types[n].key = None
        BY <1>5
      <3> QED
        BY <3>1, <3>2 DEF MessageTypeSet
    <2> QED
      BY <1>1, <2>1, Undeclarable DEF Heeded
  <1>6. CASE \E n \in DOMAIN types : types[n].key # None
    <2>1. PICK n \in DOMAIN types : types[n].key # None
      BY <1>6
    <2>2. \A m \in DOMAIN types : types[m] \in MessageTypeSet
      BY <1>2
    <2>3. SharedKeyBinding(w.topic.types) = None
      <3>1. ASSUME w.topic.types # <<>> PROVE w.topic.types[1].key = None
        <4>1. types[1] \in MessageTypeSet /\ 1 \in DOMAIN types
          BY <1>2, <2>1, <2>2
        <4>2. w.topic.types[1] = [types[1] EXCEPT !.key = None]
          BY <1>3, <4>1
        <4> QED
          BY <4>1, <4>2 DEF MessageTypeSet
      <3> QED
        BY <3>1 DEF SharedKeyBinding
    <2>4. CASE WireFormat(i) = "json"
      <3>1. ~KeysDiffer(types)
        BY <2>4, JSONRulesKept DEF JSONKept
      <3>2. SharedKeyBinding(types) = types[n].key
        BY <1>2, <2>1, <3>1, SharedByAll
      <3>3. KeySchema(i) # KeySchema(w)
        BY <1>4, <2>1, <2>3, <2>4, <3>2 DEF KeySchema
      <3> QED
        BY <3>3, SamePlan DEF Heeded
    <2>5. CASE WireFormat(i) = "avro" /\ i.topic.format = "json"
      <3>1. "key bindings" \in IgnoredDiagnostics(i)
        BY <2>1, <2>5 DEF IgnoredDiagnostics
      <3> QED
        BY <3>1 DEF Heeded, Diagnostic, PlanOf
    <2>6. CASE WireFormat(i) = "avro" /\ i.topic.format = "avro"
      <3>1. SpecAvro(i) = types /\ SpecAvro(w) = w.topic.types
        BY <1>3, <2>6 DEF SpecAvro
      <3>2. AvroKept(i)
        BY <2>6, AvroRulesKept
      <3>3. SpecKeyed(i)
        BY <2>1, <3>1 DEF SpecKeyed
      <3>4. i.flags.avroKeySchema = None /\ ~KeysDiffer(types)
        BY <3>1, <3>2, <3>3 DEF AvroKept
      <3>5. SharedKeyBinding(types) # None
        BY <1>2, <2>1, <3>4, SharedByAll
      <3>6. KeySchema(i) # None
        BY <2>6, <3>1, <3>5 DEF KeySchema, KeyAvsc, KeyFromSpec
      <3>7. KeySchema(w) = None
        BY <1>3, <1>4, <2>3, <2>6, <3>1, <3>4 DEF KeySchema, KeyAvsc, KeyFromSpec
      <3> QED
        BY <3>6, <3>7, SamePlan DEF Heeded
    <2> QED
      BY <1>2, <1>4, <2>4, <2>5, <2>6
  <1> QED
    BY <1>5, <1>6

\* NothingIgnored, of every invocation that is planned: a run honours what it
\* is told or a diagnostic says that it does not (avrowire.go:171-182).
THEOREM NothingSilent == RunSpec => []NothingIgnored
  <1>1. RunInv => NothingIgnored
    <2> SUFFICES ASSUME RunInv, phase = "generate", NEW what \in Saying
                 PROVE  Heeded(inv, what)
      BY DEF NothingIgnored, Heeded
    <2>1. inv \in Invocations /\ ~Refused(inv)
      BY DEF RunInv, PlanInv
    <2>2. PICK i : i = inv
      OBVIOUS
    <2>3. Heeded(i, what)
      BY <2>1, <2>2, KeyPathHeeded, AvroSchemaHeeded, AvroKeySchemaHeeded, RegistryHeeded,
         KafkaHeeded, RecordsPerKeyHeeded, HeadersHeeded, KeyBindingsHeeded DEF Saying
    <2> QED
      BY <2>2, <2>3
  <1> QED
    BY <1>1, RunInvariant, PTL
=============================================================================

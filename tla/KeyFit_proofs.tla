---------------------------- MODULE KeyFit_proofs ----------------------------
(* The proof HoldsKey makes of two schemas is sound: whatever the bounds, the *)
(* enums and the other keywords, an accepted field takes every Key that       *)
(* honours the Key's schema. It is so only where no Key schema has null for a *)
(* literal example or const, which the code passes over (keyholds.go:95).      *)
EXTENDS KeyFit, TLAPS

\* The literals a Key schema declares are scalars, and none of the two the
\* code reads alone is null.
Plain(k) ==
    /\ \A w \in {"example", "const"} : Declares(k, w) => k[w] # Null /\ k[w].size \in Int
    /\ Listed(k, "examples") => k["examples"][1].size \in Int
    /\ \A v \in Members(k, "enum") : Listed(k, "enum") => v.size \in Int

\* What generation answers with is among what the values were fixed to.
LEMMA FixedIsGenerated ==
    ASSUME NEW k, Plain(k), FixedTo(k) # {None}, NEW v \in Generated(k)
    PROVE  v \in FixedTo(k)
  <1> USE DEF Generated, FixedTo, NonNull, Plain
  <1>1. CASE Declares(k, "example")  BY <1>1
  <1>2. CASE ~Declares(k, "example") /\ Listed(k, "examples")  BY <1>2
  <1>3. CASE ~Declares(k, "example") /\ ~Listed(k, "examples") /\ Declares(k, "const")
    BY <1>3
  <1>4. CASE ~Declares(k, "example") /\ ~Listed(k, "examples") /\ ~Declares(k, "const")
    <2>1. Listed(k, "enum")  BY <1>4
    <2> QED  BY <1>4, <2>1
  <1> QED  BY <1>1, <1>2, <1>3, <1>4

\* Dropping a fraction moves a bound towards 0 by less than 1, and a whole one
\* not at all.
LEMMA Dropped ==
    ASSUME NEW n \in Int
    PROVE  /\ TowardZero(n) \in Int
           /\ n - Whole < TowardZero(n) /\ TowardZero(n) < n + Whole
           /\ n <= 0 \/ n % Whole = 0 => TowardZero(n) >= n
           /\ n >= 0 \/ n % Whole = 0 => TowardZero(n) <= n
  <1>1. Whole \in Nat /\ Whole > 0  BY GridAssumption
  <1>2. n % Whole \in 0..(Whole - 1) /\ (-n) % Whole \in 0..(Whole - 1)  BY <1>1
  <1>3. n % Whole = 0 => (-n) % Whole = 0
    <2>1. SUFFICES ASSUME n % Whole = 0 PROVE (-n) % Whole = 0  OBVIOUS
    <2>2. PICK q \in Int : n = Whole * q  BY <1>1, <2>1
    <2>3. -n = Whole * (-q)  BY <1>1, <2>2
    <2> QED  BY <1>1, <2>2, <2>3
  <1> QED  BY <1>1, <1>2, <1>3 DEF TowardZero

LEMMA BoundsInt ==
    ASSUME NEW k \in Keys, NEW type
    PROVE  Least(k, type) \in Int /\ Most(k, type) \in Int
  <1>1. \A w \in (Lower \union Upper) \intersect DOMAIN k : k[w] \in Int
    BY BoundAssumption
  <1>2. \A n \in Int : BoundFor(type, n) \in Int  BY Dropped DEF BoundFor
  <1>3. Apart(type) \in Int  BY GridAssumption DEF Apart
  <1> QED  BY <1>1, <1>2, <1>3, DefaultAssumption DEF Least, Most, Value, Declares, Lower, Upper

LEMMA NumbersInt == ASSUME NEW k \in Keys, NEW type PROVE \A n \in Numbers(k, type) : n \in Int
  BY BoundsInt DEF Numbers

LEMMA SizesInt ==
    ASSUME NEW k \in Keys, Plain(k), NEW v \in Generated(k)
    PROVE  v.size \in Int
  <1>1. CASE Declares(k, "example")  BY <1>1 DEF Generated, Plain
  <1>2. CASE ~Declares(k, "example") /\ Listed(k, "examples")  BY <1>2 DEF Generated, Plain
  <1>3. CASE ~Declares(k, "example") /\ ~Listed(k, "examples") /\ Declares(k, "const")
    BY <1>3 DEF Generated, Plain
  <1>4. CASE ~Declares(k, "example") /\ ~Listed(k, "examples") /\ ~Declares(k, "const")
    <2>1. CASE Listed(k, "enum")  BY <1>4, <2>1 DEF Generated, Plain
    <2>2. CASE ~Listed(k, "enum")
      <3>1. PICK type \in Types(k) : v \in OfType(k, type)
        BY <1>4, <2>2 DEF Generated
      <3>2. CASE type \in {"integer", "number"}
        BY <3>1, <3>2, NumbersInt DEF OfType, Scalar
      <3>3. CASE type = "string"
        BY <3>1, <3>3, DefaultAssumption DEF OfType, Scalar
      <3>4. CASE type \notin {"integer", "number", "string"}
        BY <3>1, <3>4 DEF OfType, Scalar, Null
      <3> QED  BY <3>2, <3>3, <3>4
    <2> QED  BY <2>1, <2>2
  <1> QED  BY <1>1, <1>2, <1>3, <1>4

-----------------------------------------------------------------------------
\* HoldsKey's argument, keyword by keyword.
LEMMA HeldFits ==
    ASSUME NEW f \in Fields, NEW k \in Keys, Plain(k), HoldsKey(f, k),
           NEW v \in Generated(k), Satisfies(k, v)
    PROVE  Satisfies(f, v)
  <1> DEFINE numeric == v.type \in {"integer", "number"}
             textual == v.type = "string"
  <1>1. v.size \in Int  BY SizesInt
  <1>2. /\ \A w \in (Lower \union Upper) \intersect DOMAIN f : f[w] \in Int
        /\ \A w \in (Lower \union Upper) \intersect DOMAIN k : k[w] \in Int
    BY BoundAssumption
  <1>3. v.type \in Types(f) \/ (v.type = "integer" /\ "number" \in Types(f))
    BY DEF HoldsKey, TypesHeld, Satisfies
  <1>4. Allows(f, v)
    <2>1. CASE Declares(f, "enum") \/ Declares(f, "const")
      BY <2>1, FixedIsGenerated DEF HoldsKey, ValuesHeld
    <2>2. CASE ~(Declares(f, "enum") \/ Declares(f, "const"))
      BY <2>2 DEF Allows
    <2> QED  BY <2>1, <2>2
  <1>5. numeric => /\ Declares(f, "minimum") => v.size >= f["minimum"]
                   /\ Declares(f, "exclusiveMinimum") => v.size > f["exclusiveMinimum"]
    BY <1>1, <1>2 DEF Satisfies, HoldsKey, NumbersHeld, AtLeast, Above, Declares, Lower, Upper
  <1>6. numeric => /\ Declares(f, "maximum") => v.size <= f["maximum"]
                   /\ Declares(f, "exclusiveMaximum") => v.size < f["exclusiveMaximum"]
    BY <1>1, <1>2 DEF Satisfies, HoldsKey, NumbersHeld, AtMost, Below, Declares, Lower, Upper
  <1>7. textual => /\ Declares(f, "minLength") => v.size >= f["minLength"]
                   /\ Declares(f, "maxLength") => v.size <= f["maxLength"]
    BY <1>1, <1>2 DEF Satisfies, HoldsKey, SizesHeld, AtLeast, AtMost, Declares, Lower, Upper
  <1>8. textual => \A w \in {"pattern", "format"} : Declares(f, w) => <<w, f[w]>> \in v.fits
    BY DEF Satisfies, HoldsKey, SameHeld, SameKeywords
  <1> QED  BY <1>3, <1>4, <1>5, <1>6, <1>7, <1>8 DEF Satisfies

-----------------------------------------------------------------------------
\* What a run has drawn, it drew from a Key schema it accepted for the field.
FitInv == /\ field \in Fields /\ key \in Keys
          /\ run = "accepted" => HoldsKey(field, key)
          /\ drawn # None => run = "accepted" /\ drawn \in Generated(key)

THEOREM FitInvariant == Spec => []FitInv
  <1>1. Init => FitInv  BY DEF Init, FitInv
  <1>2. FitInv /\ [Next]_vars => FitInv'
    <2>1. ASSUME FitInv, Judge PROVE FitInv'  BY <2>1 DEF FitInv, Judge
    <2>2. ASSUME FitInv, DrawKey PROVE FitInv'  BY <2>2 DEF FitInv, DrawKey
    <2>3. ASSUME FitInv, UNCHANGED vars PROVE FitInv'  BY <2>3 DEF FitInv, vars
    <2> QED  BY <2>1, <2>2, <2>3 DEF Next
  <1> QED  BY <1>1, <1>2, PTL DEF Spec

\* keyholds.go:33 holds of every pair of schemas without a null literal.
THEOREM AcceptedKeysFit ==
    ASSUME \A k \in Keys : Plain(k)
    PROVE  Spec => []ProofIsSound
  <1>1. FitInv => ProofIsSound  BY HeldFits DEF FitInv, ProofIsSound
  <1> QED  BY <1>1, FitInvariant, PTL

-----------------------------------------------------------------------------
\* What a Key schema gives for a literal number honours the schema itself; the
\* code does not look at it again.
Fits(k, v) == v.type \in {"integer", "number"} => Satisfies(k, v)
OwnLiteralsFit(k) ==
    /\ Declares(k, "enum") => Listed(k, "enum")
    /\ \A w \in {"example", "const"} : Declares(k, w) => Fits(k, k[w])
    /\ Listed(k, "examples") => Fits(k, k["examples"][1])
    /\ Listed(k, "enum") => \A v \in Members(k, "enum") : Fits(k, v)

\* A bound of the schema itself or of the generator, on either side: the range
\* drawn from lies within.
LEMMA DrawnInRange ==
    ASSUME NEW k \in Keys, NEW type, Roomy(k, type), NEW n \in Numbers(k, type)
    PROVE  /\ Declares(k, "minimum") => n >= k["minimum"]
           /\ Declares(k, "exclusiveMinimum") => n > k["exclusiveMinimum"]
           /\ Declares(k, "maximum") => n <= k["maximum"]
           /\ Declares(k, "exclusiveMaximum") => n < k["exclusiveMaximum"]
  <1>1. \A w \in (Lower \union Upper) \intersect DOMAIN k : k[w] \in Int
    BY BoundAssumption
  <1>2. Whole \in Int /\ Whole > 0 /\ Hundredth \in Int /\ Hundredth > 0
    BY GridAssumption
  <1>3. n \in Int /\ Least(k, type) <= n /\ n <= Most(k, type)
    BY BoundsInt DEF Numbers, Roomy
  <1>4. Least(k, type) \in Int /\ Most(k, type) \in Int
    BY BoundsInt
  <1>5. ASSUME Declares(k, "minimum")
        PROVE  n >= k["minimum"]
    <2>1. k["minimum"] \in Int  BY <1>1, <1>5 DEF Declares, Lower
    <2>2. Least(k, type) = BoundFor(type, k["minimum"])
      BY <1>5 DEF Roomy, OneBoundEach, Least, Value
    <2>3. BoundFor(type, k["minimum"]) \in Int /\ BoundFor(type, k["minimum"]) >= k["minimum"]
      BY <1>5, <2>1, Dropped DEF BoundFor, Roomy, DroppedInwards
    <2> QED  BY <1>3, <2>1, <2>2, <2>3
  <1>6. ASSUME Declares(k, "exclusiveMinimum")
        PROVE  n > k["exclusiveMinimum"]
    <2>1. k["exclusiveMinimum"] \in Int  BY <1>1, <1>6 DEF Declares, Lower
    <2>2. Least(k, type) = BoundFor(type, k["exclusiveMinimum"]) + Apart(type)
      BY <1>6 DEF Least
    <2>3. BoundFor(type, k["exclusiveMinimum"]) + Apart(type) > k["exclusiveMinimum"]
      BY <1>2, <2>1, Dropped DEF BoundFor, Apart
    <2> QED  BY <1>3, <1>4, <2>1, <2>2, <2>3
  <1>7. ASSUME Declares(k, "maximum")
        PROVE  n <= k["maximum"]
    <2>1. k["maximum"] \in Int  BY <1>1, <1>7 DEF Declares, Upper
    <2>2. Most(k, type) = BoundFor(type, k["maximum"])
      BY <1>7 DEF Roomy, OneBoundEach, Most, Value
    <2>3. BoundFor(type, k["maximum"]) \in Int /\ BoundFor(type, k["maximum"]) <= k["maximum"]
      BY <1>7, <2>1, Dropped DEF BoundFor, Roomy, DroppedInwards
    <2> QED  BY <1>3, <2>1, <2>2, <2>3
  <1>8. ASSUME Declares(k, "exclusiveMaximum")
        PROVE  n < k["exclusiveMaximum"]
    <2>1. k["exclusiveMaximum"] \in Int  BY <1>1, <1>8 DEF Declares, Upper
    <2>2. Most(k, type) = BoundFor(type, k["exclusiveMaximum"]) - Apart(type)
      BY <1>8 DEF Most
    <2>3. BoundFor(type, k["exclusiveMaximum"]) - Apart(type) < k["exclusiveMaximum"]
      BY <1>2, <2>1, Dropped DEF BoundFor, Apart
    <2> QED  BY <1>3, <1>4, <2>1, <2>2, <2>3
  <1> QED  BY <1>5, <1>6, <1>7, <1>8

\* integer and number honour whatever single bound stands on either side, an
\* exclusive one as well as an inclusive one, where it leaves room and int64(v)
\* does not move it outwards, for every schema and however fine its bounds are.
THEOREM NumbersInBounds ==
    ASSUME \A k \in Keys : OwnLiteralsFit(k)
    PROVE  Spec => []NumbersHonoured
  <1>1. FitInv => NumbersHonoured
    <2> SUFFICES ASSUME FitInv, drawn # None, drawn.type \in {"integer", "number"}, Roomy(key, drawn.type)
                 PROVE  Satisfies(key, drawn)
      BY DEF NumbersHonoured
    <2>1. key \in Keys /\ drawn \in Generated(key) /\ OwnLiteralsFit(key)
      BY DEF FitInv
    <2>2. CASE Declares(key, "example")
      BY <2>1, <2>2 DEF Generated, OwnLiteralsFit, Fits
    <2>3. CASE ~Declares(key, "example") /\ Listed(key, "examples")
      BY <2>1, <2>3 DEF Generated, OwnLiteralsFit, Fits
    <2>4. CASE ~Declares(key, "example") /\ ~Listed(key, "examples") /\ Declares(key, "const")
      BY <2>1, <2>4 DEF Generated, OwnLiteralsFit, Fits
    <2>5. CASE ~Declares(key, "example") /\ ~Listed(key, "examples") /\ ~Declares(key, "const")
      <3>1. CASE Listed(key, "enum")
        BY <2>1, <2>5, <3>1 DEF Generated, OwnLiteralsFit, Fits
      <3>2. CASE ~Listed(key, "enum")
        <4>1. PICK type \in Types(key) : drawn \in OfType(key, type)
          BY <2>1, <2>5, <3>2 DEF Generated
        <4>2. type \in {"integer", "number"} /\ type = drawn.type
          BY <4>1 DEF OfType, Scalar, Null
        <4>3. PICK n \in Numbers(key, type) : drawn = Scalar(type, n, {})
          BY <4>1, <4>2 DEF OfType
        <4>4. drawn.size = n /\ drawn.type = type
          BY <4>3 DEF Scalar
        <4>5. Allows(key, drawn)
          BY <2>1, <2>5, <3>2 DEF Allows, OwnLiteralsFit
        <4>6. /\ Declares(key, "minimum") => drawn.size >= key["minimum"]
              /\ Declares(key, "exclusiveMinimum") => drawn.size > key["exclusiveMinimum"]
              /\ Declares(key, "maximum") => drawn.size <= key["maximum"]
              /\ Declares(key, "exclusiveMaximum") => drawn.size < key["exclusiveMaximum"]
          BY <2>1, <4>2, <4>3, <4>4, DrawnInRange
        <4> QED  BY <4>1, <4>4, <4>5, <4>6 DEF Satisfies
      <3> QED  BY <3>1, <3>2
    <2> QED  BY <2>2, <2>3, <2>4, <2>5
  <1> QED  BY <1>1, FitInvariant, PTL
=============================================================================

--------------------------- MODULE CurveEval_proofs ---------------------------
(* Proofs about CurveEval: for every curve and resolution, the walk encloses   *)
(* each t below 1 and yields the piecewise linear function.                    *)
EXTENDS CurveEval, TLAPS

USE CurveAssumption

\* While the walk goes on it has not passed t, and stands at the start of slice i.
Walking ==
    pc \in {"loop", "lerp"} => InRange /\ t0 = i * Unit /\ t0 <= T

\* Before a slice is found the far end and the bounds are the initial ones.
Searching ==
    pc = "loop" => upperBound = Unit /\ (i = 0 => t1 = Unit * Scale)

\* The slice the walk has found, with its two keys.
AtSlice ==
    pc = "lerp" /\ t < Unit /\ slicesSize > 0 =>
        /\ i < slicesSize /\ t1 = t0 + Unit /\ T < t1
        /\ lowerBound = Key(i) /\ upperBound = Key(i + 1)

\* A curve without keyframes is interpolated over the whole of [0, 1].
AtWhole == pc = "lerp" /\ slicesSize = 0 => t1 = Unit /\ t0 = 0

CurveInv == TypeOK /\ Walking /\ Searching /\ AtSlice /\ AtWhole /\ EvaluatesCurve
-----------------------------------------------------------------------------
\* Multiplication by a positive number keeps the order.
LEMMA TimesMonotone ==
  ASSUME NEW a \in Int, NEW b \in Int, NEW n \in Nat \ {0}, a < b
  PROVE  a * n < b * n
  OBVIOUS

LEMMA TimesNat ==
  ASSUME NEW a \in Nat, NEW b \in Nat
  PROVE  a * b \in Nat
  OBVIOUS

\* Quotient and remainder are what their definition says.
LEMMA DivisionUnique ==
  ASSUME NEW a \in Int, NEW d \in Nat \ {0}, NEW q \in Int,
         q * d <= a, a < q * d + d
  PROVE  a \div d = q /\ a % d = a - q * d
<1> DEFINE w == a \div d  r == a % d
<1>1. w \in Int /\ r \in 0..(d - 1) /\ a = d * w + r
  OBVIOUS
<1>2. w * d = d * w
  BY <1>1
<1> HIDE DEF w, r
<1>3. ~(w < q)
  <2>1. SUFFICES ASSUME w + 1 <= q PROVE FALSE
    BY <1>1
  <2>2. CASE w + 1 = q
    BY <1>1, <1>2, <2>2
  <2>3. CASE w + 1 < q
    BY <1>1, <1>2, <2>3, TimesMonotone
  <2>4. QED
    BY <1>1, <2>1, <2>2, <2>3
<1>4. ~(q < w)
  <2>1. SUFFICES ASSUME q + 1 <= w PROVE FALSE
    BY <1>1
  <2>2. CASE q + 1 = w
    BY <1>1, <1>2, <2>2
  <2>3. CASE q + 1 < w
    BY <1>1, <1>2, <2>3, TimesMonotone
  <2>4. QED
    BY <1>1, <2>1, <2>2, <2>3
<1>5. w = q
  BY <1>1, <1>3, <1>4
<1>6. QED
  BY <1>1, <1>2, <1>5 DEF w, r

LEMMA Sizes ==
  ASSUME TypeOK
  PROVE  /\ slicesSize \in Nat /\ Scale \in Nat \ {0} /\ T \in Int
         /\ \A k \in 0..(slicesSize - 1) : slices[k + 1] \in Int
         /\ \A k \in Nat : Key(k) \in Int
<1>1. slices \in Seq(Int) /\ t \in Int
  BY DEF TypeOK
<1>2. slicesSize \in Nat
  BY <1>1 DEF slicesSize
<1>3. \A k \in 0..(slicesSize - 1) : slices[k + 1] \in Int
  BY <1>1 DEF slicesSize
<1>4. Scale \in Nat \ {0}
  BY <1>2 DEF Scale
<1>5. T \in Int
  BY <1>1, <1>4 DEF T
<1>6. \A k \in Nat : Key(k) \in Int
  BY <1>2, <1>3 DEF Key
<1>7. QED
  BY <1>2, <1>3, <1>4, <1>5, <1>6

LEMMA InitCurve == Init => CurveInv
  BY DEF Init, CurveInv, TypeOK, slicesSize, Walking, Searching, AtSlice, AtWhole,
         EvaluatesCurve, Answered

LEMMA GenericEvalInv ==
  ASSUME CurveInv, NEW s \in Curves, NEW x \in -1..(Unit + 1), GenericEval(s, x)
  PROVE  CurveInv'
<1>1. /\ slices' \in Seq(Int) /\ t' \in Int /\ i' = 0 /\ t0' = 0
      /\ lowerBound' = 0 /\ upperBound' = Unit /\ t1' = Unit * Scale'
  <2>1. s \in Seq(Int) /\ (s = <<>> <=> Len(s) = 0)
    OBVIOUS
  <2>2. slicesSize' = Len(s)
    BY DEF GenericEval, slicesSize
  <2>3. QED
    BY <2>1, <2>2 DEF GenericEval, Scale
<1>2. slicesSize' \in Nat /\ Scale' \in Nat \ {0}
  BY <1>1 DEF slicesSize, Scale
<1>3. TypeOK'
  <2>1. t1' \in Int
    BY <1>1, <1>2
  <2>2. pc' \in {"loop", "done"} /\ result' \in Int
    BY DEF GenericEval
  <2>3. QED
    BY <1>1, <1>2, <2>1, <2>2 DEF TypeOK
<1>4. pc' = "loop" => t' \in 0..Unit /\ 0 <= T'
  <2>1. SUFFICES ASSUME pc' = "loop" PROVE t' \in 0..Unit /\ 0 <= T'
    OBVIOUS
  <2>2. t' \in 0..Unit
    BY <2>1 DEF GenericEval
  <2>3. T' \in Nat
    <3>1. t' \in Nat /\ Scale' \in Nat
      BY <1>2, <2>2
    <3>2. QED
      BY <3>1, TimesNat DEF T
  <2>4. QED
    BY <2>2, <2>3
<1>5. pc' # "lerp" /\ (pc' = "done" => ~InRange')
  BY DEF GenericEval, InRange
<1>6. QED
  BY <1>1, <1>3, <1>4, <1>5 DEF CurveInv, Walking, Searching, AtSlice, AtWhole, InRange,
     EvaluatesCurve, Answered

LEMMA AdvanceInv ==
  ASSUME CurveInv, Advance
  PROVE  CurveInv'
<1>1. TypeOK /\ InRange /\ t0 = i * Unit /\ upperBound = Unit
  BY DEF CurveInv, Walking, Searching, Advance
<1>2. /\ slicesSize \in Nat /\ i \in Nat /\ i < slicesSize /\ T \in Int
      /\ ~(T < t0 + Unit)
  BY <1>1, Sizes DEF Advance, Ends, dt, TypeOK
<1>3. UNCHANGED <<pc, slices, t, lowerBound, upperBound, result>> /\ i' = i + 1
      /\ t0' = t0 + Unit /\ t1' = t0 + Unit /\ pc = "loop"
  BY DEF Advance, dt
<1>4. slicesSize' = slicesSize /\ T' = T
  BY <1>3 DEF slicesSize, T, Scale
<1>5. t0' = i' * Unit
  BY <1>1, <1>2, <1>3
<1>6. TypeOK'
  BY <1>1, <1>2, <1>3, <1>4 DEF TypeOK
<1>7. t0' <= T'
  BY <1>1, <1>2, <1>3, <1>4 DEF TypeOK
<1>8. QED
  BY <1>1, <1>2, <1>3, <1>5, <1>6, <1>7 DEF CurveInv, Walking, Searching, AtSlice,
     AtWhole, InRange, EvaluatesCurve, Answered

LEMMA FoundInv ==
  ASSUME CurveInv, Found
  PROVE  CurveInv'
<1>1. TypeOK /\ InRange /\ t0 = i * Unit /\ t0 <= T /\ upperBound = Unit
  BY DEF CurveInv, Walking, Searching, Found
<1>2. slicesSize \in Nat /\ i \in Nat /\ i < slicesSize /\ T \in Int /\ T < t0 + Unit
  BY <1>1, Sizes DEF Found, Ends, dt, TypeOK
<1>3. /\ UNCHANGED <<slices, t, i, t0, result>> /\ pc' = "lerp" /\ t1' = t0 + Unit
      /\ lowerBound' = slices[i + 1] /\ upperBound' = FarKey(i, upperBound)
  BY DEF Found, dt
<1>4. slicesSize' = slicesSize /\ T' = T /\ \A k \in Nat : Key(k)' = Key(k)
  BY <1>3 DEF slicesSize, T, Scale, Key
<1>5. lowerBound' = Key(i) /\ upperBound' = Key(i + 1)
  BY <1>1, <1>2, <1>3 DEF Key, FarKey
<1>6. TypeOK'
  <2>1. Key(i) \in Int /\ Key(i + 1) \in Int
    BY <1>1, <1>2, Sizes
  <2>2. QED
    BY <1>1, <1>3, <1>4, <1>5, <2>1 DEF TypeOK
<1>7. AtSlice'
  BY <1>2, <1>3, <1>4, <1>5 DEF AtSlice
<1>8. QED
  BY <1>1, <1>2, <1>3, <1>4, <1>6, <1>7 DEF CurveInv, Walking, Searching, AtWhole,
     InRange, EvaluatesCurve, Answered

\* The walk only runs out of slices at t = 1, or when there are none.
LEMMA FallOutInv ==
  ASSUME CurveInv, FallOut
  PROVE  CurveInv'
<1>1. TypeOK /\ InRange /\ t0 = i * Unit /\ t0 <= T /\ i = slicesSize /\ slicesSize \in Nat
      /\ (i = 0 => t1 = Unit * Scale)
  BY Sizes DEF CurveInv, Walking, Searching, FallOut
<1>2. UNCHANGED <<slices, t, i, t0, t1, lowerBound, upperBound, result>> /\ pc' = "lerp"
  BY DEF FallOut
<1>3. slicesSize' = slicesSize /\ T' = T
  BY <1>2 DEF slicesSize, T, Scale
<1>4. TypeOK' /\ Walking'
  BY <1>1, <1>2, <1>3 DEF TypeOK, Walking, InRange
<1>5. t < Unit => slicesSize = 0
  <2>1. SUFFICES ASSUME t < Unit, slicesSize # 0 PROVE FALSE
    OBVIOUS
  <2>2. t * slicesSize < Unit * slicesSize
    BY <1>1, <2>1, TimesMonotone DEF InRange
  <2>3. T = t * slicesSize /\ slicesSize * Unit <= T
    BY <1>1, <2>1 DEF T, Scale
  <2>4. slicesSize * Unit = Unit * slicesSize
    BY <1>1
  <2>5. QED
    BY <1>1, <2>2, <2>3, <2>4 DEF InRange
<1>6. AtSlice'
  BY <1>2, <1>3, <1>5 DEF AtSlice
<1>7. AtWhole'
  BY <1>1, <1>2, <1>3 DEF AtWhole, Scale
<1>8. QED
  BY <1>2, <1>4, <1>6, <1>7 DEF CurveInv, Searching, EvaluatesCurve, Answered

LEMMA InterpolateInv ==
  ASSUME CurveInv, Interpolate
  PROVE  CurveInv'
<1>1. TypeOK /\ InRange /\ t0 = i * Unit /\ t0 <= T /\ AtSlice /\ pc = "lerp"
  BY DEF CurveInv, Walking, Interpolate
<1>2. UNCHANGED <<slices, t, i, t0, t1, lowerBound, upperBound>> /\ pc' = "done"
      /\ result' = Lerp
  BY DEF Interpolate
<1>3. slicesSize' = slicesSize /\ T' = T /\ Slice' = Slice /\ \A k \in Int : Key(k)' = Key(k)
  BY <1>2 DEF slicesSize, T, Scale, Slice, Key
<1>4. T \in Int /\ t0 \in Int /\ t1 \in Int /\ lowerBound \in Int /\ upperBound \in Int
      /\ i \in Nat
  BY <1>1, Sizes DEF TypeOK
<1>5. TypeOK'
  <2>1. Lerp \in Int \cup {NaN}
    BY <1>4 DEF Lerp
  <2>2. QED
    BY <1>1, <1>2, <1>3, <2>1 DEF TypeOK
<1>6. ASSUME t < Unit, slicesSize > 0
      PROVE  Lerp = Key(Slice + 1) * (T % Unit) + Key(Slice) * (Unit - (T % Unit))
  <2>1. t1 = t0 + Unit /\ T < t1 /\ lowerBound = Key(i) /\ upperBound = Key(i + 1)
    BY <1>1, <1>6 DEF AtSlice
  <2>2. Slice = i /\ T % Unit = T - t0
    <3>1. i * Unit <= T /\ T < i * Unit + Unit
      BY <1>1, <2>1
    <3>2. i \in Int /\ T \in Int /\ Unit \in Nat \ {0}
      BY <1>4
    <3>3. T \div Unit = i /\ T % Unit = T - i * Unit
      BY <3>1, <3>2, DivisionUnique, Zenon
    <3>4. QED
      BY <1>1, <3>3 DEF Slice
  <2>3. t1 # t0 /\ t1 - T = Unit - (T % Unit) /\ T - t0 = T % Unit
    BY <1>4, <2>1, <2>2
  <2>4. QED
    BY <2>1, <2>2, <2>3 DEF Lerp
<1>7. EvaluatesCurve'
  <2>1. (Key(Slice + 1) * (T % Unit) + Key(Slice) * (Unit - (T % Unit)))'
          = Key(Slice + 1) * (T % Unit) + Key(Slice) * (Unit - (T % Unit))
    BY <1>2 DEF Key, Slice, T, Scale, slicesSize
  <2>2. result' = Lerp /\ t' = t /\ slicesSize' = slicesSize
    BY <1>2, <1>3
  <2>3. QED
    BY <1>6, <2>1, <2>2 DEF EvaluatesCurve
<1>8. QED
  BY <1>2, <1>5, <1>7 DEF CurveInv, Walking, Searching, AtSlice, AtWhole

LEMMA CurveInvariant == Spec => []CurveInv
<1>1. CurveInv /\ [Next]_vars => CurveInv'
  <2>1. SUFFICES ASSUME CurveInv, [Next]_vars PROVE CurveInv'
    OBVIOUS
  <2>2. CASE UNCHANGED vars
    BY <2>1, <2>2 DEF vars, CurveInv, TypeOK, Walking, Searching, AtSlice, AtWhole, InRange,
             EvaluatesCurve, Answered, Slice, Key, T, Scale, slicesSize
  <2>3. QED
    BY <2>1, <2>2, GenericEvalInv, AdvanceInv, FoundInv, FallOutInv, InterpolateInv DEF Next
<1>2. QED
  BY <1>1, InitCurve, PTL DEF Spec

\* Below t = 1 the interval that is interpolated over has t in it and is not
\* empty, for every curve and resolution (see EnclosesBelowOne).
THEOREM WalkEncloses == Spec => []EnclosesBelowOne
<1>1. CurveInv => EnclosesBelowOne
  <2>1. SUFFICES ASSUME CurveInv, pc = "lerp", t < Unit PROVE t0 <= T /\ T < t1
    BY DEF EnclosesBelowOne
  <2>2. TypeOK /\ InRange /\ t0 <= T
    BY <2>1 DEF CurveInv, Walking
  <2>3. CASE slicesSize > 0
    BY <2>1, <2>2, <2>3 DEF CurveInv, AtSlice
  <2>4. CASE slicesSize = 0
    <3>1. T = t /\ t1 = Unit
      BY <2>1, <2>2, <2>4 DEF T, Scale, InRange, CurveInv, AtWhole
    <3>2. QED
      BY <2>1, <2>2, <3>1
  <2>5. QED
    BY <2>2, <2>3, <2>4, Sizes
<1>2. QED
  BY <1>1, CurveInvariant, PTL

\* Below t = 1 the walk yields the piecewise linear function through the
\* keyframes, for every curve and resolution (see EvaluatesCurve).
THEOREM CurveIsEvaluated == Spec => []EvaluatesCurve
<1>1. CurveInv => EvaluatesCurve
  BY DEF CurveInv
<1>2. QED
  BY <1>1, CurveInvariant, PTL
=============================================================================

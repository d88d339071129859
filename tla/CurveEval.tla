----------------------------- MODULE CurveEval -----------------------------
(* GenericEval of GameRules.cpp: the value at t of a curve given by keyframes, *)
(* one per slice of [0, 1], by a walk over the slices and a linear             *)
(* interpolation. The last slice leads up to 1. It prices warps (t is the      *)
(* distance over the maximal one) and extractions (t is the percentage).       *)
(*                                                                             *)
(* Arithmetic is exact: t and the keyframes count in 1/Unit, positions on the  *)
(* t axis in 1/(Scale * Unit) with one Unit per slice, results in 1/Unit^2.    *)
EXTENDS Integers, Sequences

CONSTANTS Unit,         \* the resolution of t and of the keyframes
          Curves,       \* the keyframe vectors considered
          NaN           \* the result of 0/0

ASSUME CurveAssumption ==
    /\ Unit \in Nat \ {0}
    /\ Curves \subseteq Seq(Int)
    /\ NaN \notin Int

VARIABLES pc,           \* "ready", "loop", "lerp" or "done"
          slices, t,    \* the parameters
          i, t0, t1, lowerBound, upperBound, result

vars == <<pc, slices, t, i, t0, t1, lowerBound, upperBound, result>>

slicesSize == Len(slices)
Scale == IF slicesSize = 0 THEN 1 ELSE slicesSize

\* t and dt on the axis
T  == t * Scale
dt == Unit

\* The walk stops at the first slice that ends after t; and the wrong variant
\* that stops at one that ends at t.
EndsAt == T <= t0 + dt
Ends   == T < t0 + dt

\* The keyframe at the far end of slice i, none for the last one; and the wrong
\* variant that takes the near one.
NearKey(k, far) == slices[k + 1]
FarKey(k, far)  == IF k < slicesSize - 1 THEN slices[k + 2] ELSE far

\* LERP(t, t0, lowerBound, t1, upperBound); 0/0 when the interval is empty.
Lerp == IF t1 = t0 THEN NaN ELSE upperBound * (T - t0) + lowerBound * (t1 - T)

Init ==
    /\ pc = "ready"
    /\ slices = <<>> /\ t = 0
    /\ i = 0 /\ t0 = 0 /\ t1 = Unit
    /\ lowerBound = 0 /\ upperBound = Unit
    /\ result = 0

\* A call: outside [0, 1] the answer is 0 or 1.
GenericEval(s, x) ==
    /\ pc \in {"ready", "done"}
    /\ slices' = s /\ t' = x
    /\ i' = 0 /\ t0' = 0 /\ t1' = Unit * (IF s = <<>> THEN 1 ELSE Len(s))
    /\ lowerBound' = 0 /\ upperBound' = Unit
    /\ \/ x < 0 /\ pc' = "done" /\ result' = 0
       \/ x > Unit /\ pc' = "done" /\ result' = Unit * Unit
       \/ x \in 0..Unit /\ pc' = "loop" /\ result' = 0

\* One turn of the loop: the slice is found, or the next one is tried.
Found ==
    /\ pc = "loop" /\ i < slicesSize /\ Ends
    /\ t1' = t0 + dt
    /\ lowerBound' = slices[i + 1]
    /\ upperBound' = FarKey(i, upperBound)
    /\ pc' = "lerp"
    /\ UNCHANGED <<slices, t, i, t0, result>>

Advance ==
    /\ pc = "loop" /\ i < slicesSize /\ ~Ends
    /\ t1' = t0 + dt
    /\ t0' = t0 + dt
    /\ i' = i + 1
    /\ UNCHANGED <<pc, slices, t, lowerBound, upperBound, result>>

FallOut ==
    /\ pc = "loop" /\ i = slicesSize
    /\ pc' = "lerp"
    /\ UNCHANGED <<slices, t, i, t0, t1, lowerBound, upperBound, result>>

Interpolate ==
    /\ pc = "lerp"
    /\ result' = Lerp
    /\ pc' = "done"
    /\ UNCHANGED <<slices, t, i, t0, t1, lowerBound, upperBound>>

Next ==
    \/ \E s \in Curves, x \in -1..(Unit + 1) : GenericEval(s, x)
    \/ Found \/ Advance \/ FallOut \/ Interpolate

Spec == Init /\ [][Next]_vars
-----------------------------------------------------------------------------
TypeOK ==
    /\ pc \in {"ready", "loop", "lerp", "done"}
    /\ slices \in Seq(Int) /\ t \in Int
    /\ i \in 0..slicesSize
    /\ t0 \in Int /\ t1 \in Int /\ lowerBound \in Int /\ upperBound \in Int
    /\ result \in Int \cup {NaN}

InRange == t \in 0..Unit
Answered == pc = "done" /\ InRange

\* "Find the buckets that 'enclose' this value" (the comment on GenericEval): the
\* slice that is interpolated over has a length, and t is in it.
Encloses == pc = "lerp" => t0 <= T /\ T <= t1 /\ t0 < t1

\* The code keeps that promise on [0, 1): after the walk t is in a slice that
\* starts at or before it and ends after it.
EnclosesBelowOne == pc = "lerp" /\ t < Unit => t0 <= T /\ T < t1

\* The value is that of the piecewise linear function through the keyframes and
\* (1, 1), found by division and not by a walk.
Slice == T \div Unit
Key(k) == IF k < slicesSize THEN slices[k + 1] ELSE Unit

EvaluatesCurve ==
    Answered /\ t < Unit /\ slicesSize > 0 =>
        result = Key(Slice + 1) * (T % Unit) + Key(Slice) * (Unit - (T % Unit))
=============================================================================

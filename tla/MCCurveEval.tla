---------------------------- MODULE MCCurveEval ----------------------------
(* All curves of up to four keyframes out of three values; three keyframes are *)
(* left out because a third is not exact in floating point.                    *)
EXTENDS CurveEval

MCCurves == UNION {[1..n -> {0, 1, 4}] : n \in {0, 1, 2, 4}}
=============================================================================

----------------------------- MODULE MCPresent -----------------------------
(* Small instances of the Present extension for TLC. *)
EXTENDS PresentProps, TLC

S(c, a, u, f) == [copy |-> c, async |-> a, update |-> u, fence |-> f]
AFence == CHOOSE f \in Fences : TRUE
\* flips at a frame, of a part of the pixmap, so that they overwrite no other;
\* copies of all of it; copies at once that wait for a fence; flips at once that
\* the driver makes at the next frame
FlipShapes == {S(FALSE, {}, TRUE, None), S(TRUE, {}, FALSE, None),
               S(TRUE, {"Async"}, TRUE, AFence), S(FALSE, {"AsyncMayTear"}, TRUE, None)}
\* a flip at once that waits for a fence
FenceShapes == {S(FALSE, {"Async"}, TRUE, AFence)}
AnyField == {<<0, 0>>}
WindowSymmetry == Permutations(Windows)
=============================================================================

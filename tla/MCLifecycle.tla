---------------------------- MODULE MCLifecycle -----------------------------
(* Lifecycle for TLC: environments in which up to two variables deviate    *)
(* from the defaults.                                                      *)
EXTENDS Lifecycle, TLC

MCContents == {Unset, Empty, Text, NaN, -1, 0, 1, 10, 300, 70000}

MCEnvironments ==
  {[v \in Vars |-> IF v = p[1] THEN x ELSE IF v = p[2] THEN y ELSE Unset] :
     p \in Vars \X Vars, x, y \in MCContents}
=============================================================================

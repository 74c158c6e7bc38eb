----------------------------- MODULE Evaluation -----------------------------
(* F(x), with x evaluated once: the model checker evaluates the argument of  *)
(* an operator at each of its uses when it checks fairness.                  *)
Once(F(_), x) == CHOOSE y \in {F(v) : v \in {x}} : TRUE
=============================================================================

------------------------------ MODULE MCRotator ------------------------------
(* Model-checking instances of Rotator.                                     *)
EXTENDS Rotator, TLC

CONSTANTS e1, e2, e3, e4

ThreeProxies == <<e1, e2, e4>>
OneProxy == <<e3>>

Symmetry == Permutations(Requests)

(* ProxyServes does not look at the two ghosts of the trackers, and no guard *)
(* does: states that differ in them only are explored once.                  *)
WithoutGhosts == <<tracker, now, step, target, seen, rotVars>>
=============================================================================

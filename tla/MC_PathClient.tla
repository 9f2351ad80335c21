---------------------------- MODULE MC_PathClient ----------------------------
(* Instances of PathClient: up to two poses, each with an angle of its own. *)
EXTENDS PathClient, TLC

CONSTANTS p1, p2, w1, w2

MCWireTurn == [t \in Targets |-> IF t = p1 THEN w1 ELSE w2]

\* The poses are alike when their angles change places with them.
MCSymmetry ==
    {f \in Permutations({p1, p2, w1, w2}) :
        \A p \in {p1, p2} : f[p] \in {p1, p2} /\ f[MCWireTurn[p]] = MCWireTurn[f[p]]}
=============================================================================

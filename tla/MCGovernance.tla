---------------------------- MODULE MCGovernance ----------------------------
(* Small instances of Governance for TLC. *)
EXTENDS Governance, TLC

CONSTANTS p1, p2, a1, a2, a3, l1, l2, l3, c1, c2, r1, r2, j1, j2

MCProjectOf == p1 :> j1 @@ p2 :> j2
OneProject  == [p \in Process |-> j1]

NoLegacy == {}
\* Lists as an older backend may have stored them: one principal twice under
\* two labels, one label for two principals, and a chain whose middle entry
\* clashes with both ends.
OldLists ==
    { {[pos |-> 0, actor |-> a1, label |-> l1],
       [pos |-> 1, actor |-> a1, label |-> l2]},
      {[pos |-> 0, actor |-> a1, label |-> l1],
       [pos |-> 1, actor |-> a2, label |-> l1]},
      {[pos |-> 0, actor |-> a1, label |-> l1],
       [pos |-> 1, actor |-> a2, label |-> l1],
       [pos |-> 2, actor |-> a2, label |-> l2]} }

Interchangeable == Permutations(Actor) \cup Permutations(Label)
                     \cup Permutations(Change)
=============================================================================

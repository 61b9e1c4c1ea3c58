---------------------------- MODULE MCNoteStore ----------------------------
(* Small instances of NoteStore for TLC. *)
EXTENDS NoteStore, TLC

CONSTANTS p1, p2, j1, j2, k1, ta, tb, tc

\* Processes of one project are interchangeable.
Twins == Permutations(Process)

OneProject == [p \in Process |-> j1]

\* tc is near enough to ta to supersede it, tb to link with either.
MCSim == [x \in Text \X Text |->
    CASE x[1] = x[2] -> 100
      [] {x[1], x[2]} = {ta, tc} -> 74
      [] OTHER -> 60]
Mutable == [t \in Text |-> {"status"}]

Absent == [present |-> FALSE, text |-> CHOOSE t \in Text : TRUE,
           layer |-> "verified_fact", project |-> j1, active |-> FALSE,
           state |-> "active", vec |-> "none", task |-> Nobody, by |-> 0,
           counted |-> 0, ref |-> FALSE]
Holding(row) == [n \in 1..MaxNote |-> IF n = 1 THEN row ELSE Absent]
Live == [Absent EXCEPT !.present = TRUE, !.active = TRUE, !.vec = "new"]

\* A rule of the constitution.
RuleSeed == {Holding([Live EXCEPT !.layer = "identity_schema"])}
\* Nothing, or a note of before: a fact with a vector of a past dimension, a
\* fact of another project, another project's checkpoint of the same task.
PastSeeds == {Holding(Absent), Holding([Live EXCEPT !.vec = "old"]),
              Holding([Live EXCEPT !.project = j2, !.text = tb]),
              Holding([Live EXCEPT !.project = j2, !.task = k1,
                                   !.layer = "event_log"])}
=============================================================================

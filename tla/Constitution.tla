---------------------------- MODULE Constitution ----------------------------
(***************************************************************************)
(* What L0 governance promises, with no processes and no transactions:      *)
(* principals vote for changes, and the rules change only when a change     *)
(* that was not yet enacted collects its last missing vote, one rule at a   *)
(* time and together with that vote.                                        *)
(***************************************************************************)
EXTENDS Naturals, FiniteSets

CONSTANTS Change, Principal, Row, Needed

VARIABLES votes, enacted, rules

promised == <<votes, enacted, rules>>

Init ==
    /\ votes \in [Change -> SUBSET Principal]
    /\ enacted = {}

Vote(c, a) ==
    /\ c \notin enacted
    /\ a \notin votes[c]
    /\ votes' = [votes EXCEPT ![c] = @ \cup {a}]

\* A vote that is not enough yet.
Support(c, a) ==
    /\ Vote(c, a)
    /\ Cardinality(votes'[c]) < Needed
    /\ UNCHANGED <<enacted, rules>>

Enact(c, a) ==
    /\ Vote(c, a)
    /\ Cardinality(votes'[c]) >= Needed
    /\ enacted' = enacted \cup {c}
    /\ \E r \in Row : \A s \in Row \ {r} : rules'[s] = rules[s]

Next == \E c \in Change, a \in Principal : Support(c, a) \/ Enact(c, a)

Spec == Init /\ [][Next]_promised
=============================================================================

---------------------------- MODULE MCWriteGate ----------------------------
(* Small instances of WriteGate for TLC. *)
EXTENDS WriteGate, TLC

CONSTANTS a1, a2, n1, t1, r1, r2, r3, r4

Plain(n) == [http |-> 0, name |-> n]
L0(a, header) == [tool |-> "l0", actor |-> a, header |-> header, token |-> t1]
\* Two L0 calls with one token, two ordinary writes.
MCWants == [r \in Request |->
    CASE r = r1 -> L0(a1, Plain(n1))
      [] r = r2 -> L0(a2, Plain(n1))
      [] OTHER  -> [tool |-> "plain", actor |-> a1, header |-> Absent, token |-> Absent]]

Alike == Permutations({r3, r4})
=============================================================================

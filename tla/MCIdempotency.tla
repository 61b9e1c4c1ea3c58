--------------------------- MODULE MCIdempotency ---------------------------
(* Small instances of Idempotency for TLC. *)
EXTENDS Idempotency, TLC

CONSTANTS r1, r2, r3, s1, s2, k1, b1, b2

\* Three tries of one key over two servers, the one on s2 with another body.
MCServerOf == [r \in Attempt |-> IF r = r2 THEN s2 ELSE s1]
MCKeyOf    == [r \in Attempt |-> k1]
MCBodyOf   == [r \in Attempt |-> IF r = r2 THEN b2 ELSE b1]
\* Tries of one request.
SameBody   == [r \in Attempt |-> b1]

SameServer == Permutations({r1, r3})
=============================================================================

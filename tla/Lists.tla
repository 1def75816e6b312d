------------------------------- MODULE Lists -------------------------------
(***************************************************************************)
(* The rows of a list that a loop or a comprehension keeps, in their       *)
(* order.  It is a recursive function and not SelectSeq, so that proofs    *)
(* can reason about it.                                                    *)
(***************************************************************************)
EXTENDS Naturals, Sequences

\* The elements of s at the positions in keep.
Picked(s, keep) ==
    LET first[n \in 0 .. Len(s)] ==
            IF n = 0 THEN <<>>
            ELSE IF n \in keep THEN Append(first[n - 1], s[n]) ELSE first[n - 1]
    IN  first[Len(s)]

\* s without the element x.
Without(s, x) == Picked(s, {i \in DOMAIN s : s[i] # x})
=============================================================================

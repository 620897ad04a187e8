------------------------------- MODULE Filter -------------------------------
(***************************************************************************)
(* The members of a sequence that are in a set, in the order they are in.  *)
(* The SelectSeq of Sequences takes an operator, which the proofs cannot   *)
(* reason about; with a set for it the facts about lists can be stated and *)
(* proved once, in FilterProofs.                                           *)
(***************************************************************************)
EXTENDS Naturals, Sequences

\* What is kept of the first i members of s.
Kept(s, S) ==
    LET k[i \in 0 .. Len(s)] ==
            IF i = 0 THEN << >>
            ELSE IF s[i] \in S THEN Append(k[i - 1], s[i]) ELSE k[i - 1]
    IN  k

Keep(s, S) == Kept(s, S)[Len(s)]
=============================================================================

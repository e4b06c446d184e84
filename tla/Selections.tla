---------------------------- MODULE Selections ----------------------------
(* Selecting from a sequence by a set, in place of SelectSeq, whose test is *)
(* an operator: the facts that proofs need about it are first-order.        *)
EXTENDS Naturals, Sequences

\* The elements of a sequence that are in a set, in their order.
Select(s, kept) ==
    LET upTo[i \in 0 .. Len(s)] ==
          IF i = 0 THEN <<>>
          ELSE IF s[i] \in kept THEN Append(upTo[i - 1], s[i]) ELSE upTo[i - 1]
    IN upTo[Len(s)]
===========================================================================

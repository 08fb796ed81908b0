------------------------------ MODULE Filters -------------------------------
(* The comprehension [x for x in s if x in Q], which keeps the order, as a *)
(* recursive function: its theorems are in FilterProofs.                   *)
EXTENDS Integers, Sequences

(* What is kept of the first n items, for every n. *)
Kept(s, Q) ==
    LET kept[n \in 0..Len(s)] ==
          IF n = 0 THEN <<>>
          ELSE IF s[n] \in Q THEN Append(kept[n - 1], s[n]) ELSE kept[n - 1]
    IN  kept

Only(s, Q) == Kept(s, Q)[Len(s)]

(* x is somewhere in s; nothing is there twice. *)
Has(s, x)    == \E i \in 1..Len(s) : s[i] = x
Injective(s) == \A i, k \in 1..Len(s) : s[i] = s[k] => i = k
=============================================================================

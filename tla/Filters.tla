-------------------------------- MODULE Filters --------------------------------
(* What stays in a list when the kernel walks it and unlinks the entries that  *)
(* do not belong there any more.                                               *)
EXTENDS Integers, Sequences

Members(q) == {q[i] : i \in DOMAIN q}

(* The entries of q that are in S, in their order. *)
Kept(q, S) ==
  LET kept[i \in 0..Len(q)] ==
        IF i = 0 THEN <<>>
        ELSE IF q[i] \in S THEN Append(kept[i - 1], q[i]) ELSE kept[i - 1]
  IN  kept[Len(q)]
=============================================================================

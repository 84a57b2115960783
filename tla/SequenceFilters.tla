-------------------------- MODULE SequenceFilters --------------------------
(***************************************************************************)
(* The elements of a sequence that belong to a set, in their order: what   *)
(* `filter` returns.  SelectSeq of the module Sequences says the same, but *)
(* the prover does not know its definition; this one it can reason about.  *)
(***************************************************************************)
EXTENDS Naturals, Sequences

Kept(s, keep) ==
    LET kept[n \in 0..Len(s)] ==
            IF n = 0 THEN << >>
            ELSE IF s[n] \in keep THEN Append(kept[n - 1], s[n])
            ELSE kept[n - 1]
    IN  kept[Len(s)]
=============================================================================

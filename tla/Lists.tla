------------------------------- MODULE Lists -------------------------------
(***************************************************************************)
(* The loop that collects some of the items of a list.  It is the fold the *)
(* loop runs, where SelectSeq of the standard module Sequences would give  *)
(* the same list: the provers know nothing of SelectSeq.                   *)
(***************************************************************************)
EXTENDS Naturals, SequencesExt

\* The items of a list that are in a set, in their order.
Filter(list, kept) ==
    FoldLeft(LAMBDA ret, item : IF item \in kept THEN Append(ret, item) ELSE ret, <<>>, list)
=============================================================================

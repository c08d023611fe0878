----------------------------- MODULE LongestChain -----------------------------
(***************************************************************************)
(* What the block store promises, without blocks, paths or outputs: chains *)
(* become known in any order; the head is a valid known chain, and it      *)
(* moves only to the chain just learned, when that is valid and longer, so *)
(* that of two equally long chains the first one seen stays.  Chains that  *)
(* only waited for the one just learned, because they extend it, are known *)
(* from then on as well, but they come late: nobody looks at them.         *)
(***************************************************************************)
EXTENDS Sequences, Naturals

CONSTANTS Chain,   \* the chains that can become known
          Valid,   \* the ones every rule accepts
          Root     \* the chain known at the start

VARIABLES known, head

vars == <<known, head>>

Init == known = {Root} /\ head = Root

Extensions(c) == { d \in Chain \ known : Len(d) > Len(c) /\ SubSeq(d, 1, Len(c)) = c }

Learn(c) ==
    /\ c \notin known
    /\ \E late \in SUBSET Extensions(c) : known' = known \cup {c} \cup late
    /\ head' = IF c \in Valid /\ Len(c) > Len(head) THEN c ELSE head

Next == \E c \in Chain : Learn(c)

Spec == Init /\ [][Next]_vars
===============================================================================

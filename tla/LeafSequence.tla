---------------------------- MODULE LeafSequence ----------------------------
(***************************************************************************)
(* What a Merkle tree promises, without nodes: the hashes inserted so far, *)
(* and how many of them at the front are flushed.                          *)
(***************************************************************************)
EXTENDS Integers, Sequences

CONSTANT Hashes

VARIABLES content, flushed

Init == content = <<>> /\ flushed = 0

Insert(h) == content' = Append(content, h) /\ UNCHANGED flushed

\* The leaves from first to last stay, and those before first are flushed.
Keep(first, last) ==
    /\ flushed <= first /\ first <= last /\ last < Len(content)
    /\ content' = SubSeq(content, 1, last + 1)
    /\ flushed' = first

Next ==
    \/ \E h \in Hashes : Insert(h)
    \/ \E first, last \in 0 .. Len(content) - 1 : Keep(first, last)

Spec == Init /\ [][Next]_<<content, flushed>>
=============================================================================

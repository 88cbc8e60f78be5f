----------------------------- MODULE MerkleTree -----------------------------
(***************************************************************************)
(* TreeT of merklecpp.h: all operations of the class.  GrowingTree has the *)
(* nodes, insertion and hashing; here are paths, flushing and retracting,  *)
(* copies and serialised trees.                                            *)
(*                                                                         *)
(* walk_stack is empty between operations and appears as recursion.  An    *)
(* operation that throws changes nothing and is no step.                   *)
(***************************************************************************)
EXTENDS GrowingTree

-----------------------------------------------------------------------------
\* The nodes of a subtree, from left to right, a parent before its children.
RECURSIVE Subtree(_, _)
Subtree(m, n) ==
    IF n = Null THEN <<>> ELSE <<n>> \o Subtree(m, m[n].left) \o Subtree(m, m[n].right)

\* (With NoMemory, TLC takes the result as a table.)
Free(m, S) == NoMemory @@ Restrict(m, DOMAIN m \ S)

delete(m, n) == Free(m, ToSet(Subtree(m, n)))

min_index(t) == t.num_flushed

max_index(t) == IF num_leaves(t) = 0 THEN 0 ELSE num_leaves(t) - 1

\* The node of a leaf that is not flushed.
leaf_node(t, index) == (t.leaf_nodes \o t.uninserted)[index - t.num_flushed + 1]

leaf(t, index) == t.mem[leaf_node(t, index)].hash

-----------------------------------------------------------------------------
(* Walks.  The turn at height h is the bit h - 2 of the index.             *)

goes_right(index, height) == (index \div 2 ^ (height - 2)) % 2 = 1

\* The nodes at which a walk to a leaf turns, and how.  A subtree that is not as
\* high as its sibling is entered some heights later.
RECURSIVE WalkFrom(_, _, _, _)
WalkFrom(m, n, height, index) ==
    IF height = 1 THEN <<>>
    ELSE IF m[n].height # height THEN WalkFrom(m, n, height - 1, index)
    ELSE LET right == goes_right(index, height)
         IN  <<[n |-> n, right |-> right]>>
             \o WalkFrom(m, IF right THEN m[n].right ELSE m[n].left, height - 1, index)

\* Of a tree with its root computed.
walk_to(t, index) == WalkFrom(t.mem, t.root, t.mem[t.root].height, index)

\* Mutant of Element: the hash of the child that is on the way.
Element_Own(m, turn) ==
    [hash |-> m[IF turn.right THEN m[turn.n].right ELSE m[turn.n].left].hash,
     left |-> turn.right]

\* The hash that joins at a turn, and whether from the left.
Element(m, turn) ==
    [hash |-> m[IF turn.right THEN m[turn.n].left ELSE m[turn.n].right].hash,
     left |-> turn.right]

Elements(m, turns) == [k \in DOMAIN turns |-> Element(m, turns[k])]

FromLeft(elements) == SelectSeq(elements, LAMBDA e : e.left)

\* From the leaf to the root.
path(t, index) == Reverse(Elements(t.mem, walk_to(t, index)))

Join(h, e) == IF e.left THEN HASH_FUNCTION(e.hash, h) ELSE HASH_FUNCTION(h, e.hash)

\* PathT::root.
PathRoot(leafHash, elements) == FoldLeft(Join, leafHash, elements)

past_root(t, index) == PathRoot(leaf(t, index), FromLeft(path(t, index)))

\* Where two walks part; after the end if they do not.
Fork(w, v) ==
    CHOOSE k \in 1 .. Len(w) + 1 :
        /\ k <= Len(w) => w[k].right # v[k].right
        /\ \A j \in 1 .. k - 1 : w[j].right = v[j].right

\* Mutant of past_path: the path to as_of takes in what is to the right of it.
past_path_Younger(t, index, as_of) ==
    LET w == walk_to(t, index)
        v == walk_to(t, as_of)
        fork == Fork(w, v)
        toIndex == Reverse(Elements(t.mem, SubSeq(w, fork + 1, Len(w))))
        toAsOf == Reverse(Elements(t.mem, SubSeq(v, fork + 1, Len(v))))
        toFork == Reverse(FromLeft(Elements(t.mem, SubSeq(w, 1, fork - 1))))
        forked == [hash |-> PathRoot(leaf(t, as_of), toAsOf), left |-> FALSE]
    IN  toIndex \o (IF fork <= Len(w) THEN <<forked>> ELSE <<>>) \o toFork

past_path(t, index, as_of) ==
    LET w == walk_to(t, index)
        v == walk_to(t, as_of)
        fork == Fork(w, v)
        toIndex == Reverse(Elements(t.mem, SubSeq(w, fork + 1, Len(w))))
        toAsOf == Reverse(FromLeft(Elements(t.mem, SubSeq(v, fork + 1, Len(v)))))
        toFork == Reverse(FromLeft(Elements(t.mem, SubSeq(w, 1, fork - 1))))
        forked == [hash |-> PathRoot(leaf(t, as_of), toAsOf), left |-> FALSE]
    IN  toIndex \o (IF fork <= Len(w) THEN <<forked>> ELSE <<>>) \o toFork

-----------------------------------------------------------------------------
(* Flushing and retracting.                                                *)

\* The left child of a node loses its children and keeps its hash.
conflate(m, turn) ==
    LET l == m[turn.n].left
        hashed == IF m[l].dirty THEN hash(m, l) ELSE m
        cut == delete(delete(hashed, m[l].left), m[l].right)
    IN  IF ~turn.right THEN m ELSE [cut EXCEPT ![l].left = Null, ![l].right = Null]

flush_to(t, index) ==
    LET c == compute_root(t)
    IN  IF index <= min_index(t)
        THEN t
        ELSE [c EXCEPT !.mem = FoldLeft(conflate, c.mem, walk_to(c, index)),
                       !.leaf_nodes = SubSeq(@, index - t.num_flushed + 1, Len(@)),
                       !.num_flushed = index]

\* The right child of n goes, and the left one is moved into n.
eliminate(m, n) ==
    LET l == m[n].left
        moved == [delete(m, m[n].right) EXCEPT ![n] = m[l]]
    IN  Free([moved EXCEPT ![n].dirty = @ \/ HasChildren(moved, n)], {l})

\* Mutant of UpdateWalked: the walk is made without update.
UpdateWalked_Not(m, walked) == m

\* walk_stack, of which the deepest node comes last, is emptied.
UpdateWalked(m, walked) == FoldRight(LAMBDA n, mm : update_sizes(mm, n), walked, m)

\* The walk of retract_to; walked is walk_stack.  At a turn to the left the walk stays: n is one lower then.
RECURSIVE RetractWalk(_, _, _, _, _)
RetractWalk(m, n, height, index, walked) ==
    LET marked == [m EXCEPT ![n].dirty = TRUE]
        on == Append(walked, n)
    IN  IF height = 1
        THEN [mem |-> UpdateWalked(m, walked), leaf |-> n]
        ELSE IF m[n].height # height THEN RetractWalk(m, n, height - 1, index, on)
        ELSE IF goes_right(index, height)
        THEN RetractWalk(marked, m[n].right, height - 1, index, on)
        ELSE RetractWalk(eliminate(marked, n), n, height, index, on)

\* Leaves that wait are dropped without touching the tree.
DropUninserted(t, index) ==
    LET over == index - (t.num_flushed + Len(t.leaf_nodes)) + 1
    IN  IF over >= Len(t.uninserted)
        THEN t
        ELSE [t EXCEPT !.mem = Free(@, ToSet(SubSeq(t.uninserted, over + 1, Len(t.uninserted)))),
                       !.uninserted = SubSeq(@, 1, over)]

\* Mutant of Retracted: the pointer to the last leaf is not saved.
Retracted_Pointer(t, index) ==
    LET walk == RetractWalk(t.mem, t.root, t.mem[t.root].height, index, <<>>)
    IN  [t EXCEPT !.mem = walk.mem,
                  !.leaf_nodes = SubSeq(@, 1, index - t.num_flushed + 1)]

Retracted(t, index) ==
    LET walk == RetractWalk(t.mem, t.root, t.mem[t.root].height, index, <<>>)
    IN  [t EXCEPT !.mem = walk.mem,
                  !.leaf_nodes = Append(SubSeq(@, 1, index - t.num_flushed), walk.leaf)]

retract_to(t, index) ==
    IF max_index(t) < index THEN t
    ELSE IF index >= t.num_flushed + Len(t.leaf_nodes) THEN DropUninserted(t, index)
    ELSE Retracted(compute_root(t), index)

-----------------------------------------------------------------------------
(* Copies and serialised trees.                                            *)

\* Mutant of CopyOf: the copy is not dirty, as make leaves it.
CopyOf_Clean(node) == [node EXCEPT !.left = Null, !.right = Null, !.dirty = FALSE]

\* A copied node, its children still to come.
CopyOf(node) == [node EXCEPT !.left = Null, !.right = Null]

\* Node::copy_node of the node n of memory m.  A leaf goes to the leaf nodes of
\* the copy c after skip others.  The copy is r = Fresh(c.mem).
RECURSIVE copy_node(_, _, _)
copy_node(m, n, c) ==
    LET r == Fresh(c.mem)
        made == [c EXCEPT !.mem = New(c.mem, CopyOf(m[n]))]
        left == copy_node(m, m[n].left, made)
        right == copy_node(m, m[n].right, left)
    IN  IF HasChildren(m, n)
        THEN [right EXCEPT !.mem[r].left = Fresh(made.mem), !.mem[r].right = Fresh(left.mem)]
        ELSE IF m[n].size # 1 THEN made
        ELSE IF c.skip = 0 THEN [made EXCEPT !.leaf_nodes = Append(@, r)]
        ELSE [made EXCEPT !.skip = @ - 1]

\* Mutant of to_skip: the flushed leaf that is still a node is not skipped.
to_skip_None(t) == 0

\* A flushed leaf whose sibling is not flushed is still a node.
to_skip(t) == t.num_flushed % 2

\* The copy of what has been inserted.  The code asserts that it has as many
\* leaves, which is so unless the tree copied has nodes left on its stack.
CopiedRoot(t) ==
    LET start == [mem |-> NoMemory, leaf_nodes |-> <<>>, skip |-> to_skip(t)]
        c == IF t.root = Null THEN start ELSE copy_node(t.mem, t.root, start)
    IN  [EmptyTree EXCEPT !.mem = c.mem, !.leaf_nodes = c.leaf_nodes,
                          !.root = IF t.root = Null THEN Null ELSE 1,
                          !.num_flushed = t.num_flushed]

\* Mutant of Copied: the leaves that wait are not copied.
Copied_Inserted(t) == CopiedRoot(t)

\* operator= on an empty tree, which is the copy constructor.
Copied(t) ==
    FoldLeft(LAMBDA c, n : [c EXCEPT !.mem = New(c.mem, t.mem[n]),
                                     !.uninserted = Append(@, Fresh(c.mem))],
             CopiedRoot(t), t.uninserted)

\* The left siblings on the way to the first leaf, from the leaf upwards.
Extras(t, from) ==
    LET turns == SelectSeq(walk_to(t, from), LAMBDA turn : turn.right)
    IN  Reverse([k \in DOMAIN turns |-> t.mem[t.mem[turns[k].n].left].hash])

\* The leaves first to last of a tree with its root computed.
serialise(t, first, last) ==
    [num_flushed |-> first,
     leaves |-> [k \in 1 .. last - first + 1 |-> leaf(t, first + k - 1)],
     extras |-> Extras(t, first)]

\* A level of the tree from the one below: neighbours are joined, and a last
\* one without a neighbour goes up.
RECURSIVE JoinLevel(_, _)
JoinLevel(m, level) ==
    IF Len(level) < 2
    THEN [mem |-> m, level |-> level]
    ELSE LET rest == JoinLevel(make(m, level[1], level[2]), SubSeq(level, 3, Len(level)))
         IN  [rest EXCEPT !.level = <<Fresh(m)>> \o @]

\* A bit of num_flushed that is set asks for a hash on the left edge.
RECURSIVE BuildLevels(_, _, _, _, _)
BuildLevels(m, level, it, level_no, extras) ==
    IF it = 0 /\ Len(level) < 2
    THEN [mem |-> m, root |-> level[1]]
    ELSE LET flushed == [LeafNode(Head(extras)) EXCEPT !.height = level_no + 1,
                                                       !.size = 2 ^ (level_no + 1) - 1]
             j == IF it % 2 = 0 THEN JoinLevel(m, level)
                  ELSE JoinLevel(New(m, flushed), <<Fresh(m)>> \o level)
         IN  BuildLevels(j.mem, j.level, it \div 2, level_no + 1,
                         IF it % 2 = 0 THEN extras ELSE Tail(extras))

\* Of bytes that serialise wrote, which have at least one leaf.
deserialise(bytes) ==
    LET nodes == NoMemory @@ [n \in DOMAIN bytes.leaves |-> LeafNode(bytes.leaves[n])]
        ids == [n \in DOMAIN bytes.leaves |-> n]
        built == BuildLevels(nodes, ids, bytes.num_flushed, 0, bytes.extras)
    IN  [EmptyTree EXCEPT !.mem = built.mem, !.root = built.root, !.leaf_nodes = ids,
                          !.num_flushed = bytes.num_flushed]

-----------------------------------------------------------------------------
(* Operations.                                                             *)

FlushTo(index) ==
    /\ index <= max_index(tree)
    /\ tree' = flush_to(tree, index)

RetractTo(index) ==
    /\ index >= min_index(tree)
    /\ tree' = retract_to(tree, index)

\* The tree is replaced by a copy of itself.
Copy == tree' = Copied(tree)

\* The tree is replaced by what its serialisation, or that of a segment, holds.
Restore(first, last) ==
    /\ num_leaves(tree) > 0
    /\ min_index(tree) <= first /\ first <= last /\ last <= max_index(tree)
    /\ tree' = deserialise(serialise(compute_root(tree), first, last))

Indexes == 0 .. MaxLeaves - 1

Next ==
    \/ \E h \in Hashes : Insert(h)
    \/ Size \/ Query \/ Copy
    \/ \E index \in Indexes : FlushTo(index) \/ RetractTo(index)
    \/ \E first, last \in Indexes : Restore(first, last)

Spec == Init /\ [][Next]_tree

-----------------------------------------------------------------------------
(***************************************************************************)
(* What a tree stands for, and properties.                                 *)
(***************************************************************************)

\* The leaves a hash was computed from.
RECURSIVE HashLeaves(_)
HashLeaves(h) == IF Len(h) = 2 THEN HashLeaves(h[1]) \o HashLeaves(h[2]) ELSE <<h>>

\* The leaves below a node; of a conflated node only the hash knows them.
RECURSIVE NodeLeaves(_, _)
NodeLeaves(m, n) ==
    IF n = Null THEN <<>>
    ELSE IF HasChildren(m, n) THEN NodeLeaves(m, m[n].left) \o NodeLeaves(m, m[n].right)
    ELSE HashLeaves(m[n].hash)

\* The tree with nothing left on the stack.
Complete(t) == IF t.stack = <<>> THEN t ELSE process_insertion_stack(t, TRUE)

Contents(t) ==
    NodeLeaves(Complete(t).mem, Complete(t).root)
    \o [k \in DOMAIN t.uninserted |-> t.mem[t.uninserted[k]].hash]

\* Every node in memory is reached once, from the root or as a leaf that waits:
\* nothing leaks, dangles or is shared.  leaf_nodes points to the tree's own
\* leaves in their order, also after retract_to has moved the last one.
MemoryExact ==
    LET t == Complete(tree)
        reached == Subtree(t.mem, t.root) \o t.uninserted
        leaves == SelectSeq(Subtree(t.mem, t.root), LAMBDA n : t.mem[n].size = 1)
        skip == Len(leaves) - Len(t.leaf_nodes)
    IN  /\ IsInjective(reached) /\ ToSet(reached) = DOMAIN t.mem
        /\ skip = t.num_flushed % 2 /\ t.leaf_nodes = SubSeq(leaves, skip + 1, Len(leaves))

\* The path of every leaf that is not flushed verifies against the root, and
\* that is the root of all leaves inserted, in any order of lazy operations.
PathsVerify ==
    num_leaves(tree) > 0 =>
        LET t == compute_root(tree)
            expected == ReferenceRoot(Contents(tree))
        IN  /\ t.mem[t.root].hash = expected
            /\ \A i \in min_index(t) .. max_index(t) : PathRoot(leaf(t, i), path(t, i)) = expected

\* A past root or path is the one of the tree retracted to that leaf, as the
\* comments of past_root and past_path say.
PastIsRetracted ==
    num_leaves(tree) > 0 =>
        LET t == compute_root(tree)
        IN  \A as_of \in min_index(t) .. max_index(t) :
                LET past == compute_root(retract_to(tree, as_of))
                IN  /\ past_root(t, as_of) = past.mem[past.root].hash
                    /\ \A i \in min_index(t) .. as_of : past_path(t, i, as_of) = path(past, i)

\* A copy stands for the same leaves, and a restored tree for those of its
\* segment, with the same leaves flushed: the hashes on the left edge that a
\* serialised tree carries are those that the leaves written do not determine.
CopiesAgree ==
    num_leaves(tree) > 0 =>
        LET t == compute_root(tree)
        IN  /\ Contents(Copied(tree)) = Contents(tree)
            /\ \A first, last \in min_index(t) .. max_index(t) :
                  first <= last =>
                      LET restored == deserialise(serialise(t, first, last))
                      IN  /\ Contents(restored) = SubSeq(Contents(tree), 1, last + 1)
                          /\ min_index(restored) = first

\* The tree is a sequence of leaves with a flushed front: inserting
\* when it is convenient keeps their order, and flushing loses none.
View == INSTANCE LeafSequence WITH content <- Contents(tree), flushed <- tree.num_flushed

ImplementsLeafSequence == View!Spec

-----------------------------------------------------------------------------

\* The tree with its nodes numbered in the order of Subtree.  Trees that differ
\* only in the addresses of their nodes have the same view, and behave alike:
\* no operation looks at an address.
UpToAddresses ==
    LET Kept(e) == IF e.left THEN tree.mem[e.n].right ELSE tree.mem[e.n].left
        above == [k \in DOMAIN tree.stack |->
                     <<tree.stack[k].n>> \o Subtree(tree.mem, Kept(tree.stack[k]))]
        order == Subtree(tree.mem, tree.root) \o tree.uninserted \o FlattenSeq(above)
        Number(n) == SelectInSeq(order, LAMBDA k : k = n)
        Numbered(s) == [k \in DOMAIN s |-> Number(s[k])]
    IN  <<[k \in DOMAIN order |->
              LET node == tree.mem[order[k]]
              IN  [node EXCEPT !.left = Number(@), !.right = Number(@)]],
          Number(tree.root), Numbered(tree.leaf_nodes), Numbered(tree.uninserted),
          tree.num_flushed, Cardinality(DOMAIN tree.mem),
          [k \in DOMAIN tree.stack |-> [tree.stack[k] EXCEPT !.n = Number(@)]]>>
=============================================================================

---------------------------- MODULE GrowingTree ----------------------------
(***************************************************************************)
(* TreeT of merklecpp.h as far as a registry uses it: leaves are inserted, *)
(* and the root is computed.  The nodes are in memory; leaves wait to be   *)
(* inserted, and an insertion may be left half done on the stack.          *)
(*                                                                         *)
(* A node is known by a number, which stands for its address; new takes a  *)
(* number that is not in use, and delete gives it back.  The hash of a     *)
(* leaf is a sequence of one element, that of an inner node the pair of    *)
(* its children's hashes: the hash function is taken not to collide, and   *)
(* a hash shows what it was computed from.                                 *)
(*                                                                         *)
(* A loop is a function of the number of its rounds.                       *)
(***************************************************************************)
EXTENDS Integers, SequencesExt

CONSTANTS
    Hashes,     \* hashes of leaves, sequences of length 1
    MaxLeaves   \* bound on the leaves of a tree, flushed ones included

ASSUME HashesAssumption == \A h \in Hashes : Len(h) = 1
ASSUME MaxLeavesAssumption == MaxLeaves \in Nat

VARIABLE tree

Null == 0
NoHash == <<>>
NoMemory == [n \in {} |-> NoHash]

HASH_FUNCTION(l, r) == <<l, r>>

-----------------------------------------------------------------------------
(* Nodes.  An operator that changes nodes takes the memory m and returns   *)
(* the memory that results.                                                *)

Fresh(m) == CHOOSE n \in 1 .. Cardinality(DOMAIN m) + 1 : n \notin DOMAIN m

New(m, node) ==
    [n \in DOMAIN m \cup {Fresh(m)} |-> IF n \in DOMAIN m THEN m[n] ELSE node]

LeafNode(h) ==
    [hash |-> h, left |-> Null, right |-> Null, size |-> 1, height |-> 1, dirty |-> FALSE]

HasChildren(m, n) == m[n].left # Null /\ m[n].right # Null

\* The memory with another node at n.
Put(m, n, node) == [x \in DOMAIN m |-> IF x = n THEN node ELSE m[x]]

update_sizes(m, n) ==
    LET l == m[m[n].left]
        r == m[m[n].right]
    IN  Put(m, n, IF HasChildren(m, n)
                  THEN [m[n] EXCEPT !.size = l.size + r.size + 1,
                                    !.height = Max({l.height, r.height}) + 1]
                  ELSE [m[n] EXCEPT !.size = 1, !.height = 1])

\* Node::make(left, right): the new node is Fresh(m).
make(m, l, r) ==
    update_sizes(New(m, [LeafNode(NoHash) EXCEPT !.left = l, !.right = r, !.dirty = TRUE]),
                 Fresh(m))

is_full(m, n) == m[n].size = 2 ^ m[n].height - 1

\* The hashes of a node and of what is dirty below it, which the hashing stack
\* reaches; a node is hashed after its children.
hash(m, n) ==
    LET DirtyChildren(S) ==
            {c \in DOMAIN m : m[c].dirty /\ \E x \in S : c \in {m[x].left, m[x].right}}
        stacked[k \in 1 .. m[n].height] ==
            IF k = 1 THEN {n} ELSE stacked[k - 1] \cup DirtyChildren(stacked[k - 1])
        reached == stacked[m[n].height]
        upTo[height \in 1 .. m[n].height] ==
            IF height = 1 THEN m
            ELSE [x \in DOMAIN m |->
                     IF x \in reached /\ m[x].height = height
                     THEN [m[x] EXCEPT !.hash = HASH_FUNCTION(upTo[height - 1][m[x].left].hash,
                                                              upTo[height - 1][m[x].right].hash),
                                       !.dirty = FALSE]
                     ELSE upTo[height - 1][x]]
    IN  upTo[m[n].height]

-----------------------------------------------------------------------------
(* The tree, as the record of its members.                                 *)

EmptyTree ==
    [mem |-> NoMemory, root |-> Null, leaf_nodes |-> <<>>,
     uninserted |-> <<>>, num_flushed |-> 0, stack |-> <<>>]

num_leaves(t) == t.num_flushed + Len(t.leaf_nodes) + Len(t.uninserted)

\* Mutant of insert: the leaf is put in front of those that wait.
insert_Front(t, h) ==
    [t EXCEPT !.mem = New(t.mem, LeafNode(h)), !.uninserted = <<Fresh(t.mem)>> \o @]

insert(t, h) ==
    [t EXCEPT !.mem = New(t.mem, LeafNode(h)), !.uninserted = Append(@, Fresh(t.mem))]

\* A step down: the root goes on the stack, and the subtree to insert into is
\* the root until the stack is processed.
Descend(t) ==
    LET n == t.root
        left == ~is_full(t.mem, t.mem[n].left)
    IN  [t EXCEPT !.mem = Put(@, n, [t.mem[n] EXCEPT !.dirty = TRUE]),
                  !.stack = Append(@, [n |-> n, left |-> left]),
                  !.root = IF left THEN t.mem[n].left ELSE t.mem[n].right]

\* Down to the node that is to get the new leaf for a sibling.
continue_insertion_stack(t, new_leaf) ==
    LET down[k \in 1 .. t.mem[t.root].height] ==
            IF k = 1 THEN t
            ELSE IF is_full(down[k - 1].mem, down[k - 1].root) THEN down[k - 1]
            ELSE Descend(down[k - 1])
        at == down[t.mem[t.root].height]
    IN  [at EXCEPT !.mem = make(at.mem, at.root, new_leaf),
                   !.stack = Append(@, [n |-> Fresh(at.mem), left |-> FALSE])]

\* A step up: the subtree that is done becomes a child of the node on top.
Ascend(t) ==
    LET n == Last(t.stack).n
        attached == IF Last(t.stack).left
                    THEN [t.mem[n] EXCEPT !.left = t.root, !.dirty = TRUE]
                    ELSE [t.mem[n] EXCEPT !.right = t.root, !.dirty = TRUE]
    IN  [t EXCEPT !.mem = update_sizes(Put(@, n, attached), n), !.stack = Front(@), !.root = n]

\* Unless complete, it ends at the first node that has room, and the nodes above
\* it stay on the stack.
process_insertion_stack(t, complete) ==
    LET n == Last(t.stack).n
        up[k \in 1 .. Len(t.stack)] ==
            IF k = 1 THEN [t EXCEPT !.mem = update_sizes(@, n), !.stack = Front(@), !.root = n]
            ELSE IF k > 2 /\ ~complete /\ ~is_full(up[k - 1].mem, up[k - 1].root) THEN up[k - 1]
            ELSE Ascend(up[k - 1])
    IN  up[Len(t.stack)]

insert_leaf(t, n) ==
    LET added == [t EXCEPT !.leaf_nodes = Append(@, n)]
    IN  IF t.stack = <<>> /\ t.root = Null
        THEN [added EXCEPT !.root = n]
        ELSE process_insertion_stack(continue_insertion_stack(added, n), FALSE)

insert_leaves(t, complete) ==
    LET after[k \in 0 .. Len(t.uninserted)] ==
            IF k = 0 THEN t ELSE insert_leaf(after[k - 1], t.uninserted[k])
        inserted == [after[Len(t.uninserted)] EXCEPT !.uninserted = <<>>]
    IN  IF complete /\ inserted.stack # <<>>
        THEN process_insertion_stack(inserted, TRUE)
        ELSE inserted

compute_root(t) ==
    LET inserted == insert_leaves(t, TRUE)
    IN  IF inserted.mem[inserted.root].dirty
        THEN [inserted EXCEPT !.mem = hash(inserted.mem, inserted.root)]
        ELSE inserted

-----------------------------------------------------------------------------
(* Operations.                                                             *)

Init == tree = EmptyTree

Insert(h) ==
    /\ num_leaves(tree) < MaxLeaves
    /\ tree' = insert(tree, h)

\* size() inserts the leaves, but need not complete the insertion.
Size == tree' = insert_leaves(tree, FALSE)

\* root, past_root, path, past_path, serialise and serialised_size compute the
\* root first and change nothing else.
Query ==
    /\ num_leaves(tree) > 0
    /\ tree' = compute_root(tree)

Grow == Size \/ Query \/ \E h \in Hashes : Insert(h)

\* A tree that only grows, as those of a registry do.
Growing == Init /\ [][Grow]_tree

-----------------------------------------------------------------------------
(***************************************************************************)
(* What a growing tree stands for, and properties.                         *)
(***************************************************************************)

\* The hashes inserted, in their order.
LeafHashes(t) ==
    [k \in DOMAIN (t.leaf_nodes \o t.uninserted) |->
        t.mem[(t.leaf_nodes \o t.uninserted)[k]].hash]

\* How many of n > 1 leaves are below the left child of their root: the largest
\* power of two that leaves something for the right.
LeftLeaves(n) ==
    CHOOSE k \in 1 .. n - 1 : n <= 2 * k /\ \E e \in 0 .. n : k = 2 ^ e

\* The root of a sequence of leaves: root[n][first] is that of the n from first on.
ReferenceRoot(s) ==
    LET root[n \in 1 .. Len(s)] ==
            [first \in 1 .. Len(s) - n + 1 |->
                IF n = 1 THEN s[first]
                ELSE HASH_FUNCTION(root[LeftLeaves(n)][first],
                                   root[n - LeftLeaves(n)][first + LeftLeaves(n)])]
    IN  root[Len(s)][1]

TypeOK ==
    /\ DOMAIN tree.mem \subseteq 1 .. 2 * MaxLeaves
    /\ \A n \in DOMAIN tree.mem :
          /\ tree.mem[n].left \in DOMAIN tree.mem \cup {Null}
          /\ tree.mem[n].right \in DOMAIN tree.mem \cup {Null}
          /\ tree.mem[n].dirty \in BOOLEAN
    /\ tree.root \in DOMAIN tree.mem \cup {Null}
    /\ ToSet(tree.leaf_nodes) \cup ToSet(tree.uninserted) \subseteq DOMAIN tree.mem
    /\ num_leaves(tree) <= MaxLeaves

\* The invariant the code asserts of every node, and the height that walk_to
\* and is_full go by: no sequence of inserting, flushing, retracting, copying
\* and restoring leaves a stale size or height behind.
NodeInvariant ==
    \A n \in DOMAIN tree.mem :
        LET node == tree.mem[n]
            updated == update_sizes(tree.mem, n)[n]
        IN  /\ node.left = Null <=> node.right = Null
            /\ node.size < 2 ^ node.height
            /\ HasChildren(tree.mem, n) /\ tree.stack = <<>> =>
                 node.size = updated.size /\ node.height = updated.height

\* A node that is not dirty has the hash of its children, and they are not dirty
\* either: hash may stop at it, whatever was retracted and inserted since.
CleanIsCurrent ==
    \A n \in DOMAIN tree.mem :
        ~tree.mem[n].dirty /\ HasChildren(tree.mem, n) =>
            LET l == tree.mem[tree.mem[n].left]
                r == tree.mem[tree.mem[n].right]
            IN  ~l.dirty /\ ~r.dirty /\ tree.mem[n].hash = HASH_FUNCTION(l.hash, r.hash)

\* The root that is computed is that of all leaves inserted, in their order,
\* whatever was inserted, and how far, by the operations before.
RootIsReference ==
    num_leaves(tree) > 0 =>
        LET t == compute_root(tree)
        IN  t.mem[t.root].hash = ReferenceRoot(LeafHashes(tree))

\* A growing tree is the sequence of the leaves inserted.
Sequence == INSTANCE LeafSequence WITH content <- LeafHashes(tree), flushed <- 0

ImplementsGrowingSequence == Sequence!Spec
=============================================================================

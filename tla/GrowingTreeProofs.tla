-------------------------- MODULE GrowingTreeProofs --------------------------
(***************************************************************************)
(* Theorems about GrowingTree, for every set of hashes and every number of *)
(* leaves: nodes are consistent, the root is that of the leaves in their   *)
(* order, and the tree is a sequence of leaves.                            *)
(*                                                                         *)
(* Between two operations a tree may be in parts: the nodes on the         *)
(* insertion stack wait for their right subtree.  Shape says what is true  *)
(* of such a tree, with the position of the first leaf below each node for *)
(* a witness: a left subtree is full and no lower than the right one, a    *)
(* node is the child of one node, what is not dirty has the hashes of its  *)
(* children, and the leaves below a node are consecutive.  It is shown for *)
(* each step down, for the node that takes in the new leaf and for each    *)
(* step up, and then for the loops, by induction on their rounds, whose    *)
(* functions are shown to exist first.  Resumable is what lets a later     *)
(* operation take up an insertion that was left half done.  That a clean   *)
(* root has the hash of the reference follows by induction on the height   *)
(* of its nodes.                                                           *)
(***************************************************************************)
EXTENDS GrowingTree, SequenceLemmas

-----------------------------------------------------------------------------
(* Powers of two, and new nodes.                                           *)

LEMMA PowerDoubles ==
    ASSUME NEW k \in Nat
    PROVE  2 ^ (k + 1) = 2 * 2 ^ k /\ 2 ^ k \in Nat
<1> DEFINE A == 1 .. k
           B == {S \cup {k + 1} : S \in SUBSET A}
<1>1. /\ IsFiniteSet(1 .. k) /\ Cardinality(1 .. k) = k
      /\ IsFiniteSet(1 .. k + 1) /\ Cardinality(1 .. k + 1) = k + 1
  <2>1. 1 \in Int /\ k \in Int /\ k + 1 \in Int
    OBVIOUS
  <2> QED
    BY <2>1, FS_Interval
<1>2. IsFiniteSet(SUBSET A) /\ Cardinality(SUBSET A) = 2 ^ k
  BY <1>1, FS_SUBSET
<1>3. Cardinality(SUBSET (1 .. k + 1)) = 2 ^ (k + 1)
  BY <1>1, FS_SUBSET
<1>4. SUBSET (1 .. k + 1) = (SUBSET A) \cup B
  <2>1. ASSUME NEW S \in SUBSET (1 .. k + 1) PROVE S \in (SUBSET A) \cup B
    <3>1. CASE k + 1 \in S
      <4>1. S \ {k + 1} \in SUBSET A /\ S = (S \ {k + 1}) \cup {k + 1}
        BY <3>1
      <4> QED
        BY <4>1
    <3>2. CASE k + 1 \notin S
      BY <3>2
    <3> QED
      BY <3>1, <3>2
  <2>2. ASSUME NEW S \in (SUBSET A) \cup B PROVE S \in SUBSET (1 .. k + 1)
    OBVIOUS
  <2> QED
    BY <2>1, <2>2
<1>5. (SUBSET A) \cap B = {}
  OBVIOUS
<1>6. IsFiniteSet(B) /\ Cardinality(B) = Cardinality(SUBSET A)
  <2> DEFINE f == [S \in SUBSET A |-> S \cup {k + 1}]
  <2>1. f \in Bijection(SUBSET A, B)
    <3>1. f \in [SUBSET A -> B]
      OBVIOUS
    <3>2. \A S, R \in SUBSET A : f[S] = f[R] => S = R
      <4> TAKE S, R \in SUBSET A
      <4> HAVE f[S] = f[R]
      <4>1. S \cup {k + 1} = R \cup {k + 1} /\ k + 1 \notin S /\ k + 1 \notin R
        OBVIOUS
      <4> QED
        BY <4>1
    <3>3. \A b \in B : \E S \in SUBSET A : f[S] = b
      OBVIOUS
    <3> HIDE DEF B, f
    <3>4. f \in Injection(SUBSET A, B)
      BY <3>1, <3>2 DEF Injection, IsInjective
    <3>5. f \in Surjection(SUBSET A, B)
      BY <3>1, <3>3 DEF Surjection
    <3> QED
      BY <3>4, <3>5 DEF Bijection
  <2>2. ExistsBijection(SUBSET A, B)
    BY <2>1 DEF ExistsBijection
  <2> HIDE DEF B
  <2> QED
    BY <1>2, <2>2, FS_Bijection
<1> HIDE DEF A, B
<1>7. Cardinality((SUBSET A) \cup B) = Cardinality(SUBSET A) + Cardinality(B)
  <2>1. Cardinality((SUBSET A) \cap B) = 0
    BY <1>5, FS_EmptySet
  <2>2. Cardinality((SUBSET A) \cup B) = Cardinality(SUBSET A) + Cardinality(B) - Cardinality((SUBSET A) \cap B)
    BY <1>2, <1>6, FS_Union
  <2> QED
    BY <1>2, <1>6, <2>1, <2>2, FS_CardinalityType
<1>8. 2 ^ k \in Nat
  BY <1>2, FS_CardinalityType
<1>9. 2 ^ (k + 1) = 2 ^ k + 2 ^ k
  BY <1>2, <1>3, <1>4, <1>6, <1>7
<1> QED
  BY <1>8, <1>9

LEMMA PowerGrows ==
    ASSUME NEW k \in Nat
    PROVE  2 ^ k \in Nat /\ k < 2 ^ k
<1> DEFINE T == {j \in Nat : j < 2 ^ j}
<1>1. 0 \in T
  OBVIOUS
<1>2. ASSUME NEW j \in Nat, j \in T PROVE j + 1 \in T
  <2>1. 2 ^ (j + 1) = 2 * 2 ^ j /\ 2 ^ j \in Nat /\ j < 2 ^ j
    BY <1>2, PowerDoubles
  <2> DEFINE p == 2 ^ j
             q == 2 ^ (j + 1)
  <2>2. j + 1 < q
    <3>1. q = 2 * p /\ p \in Nat /\ j < p
      BY <2>1
    <3> HIDE DEF p, q
    <3> QED
      BY <3>1
  <2> QED
    BY <2>2
<1>3. \A j \in Nat : j \in T
  <2> HIDE DEF T
  <2> QED
    BY <1>1, <1>2, SetInduction
<1> QED
  BY <1>3, PowerDoubles

LEMMA PowerMonotonic ==
    ASSUME NEW j \in Nat, NEW k \in Nat, j < k
    PROVE  2 * 2 ^ j <= 2 ^ k
<1> DEFINE T == {d \in Nat : 2 * 2 ^ j <= 2 ^ ((j + 1) + d)}
<1>1. 0 \in T
  <2>1. (j + 1) + 0 = j + 1
    OBVIOUS
  <2> QED
    BY <2>1, PowerDoubles
<1>2. ASSUME NEW d \in Nat, d \in T PROVE d + 1 \in T
  <2>1. (j + 1) + (d + 1) = ((j + 1) + d) + 1 /\ (j + 1) + d \in Nat
    OBVIOUS
  <2> DEFINE p == 2 ^ j
             q == 2 ^ ((j + 1) + d)
             r == 2 ^ ((j + 1) + (d + 1))
  <2>2. r = 2 * q /\ q \in Nat
    BY <2>1, PowerDoubles
  <2>3. p \in Nat /\ 2 * p <= q
    BY <1>2, PowerDoubles
  <2>4. 2 * p <= r
    <3> HIDE DEF p, q, r
    <3> QED
      BY <2>2, <2>3
  <2> QED
    BY <2>4
<1>3. \A d \in Nat : d \in T
  <2> HIDE DEF T
  <2> QED
    BY <1>1, <1>2, SetInduction
<1>4. k - (j + 1) \in Nat /\ (j + 1) + (k - (j + 1)) = k
  OBVIOUS
<1> QED
  BY <1>3, <1>4

LEMMA MaxOfTwo ==
    ASSUME NEW a \in Int, NEW b \in Int, b <= a
    PROVE  Max({a, b}) = a
BY DEF Max

LEMMA NewNode ==
    ASSUME NEW m, NEW node
    PROVE  /\ DOMAIN New(m, node) = DOMAIN m \cup {Fresh(m)}
           /\ \A x \in DOMAIN m : New(m, node)[x] = m[x]
           /\ Fresh(m) \notin DOMAIN m => New(m, node)[Fresh(m)] = node
BY DEF New

\* The first powers, of a number that is only known to be equal to the exponent.
LEMMA PowerZero ==
    ASSUME NEW k, k = 0
    PROVE  2 ^ k = 1
<1>1. IsFiniteSet({}) /\ Cardinality({}) = k
  BY FS_EmptySet
<1>2. Cardinality(SUBSET {}) = 2 ^ Cardinality({})
  BY <1>1, FS_SUBSET
<1>3. SUBSET {} = {{}}
  OBVIOUS
<1>4. Cardinality({{}}) = 1
  BY FS_Singleton
<1> QED
  BY <1>1, <1>2, <1>3, <1>4

LEMMA PowerOne ==
    ASSUME NEW k, k = 1
    PROVE  2 ^ k = 2
<1>1. \E j \in Nat : j = 0 /\ k = j + 1
  OBVIOUS
<1>2. PICK j \in Nat : j = 0 /\ k = j + 1
  BY <1>1
<1>3. 2 ^ j = 1
  BY <1>2, PowerZero
<1>4. 2 ^ (j + 1) = 2 * 2 ^ j
  BY PowerDoubles
<1>5. 2 ^ k = 2 * 2 ^ j
  BY <1>2, <1>4
<1> QED
  BY <1>3, <1>5

-----------------------------------------------------------------------------
(* The shape of a tree.  An insertion takes a tree apart: the nodes on the *)
(* stack wait for their right subtree, and root is the subtree that is in  *)
(* hand.  t is a tree with first[x] the position of the first leaf below   *)
(* the node x in all, the sequence of all leaves, of which k are in it.    *)

Fields == {"hash", "left", "right", "size", "height", "dirty"}
Members == {"mem", "root", "leaf_nodes", "uninserted", "num_flushed", "stack"}

Stacked(t) == {t.stack[j].n : j \in 1 .. Len(t.stack)}

\* What the node number j on the stack waits for.
Below(t, j) == IF j = Len(t.stack) THEN t.root ELSE t.stack[j + 1].n

Waiting(all, k) == {all[i] : i \in k + 1 .. Len(all)}

\* The nodes that are nobody's child.
Tops(t, all, k) == {t.root} \cup Stacked(t) \cup Waiting(all, k)

NodesTyped(m) ==
    \A x \in DOMAIN m :
        /\ DOMAIN m[x] = Fields
        /\ m[x].left \in DOMAIN m \cup {Null}
        /\ m[x].right \in DOMAIN m \cup {Null}
        /\ m[x].left = Null <=> m[x].right = Null
        /\ m[x].size \in Nat \ {0}
        /\ m[x].height \in Nat \ {0}
        /\ m[x].dirty \in BOOLEAN
        /\ m[x].size < 2 ^ m[x].height
        /\ m[x].left = Null => m[x].size = 1 /\ m[x].height = 1 /\ ~m[x].dirty

\* A left subtree is full, and not lower than the right one.
Balanced(t) ==
    \A x \in DOMAIN t.mem :
        t.mem[x].left # Null =>
            /\ is_full(t.mem, t.mem[x].left)
            /\ t.mem[x].height = t.mem[t.mem[x].left].height + 1
            /\ x \notin Stacked(t) =>
                  /\ t.mem[t.mem[x].right].height <= t.mem[t.mem[x].left].height
                  /\ t.mem[x].size = t.mem[t.mem[x].left].size + t.mem[t.mem[x].right].size + 1

Current(m) ==
    \A x \in DOMAIN m :
        m[x].left # Null /\ ~m[x].dirty =>
            /\ ~m[m[x].left].dirty /\ ~m[m[x].right].dirty
            /\ m[x].hash = HASH_FUNCTION(m[m[x].left].hash, m[m[x].right].hash)

\* A node is the child of one node, whose right child does not count while that
\* waits on the stack.
Owned(t, all, k) ==
    \A x \in DOMAIN t.mem :
        t.mem[x].left # Null =>
            /\ t.mem[x].left \notin Tops(t, all, k)
            /\ x \notin Stacked(t) => t.mem[x].right \notin Tops(t, all, k)
            /\ \A y \in DOMAIN t.mem :
                  t.mem[y].left # Null =>
                      /\ t.mem[x].left = t.mem[y].left => x = y
                      /\ x \notin Stacked(t) => t.mem[x].right # t.mem[y].left
                      /\ x \notin Stacked(t) /\ y \notin Stacked(t) /\ t.mem[x].right = t.mem[y].right
                            => x = y

OnStack(t) ==
    /\ t.stack \in Seq([n : Nat, left : {FALSE}])
    /\ \A j \in 1 .. Len(t.stack) :
          LET n == t.stack[j].n
          IN  /\ n \in DOMAIN t.mem /\ t.mem[n].left # Null /\ t.mem[n].dirty
              /\ n # t.root
              /\ \A i \in 1 .. Len(t.stack) : t.stack[i].n = n => i = j
              /\ j < Len(t.stack) => t.mem[n].right = t.stack[j + 1].n
              /\ t.mem[Below(t, j)].height <= t.mem[t.mem[n].left].height

Positions(t, first, all, k) ==
    /\ \A x \in DOMAIN t.mem :
          /\ first[x] \in Nat \ {0}
          /\ t.mem[x].left # Null =>
                /\ first[t.mem[x].left] = first[x]
                /\ x \notin Stacked(t) =>
                      2 * first[t.mem[x].right] = 2 * first[x] + t.mem[t.mem[x].left].size + 1
          /\ t.mem[x].left = Null => first[x] \in 1 .. Len(all) /\ all[first[x]] = x
    /\ \A j \in 1 .. Len(t.stack) :
          2 * first[Below(t, j)] =
              2 * first[t.stack[j].n] + t.mem[t.mem[t.stack[j].n].left].size + 1
    /\ \A i \in 1 .. Len(all) :
          all[i] \in DOMAIN t.mem /\ t.mem[all[i]].left = Null /\ first[all[i]] = i

\* All k leaves are below the first node of the stack, or the root.
Whole(t, first, k) ==
    IF k = 0
    THEN t.root = Null /\ t.stack = <<>>
    ELSE /\ t.root \in DOMAIN t.mem
         /\ 2 * first[t.root] + t.mem[t.root].size = 2 * k + 1
         /\ first[Below(t, 0)] = 1

Memory(t, all, k) ==
    /\ DOMAIN t = Members
    /\ DOMAIN t.mem = 1 .. (IF k = 0 THEN Len(all) ELSE Len(all) + k - 1)
    /\ k \in 0 .. Len(all)
    /\ all \in Seq(Nat)

Shape(t, first, all, k) ==
    /\ Memory(t, all, k)
    /\ NodesTyped(t.mem)
    /\ Balanced(t)
    /\ Current(t.mem)
    /\ Owned(t, all, k)
    /\ OnStack(t)
    /\ Positions(t, first, all, k)
    /\ Whole(t, first, k)

\* The node on top of the stack still has the root for its right child.
Joined(t) == t.stack # <<>> => t.mem[Last(t.stack).n].right = t.root

\* A full root is lower than its sibling, which leaves room above it.
Roomy(t) ==
    t.stack # <<>> /\ is_full(t.mem, t.root) =>
        t.mem[t.root].height < t.mem[t.mem[Last(t.stack).n].left].height

\* An insertion that was left half done can be taken up again.
Resumable(t) ==
    /\ Joined(t)
    /\ t.stack # <<>> => ~is_full(t.mem, t.root)

-----------------------------------------------------------------------------
(* A step down.                                                            *)

\* A subtree that is not full has children, and room on the right.
LEMMA NotFull ==
    ASSUME NEW t, NodesTyped(t.mem), NEW n \in DOMAIN t.mem, ~is_full(t.mem, n)
    PROVE  t.mem[n].left # Null /\ t.mem[n].left \in DOMAIN t.mem /\ t.mem[n].right \in DOMAIN t.mem
<1>1. t.mem[n].left = Null => is_full(t.mem, n)
  <2> HAVE t.mem[n].left = Null
  <2>1. t.mem[n].size = 1 /\ t.mem[n].height = 1
    BY DEF NodesTyped
  <2>2. 2 ^ t.mem[n].height = 2
    BY <2>1, PowerOne
  <2> QED
    BY <2>1, <2>2 DEF is_full
<1> QED
  BY <1>1 DEF NodesTyped

\* What Descend does, member by member.
LEMMA DescendEffect ==
    ASSUME NEW t, NEW first, NEW all, NEW k, Shape(t, first, all, k), k # 0,
           ~is_full(t.mem, t.root), NEW r, r = Descend(t)
    PROVE  /\ DOMAIN r = Members
           /\ r.root = t.mem[t.root].right
           /\ r.leaf_nodes = t.leaf_nodes /\ r.uninserted = t.uninserted
           /\ r.num_flushed = t.num_flushed
           /\ r.stack = Append(t.stack, [n |-> t.root, left |-> FALSE])
           /\ DOMAIN r.mem = DOMAIN t.mem
           /\ \A x \in DOMAIN t.mem :
                 /\ DOMAIN r.mem[x] = Fields
                 /\ r.mem[x].hash = t.mem[x].hash
                 /\ r.mem[x].left = t.mem[x].left /\ r.mem[x].right = t.mem[x].right
                 /\ r.mem[x].size = t.mem[x].size /\ r.mem[x].height = t.mem[x].height
                 /\ r.mem[x].dirty = (x = t.root \/ t.mem[x].dirty)
<1>1. /\ DOMAIN t = Members /\ NodesTyped(t.mem)
      /\ t.root \in DOMAIN t.mem
  BY DEF Shape, Memory, Whole
<1>2. t.mem[t.root].left # Null
  BY <1>1, NotFull
<1>3. is_full(t.mem, t.mem[t.root].left)
  BY <1>1, <1>2 DEF Shape, Balanced
<1> DEFINE n == t.root
           node == [t.mem[n] EXCEPT !.dirty = TRUE]
<1>4. r = [t EXCEPT !.mem = Put(t.mem, n, node),
                    !.stack = Append(t.stack, [n |-> n, left |-> FALSE]),
                    !.root = t.mem[n].right]
  <2>1. ~ (~ is_full(t.mem, t.mem[t.root].left))
    BY <1>3
  <2>2. (~ is_full(t.mem, t.mem[t.root].left)) = FALSE
    BY <2>1
  <2> QED
    BY <1>3, <2>2 DEF Descend
<1>5. /\ DOMAIN r = Members
      /\ r.root = t.mem[n].right /\ r.mem = Put(t.mem, n, node)
      /\ r.leaf_nodes = t.leaf_nodes /\ r.uninserted = t.uninserted
      /\ r.num_flushed = t.num_flushed
      /\ r.stack = Append(t.stack, [n |-> n, left |-> FALSE])
  BY <1>1, <1>4 DEF Members
<1>6. /\ DOMAIN node = Fields /\ node.hash = t.mem[n].hash
      /\ node.left = t.mem[n].left /\ node.right = t.mem[n].right
      /\ node.size = t.mem[n].size /\ node.height = t.mem[n].height /\ node.dirty = TRUE
  BY <1>1 DEF NodesTyped, Fields
<1> HIDE DEF node
<1>7. DOMAIN r.mem = DOMAIN t.mem /\ \A x \in DOMAIN t.mem : r.mem[x] = IF x = n THEN node ELSE t.mem[x]
  BY <1>5 DEF Put
<1>8. \A x \in DOMAIN t.mem :
        /\ DOMAIN r.mem[x] = Fields
        /\ r.mem[x].hash = t.mem[x].hash
        /\ r.mem[x].left = t.mem[x].left /\ r.mem[x].right = t.mem[x].right
        /\ r.mem[x].size = t.mem[x].size /\ r.mem[x].height = t.mem[x].height
        /\ r.mem[x].dirty = (x = t.root \/ t.mem[x].dirty)
  <2> TAKE x \in DOMAIN t.mem
  <2>1. CASE x = n
    BY <1>1, <1>6, <1>7, <2>1
  <2>2. CASE x # n
    <3>1. r.mem[x] = t.mem[x] /\ DOMAIN t.mem[x] = Fields /\ t.mem[x].dirty \in BOOLEAN
      BY <1>1, <1>7, <2>2 DEF NodesTyped
    <3> QED
      BY <2>2, <3>1
  <2> QED
    BY <2>1, <2>2
<1> QED
  BY <1>5, <1>7, <1>8

\* Whatever else a step does, it keeps the powers of two out of the way.
LEMMA FullLeft ==
    ASSUME NEW t, NodesTyped(t.mem), Balanced(t), NEW x \in DOMAIN t.mem,
           t.mem[x].left # Null
    PROVE  /\ t.mem[x].left \in DOMAIN t.mem /\ t.mem[x].right \in DOMAIN t.mem
           /\ t.mem[x].height = t.mem[t.mem[x].left].height + 1
           /\ t.mem[t.mem[x].left].size + 1 = 2 ^ t.mem[t.mem[x].left].height
           /\ 2 ^ t.mem[x].height = 2 * 2 ^ t.mem[t.mem[x].left].height
           /\ 2 ^ t.mem[t.mem[x].left].height \in Nat
<1>1. /\ t.mem[x].left \in DOMAIN t.mem /\ t.mem[x].right \in DOMAIN t.mem
      /\ t.mem[t.mem[x].left].height \in Nat /\ t.mem[t.mem[x].left].size \in Nat
  BY DEF NodesTyped
<1>2. /\ is_full(t.mem, t.mem[x].left)
      /\ t.mem[x].height = t.mem[t.mem[x].left].height + 1
  BY DEF Balanced
<1>3. /\ 2 ^ (t.mem[t.mem[x].left].height + 1) = 2 * 2 ^ t.mem[t.mem[x].left].height
      /\ 2 ^ t.mem[t.mem[x].left].height \in Nat
  BY <1>1, PowerDoubles
<1>4. t.mem[t.mem[x].left].size = 2 ^ t.mem[t.mem[x].left].height - 1
  BY <1>2 DEF is_full
<1>5. t.mem[t.mem[x].left].size + 1 = 2 ^ t.mem[t.mem[x].left].height
  <2> DEFINE p == 2 ^ t.mem[t.mem[x].left].height
             s == t.mem[t.mem[x].left].size
  <2>1. s = p - 1 /\ p \in Nat
    BY <1>3, <1>4
  <2>2. s + 1 = p
    <3> HIDE DEF p, s
    <3> QED
      BY <2>1
  <2> QED
    BY <2>2
<1> QED
  BY <1>1, <1>2, <1>3, <1>5

LEMMA ShapeDescend ==
    ASSUME NEW t, NEW first, NEW all, NEW k, Shape(t, first, all, k), k # 0,
           ~is_full(t.mem, t.root), Joined(t)
    PROVE  /\ Shape(Descend(t), first, all, k)
           /\ Joined(Descend(t)) /\ Roomy(Descend(t))
           /\ Descend(t).mem[Descend(t).root].height < t.mem[t.root].height
           /\ DOMAIN Descend(t).mem = DOMAIN t.mem
           /\ Descend(t).leaf_nodes = t.leaf_nodes /\ Descend(t).uninserted = t.uninserted
           /\ Descend(t).num_flushed = t.num_flushed
           /\ \A x \in DOMAIN t.mem : Descend(t).mem[x].hash = t.mem[x].hash
<1> DEFINE r == Descend(t)
<1>1. /\ Memory(t, all, k) /\ NodesTyped(t.mem) /\ Balanced(t) /\ Current(t.mem)
      /\ Owned(t, all, k) /\ OnStack(t) /\ Positions(t, first, all, k) /\ Whole(t, first, k)
  BY DEF Shape
<1>2. /\ DOMAIN r = Members
      /\ r.root = t.mem[t.root].right
      /\ r.leaf_nodes = t.leaf_nodes /\ r.uninserted = t.uninserted
      /\ r.num_flushed = t.num_flushed
      /\ r.stack = Append(t.stack, [n |-> t.root, left |-> FALSE])
      /\ DOMAIN r.mem = DOMAIN t.mem
      /\ \A x \in DOMAIN t.mem :
            /\ DOMAIN r.mem[x] = Fields
            /\ r.mem[x].hash = t.mem[x].hash
            /\ r.mem[x].left = t.mem[x].left /\ r.mem[x].right = t.mem[x].right
            /\ r.mem[x].size = t.mem[x].size /\ r.mem[x].height = t.mem[x].height
            /\ r.mem[x].dirty = (x = t.root \/ t.mem[x].dirty)
  BY DescendEffect
<1> HIDE DEF r
<1>3. /\ t.root \in DOMAIN t.mem /\ t.mem[t.root].left # Null
      /\ t.mem[t.root].left \in DOMAIN t.mem /\ t.mem[t.root].right \in DOMAIN t.mem
  BY <1>1, NotFull DEF Whole
<1>a. Null \notin DOMAIN t.mem /\ DOMAIN t.mem \subseteq Nat
  BY <1>1 DEF Memory, Null
<1>4. t.stack \in Seq([n : Nat, left : {FALSE}]) /\ Len(t.stack) \in Nat
  BY <1>1 DEF OnStack
<1>5. /\ Len(r.stack) = Len(t.stack) + 1
      /\ \A j \in 1 .. Len(t.stack) : r.stack[j] = t.stack[j]
      /\ r.stack[Len(t.stack) + 1] = [n |-> t.root, left |-> FALSE]
      /\ r.stack \in Seq([n : Nat, left : {FALSE}])
  <2>1. [n |-> t.root, left |-> FALSE] \in [n : Nat, left : {FALSE}]
    BY <1>3, <1>a
  <2> HIDE DEF r
  <2> QED
    BY <1>2, <1>4, <2>1, AppendProperties
<1>6. Stacked(r) = Stacked(t) \cup {t.root}
  <2>1. ASSUME NEW x \in Stacked(r) PROVE x \in Stacked(t) \cup {t.root}
    <3>1. PICK j \in 1 .. Len(r.stack) : x = r.stack[j].n
      BY <2>1 DEF Stacked
    <3>2. CASE j = Len(t.stack) + 1
      BY <1>5, <3>1, <3>2
    <3>3. CASE j # Len(t.stack) + 1
      <4>1. j \in 1 .. Len(t.stack) /\ x = t.stack[j].n
        BY <1>4, <1>5, <3>1, <3>3
      <4> QED
        BY <4>1 DEF Stacked
    <3> QED
      BY <3>2, <3>3
  <2>2. ASSUME NEW x \in Stacked(t) PROVE x \in Stacked(r)
    <3>1. PICK j \in 1 .. Len(t.stack) : x = t.stack[j].n
      BY <2>2 DEF Stacked
    <3>2. j \in 1 .. Len(r.stack) /\ r.stack[j] = t.stack[j]
      BY <1>4, <1>5
    <3> QED
      BY <3>1, <3>2 DEF Stacked
  <2>3. t.root \in Stacked(r)
    <3>1. Len(t.stack) + 1 \in 1 .. Len(r.stack) /\ r.stack[Len(t.stack) + 1].n = t.root
      BY <1>4, <1>5
    <3> QED
      BY <3>1 DEF Stacked
  <2> QED
    BY <2>1, <2>2, <2>3
<1>7. t.root \notin Stacked(t)
  BY <1>1 DEF OnStack, Stacked
<1>8. \A j \in 0 .. Len(t.stack) : Below(r, j) = Below(t, j)
  <2> TAKE j \in 0 .. Len(t.stack)
  <2>1. CASE j = Len(t.stack)
    <3>1. j # Len(r.stack) /\ r.stack[j + 1].n = t.root
      BY <1>4, <1>5, <2>1
    <3> QED
      BY <2>1, <3>1 DEF Below
  <2>2. CASE j # Len(t.stack)
    <3>1. j # Len(r.stack) /\ j + 1 \in 1 .. Len(t.stack)
      BY <1>4, <1>5, <2>2
    <3> QED
      BY <1>5, <2>2, <3>1 DEF Below
  <2> QED
    BY <2>1, <2>2
<1>9. Below(r, Len(t.stack) + 1) = r.root
  BY <1>5 DEF Below
<1>10. Memory(r, all, k)
  BY <1>1, <1>2 DEF Memory
<1>11. NodesTyped(r.mem)
  <2> SUFFICES ASSUME NEW x \in DOMAIN t.mem
               PROVE  /\ DOMAIN r.mem[x] = Fields
                      /\ r.mem[x].left \in DOMAIN t.mem \cup {Null}
                      /\ r.mem[x].right \in DOMAIN t.mem \cup {Null}
                      /\ r.mem[x].left = Null <=> r.mem[x].right = Null
                      /\ r.mem[x].size \in Nat \ {0}
                      /\ r.mem[x].height \in Nat \ {0}
                      /\ r.mem[x].dirty \in BOOLEAN
                      /\ r.mem[x].size < 2 ^ r.mem[x].height
                      /\ r.mem[x].left = Null => r.mem[x].size = 1 /\ r.mem[x].height = 1 /\ ~r.mem[x].dirty
    BY <1>2 DEF NodesTyped
  <2>1. /\ t.mem[x].left \in DOMAIN t.mem \cup {Null}
        /\ t.mem[x].right \in DOMAIN t.mem \cup {Null}
        /\ t.mem[x].left = Null <=> t.mem[x].right = Null
        /\ t.mem[x].size \in Nat \ {0}
        /\ t.mem[x].height \in Nat \ {0}
        /\ t.mem[x].dirty \in BOOLEAN
        /\ t.mem[x].size < 2 ^ t.mem[x].height
        /\ t.mem[x].left = Null => t.mem[x].size = 1 /\ t.mem[x].height = 1 /\ ~t.mem[x].dirty
    BY <1>1 DEF NodesTyped
  <2>2. t.mem[x].left = Null => x # t.root
    BY <1>3
  <2> QED
    BY <1>2, <2>1, <2>2
<1>12. Balanced(r)
  <2> SUFFICES ASSUME NEW x \in DOMAIN t.mem, t.mem[x].left # Null
               PROVE  /\ is_full(r.mem, t.mem[x].left)
                      /\ r.mem[x].height = r.mem[t.mem[x].left].height + 1
                      /\ x \notin Stacked(r) =>
                            /\ r.mem[t.mem[x].right].height <= r.mem[t.mem[x].left].height
                            /\ r.mem[x].size = r.mem[t.mem[x].left].size + r.mem[t.mem[x].right].size + 1
    BY <1>2 DEF Balanced
  <2>1. t.mem[x].left \in DOMAIN t.mem /\ t.mem[x].right \in DOMAIN t.mem
    BY <1>1 DEF NodesTyped
  <2> QED
    BY <1>1, <1>2, <1>6, <2>1 DEF Balanced, is_full
<1>13. Current(r.mem)
  <2> SUFFICES ASSUME NEW x \in DOMAIN t.mem, t.mem[x].left # Null, ~r.mem[x].dirty
               PROVE  /\ ~r.mem[t.mem[x].left].dirty /\ ~r.mem[t.mem[x].right].dirty
                      /\ r.mem[x].hash = HASH_FUNCTION(r.mem[t.mem[x].left].hash, r.mem[t.mem[x].right].hash)
    BY <1>2 DEF Current
  <2>1. t.mem[x].left \in DOMAIN t.mem /\ t.mem[x].right \in DOMAIN t.mem
    BY <1>1 DEF NodesTyped
  <2>2. x # t.root /\ ~t.mem[x].dirty
    BY <1>2
  <2>3. x \notin Stacked(t)
    BY <1>1, <2>2 DEF OnStack, Stacked
  <2>4. t.mem[x].left # t.root /\ t.mem[x].right # t.root
    BY <1>1, <2>3 DEF Owned, Tops
  <2>5. /\ ~t.mem[t.mem[x].left].dirty /\ ~t.mem[t.mem[x].right].dirty
        /\ t.mem[x].hash = HASH_FUNCTION(t.mem[t.mem[x].left].hash, t.mem[t.mem[x].right].hash)
    BY <1>1, <2>2 DEF Current
  <2> QED
    BY <1>2, <2>1, <2>4, <2>5
<1>14. Owned(r, all, k)
  <2>1. Tops(r, all, k) = {t.mem[t.root].right} \cup Tops(t, all, k)
    BY <1>2, <1>6 DEF Tops
  <2> SUFFICES ASSUME NEW x \in DOMAIN t.mem, t.mem[x].left # Null
               PROVE  /\ t.mem[x].left \notin Tops(r, all, k)
                      /\ x \notin Stacked(r) => t.mem[x].right \notin Tops(r, all, k)
                      /\ \A y \in DOMAIN t.mem :
                            t.mem[y].left # Null =>
                               /\ t.mem[x].left = t.mem[y].left => x = y
                               /\ x \notin Stacked(r) => t.mem[x].right # t.mem[y].left
                               /\ x \notin Stacked(r) /\ y \notin Stacked(r) /\ t.mem[x].right = t.mem[y].right
                                     => x = y
    BY <1>2 DEF Owned
  <2>2. t.mem[x].left # t.mem[t.root].right
    BY <1>1, <1>3, <1>7 DEF Owned
  <2>3. x \notin Stacked(r) => t.mem[x].right # t.mem[t.root].right
    BY <1>1, <1>3, <1>6, <1>7 DEF Owned
  <2> QED
    BY <1>1, <1>6, <2>1, <2>2, <2>3 DEF Owned
<1>15. OnStack(r)
  <2> SUFFICES ASSUME NEW j \in 1 .. Len(r.stack)
               PROVE  /\ r.stack[j].n \in DOMAIN t.mem /\ t.mem[r.stack[j].n].left # Null
                      /\ r.mem[r.stack[j].n].dirty
                      /\ r.stack[j].n # r.root
                      /\ \A i \in 1 .. Len(r.stack) : r.stack[i].n = r.stack[j].n => i = j
                      /\ j < Len(r.stack) => t.mem[r.stack[j].n].right = r.stack[j + 1].n
                      /\ r.mem[Below(r, j)].height <= t.mem[t.mem[r.stack[j].n].left].height
    <3>1. \A x \in DOMAIN t.mem : t.mem[x].left # Null =>
             /\ x \in DOMAIN r.mem /\ r.mem[x].left # Null
             /\ r.mem[x].right = t.mem[x].right
             /\ r.mem[r.mem[x].left].height = t.mem[t.mem[x].left].height
      <4> SUFFICES ASSUME NEW x \in DOMAIN t.mem, t.mem[x].left # Null
                   PROVE  /\ x \in DOMAIN r.mem /\ r.mem[x].left # Null
                          /\ r.mem[x].right = t.mem[x].right
                          /\ r.mem[r.mem[x].left].height = t.mem[t.mem[x].left].height
        OBVIOUS
      <4>1. t.mem[x].left \in DOMAIN t.mem
        BY <1>1 DEF NodesTyped
      <4>2. r.mem[x].left = t.mem[x].left /\ r.mem[x].right = t.mem[x].right
        BY <1>2
      <4>3. r.mem[t.mem[x].left].height = t.mem[t.mem[x].left].height
        BY <1>2, <4>1
      <4> QED
        BY <1>2, <4>2, <4>3
    <3>2. \A j \in 1 .. Len(r.stack) :
             LET n == r.stack[j].n
             IN  /\ n \in DOMAIN r.mem /\ r.mem[n].left # Null /\ r.mem[n].dirty
                 /\ n # r.root
                 /\ \A i \in 1 .. Len(r.stack) : r.stack[i].n = n => i = j
                 /\ j < Len(r.stack) => r.mem[n].right = r.stack[j + 1].n
                 /\ r.mem[Below(r, j)].height <= r.mem[r.mem[n].left].height
      BY <3>1
    <3> QED
      BY <1>5, <3>2 DEF OnStack
  <2>1. CASE j = Len(t.stack) + 1
    <3>1. r.stack[j].n = t.root
      BY <1>5, <2>1
    <3>2. t.mem[t.root].right # t.root
      BY <1>1, <1>3, <1>7 DEF Owned, Tops
    <3>3. \A i \in 1 .. Len(r.stack) : r.stack[i].n = t.root => i = j
      <4> SUFFICES ASSUME NEW i \in 1 .. Len(r.stack), r.stack[i].n = t.root, i # j PROVE FALSE
        OBVIOUS
      <4>1. i \in 1 .. Len(t.stack) /\ t.stack[i].n = t.root
        BY <1>4, <1>5, <2>1
      <4> QED
        BY <1>7, <4>1 DEF Stacked
    <3>4. t.mem[t.mem[t.root].right].height <= t.mem[t.mem[t.root].left].height
      BY <1>1, <1>3, <1>7 DEF Balanced
    <3>5. ~ (j < Len(r.stack))
      BY <1>4, <1>5, <2>1
    <3>6. Below(r, j) = t.mem[t.root].right
      BY <1>2, <1>9, <2>1
    <3> QED
      BY <1>2, <1>3, <3>1, <3>2, <3>3, <3>4, <3>5, <3>6
  <2>2. CASE j # Len(t.stack) + 1
    <3>1. j \in 1 .. Len(t.stack) /\ r.stack[j] = t.stack[j] /\ j \in 0 .. Len(t.stack)
      BY <1>4, <1>5, <2>2
    <3>2. /\ t.stack[j].n \in DOMAIN t.mem /\ t.mem[t.stack[j].n].left # Null
          /\ t.mem[t.stack[j].n].dirty /\ t.stack[j].n # t.root
          /\ \A i \in 1 .. Len(t.stack) : t.stack[i].n = t.stack[j].n => i = j
          /\ j < Len(t.stack) => t.mem[t.stack[j].n].right = t.stack[j + 1].n
          /\ t.mem[Below(t, j)].height <= t.mem[t.mem[t.stack[j].n].left].height
      BY <1>1, <3>1 DEF OnStack
    <3>3. t.stack[j].n # t.mem[t.root].right
      BY <1>1, <1>3, <1>7, <3>1 DEF Owned, Tops, Stacked
    <3>4. \A i \in 1 .. Len(r.stack) : r.stack[i].n = t.stack[j].n => i = j
      <4> SUFFICES ASSUME NEW i \in 1 .. Len(r.stack), r.stack[i].n = t.stack[j].n PROVE i = j
        OBVIOUS
      <4>1. CASE i = Len(t.stack) + 1
        BY <1>5, <3>2, <4>1
      <4>2. CASE i # Len(t.stack) + 1
        <5>1. i \in 1 .. Len(t.stack) /\ t.stack[i].n = t.stack[j].n
          BY <1>4, <1>5, <4>2
        <5> QED
          BY <3>2, <5>1
      <4> QED
        BY <4>1, <4>2
    <3>5. j < Len(r.stack) => t.mem[t.stack[j].n].right = r.stack[j + 1].n
      <4>1. CASE j = Len(t.stack)
        <5>1. t.stack # <<>> /\ Last(t.stack) = t.stack[j]
          BY <1>4, <3>1, <4>1 DEF Last
        <5> QED
          BY <1>5, <4>1, <5>1 DEF Joined
      <4>2. CASE j # Len(t.stack)
        <5>1. j < Len(t.stack) /\ j + 1 \in 1 .. Len(t.stack)
          BY <1>4, <3>1, <4>2
        <5> QED
          BY <1>5, <3>2, <5>1
      <4> QED
        BY <4>1, <4>2
    <3>6. Below(r, j) = Below(t, j) /\ Below(t, j) \in DOMAIN t.mem
      <4>1. CASE j = Len(t.stack)
        BY <1>3, <1>8, <3>1, <4>1 DEF Below
      <4>2. CASE j # Len(t.stack)
        <5>1. j + 1 \in 1 .. Len(t.stack)
          BY <1>4, <3>1, <4>2
        <5>2. t.stack[j + 1].n \in DOMAIN t.mem
          BY <1>1, <5>1 DEF OnStack
        <5> QED
          BY <1>8, <3>1, <4>2, <5>2 DEF Below
      <4> QED
        BY <4>1, <4>2
    <3>7. r.stack[j].n \in DOMAIN t.mem /\ t.mem[r.stack[j].n].left # Null /\ r.stack[j].n # r.root
      BY <1>2, <3>1, <3>2, <3>3
    <3>8. r.mem[r.stack[j].n].dirty
      BY <1>2, <3>1, <3>2
    <3>9. r.mem[Below(r, j)].height <= t.mem[t.mem[r.stack[j].n].left].height
      BY <1>2, <3>1, <3>2, <3>6
    <3>10. \A i \in 1 .. Len(r.stack) : r.stack[i].n = r.stack[j].n => i = j
      BY <3>1, <3>4
    <3>11. j < Len(r.stack) => t.mem[r.stack[j].n].right = r.stack[j + 1].n
      BY <3>1, <3>5
    <3> QED
      BY <3>7, <3>8, <3>9, <3>10, <3>11
  <2> QED
    BY <2>1, <2>2
<1>16. Positions(r, first, all, k)
  <2>1. \A x \in DOMAIN t.mem : t.mem[x].left # Null =>
           2 * first[t.mem[x].right] = 2 * first[x] + t.mem[t.mem[x].left].size + 1
           \/ x \in Stacked(t)
    BY <1>1 DEF Positions
  <2>2. \A x \in DOMAIN t.mem : t.mem[x].left # Null => t.mem[x].left \in DOMAIN t.mem
    BY <1>1 DEF NodesTyped
  <2>3. ASSUME NEW x \in DOMAIN r.mem
        PROVE  /\ first[x] \in Nat \ {0}
               /\ r.mem[x].left # Null =>
                     /\ first[r.mem[x].left] = first[x]
                     /\ x \notin Stacked(r) =>
                           2 * first[r.mem[x].right] = 2 * first[x] + r.mem[r.mem[x].left].size + 1
               /\ r.mem[x].left = Null => first[x] \in 1 .. Len(all) /\ all[first[x]] = x
    BY <1>1, <1>2, <1>6, <2>1, <2>2 DEF Positions
  <2>4. ASSUME NEW j \in 1 .. Len(r.stack)
        PROVE  2 * first[Below(r, j)] =
                  2 * first[r.stack[j].n] + r.mem[r.mem[r.stack[j].n].left].size + 1
    <3>1. CASE j = Len(t.stack) + 1
      <4>1. Below(r, j) = t.mem[t.root].right /\ r.stack[j].n = t.root
        BY <1>2, <1>5, <1>9, <3>1
      <4> QED
        BY <1>2, <1>3, <1>7, <2>1, <4>1
    <3>2. CASE j # Len(t.stack) + 1
      <4>1. j \in 1 .. Len(t.stack) /\ r.stack[j] = t.stack[j] /\ Below(r, j) = Below(t, j)
        BY <1>4, <1>5, <1>8, <3>2
      <4>2. /\ t.stack[j].n \in DOMAIN t.mem /\ t.mem[t.stack[j].n].left # Null
            /\ 2 * first[Below(t, j)] =
                  2 * first[t.stack[j].n] + t.mem[t.mem[t.stack[j].n].left].size + 1
        BY <1>1, <4>1 DEF OnStack, Positions
      <4> QED
        BY <1>2, <2>2, <4>1, <4>2
    <3> QED
      BY <3>1, <3>2
  <2>5. \A i \in 1 .. Len(all) :
          all[i] \in DOMAIN r.mem /\ r.mem[all[i]].left = Null /\ first[all[i]] = i
    BY <1>1, <1>2 DEF Positions
  <2> QED
    BY <2>3, <2>4, <2>5 DEF Positions
<1>17. Whole(r, first, k)
  <2>1. r.root \in DOMAIN r.mem
    BY <1>2, <1>3
  <2>2. first[Below(r, 0)] = 1
    BY <1>1, <1>4, <1>8 DEF Whole
  <2>3. 2 * first[r.root] + r.mem[r.root].size = 2 * k + 1
    <3>1. /\ 2 * first[t.root] + t.mem[t.root].size = 2 * k + 1
          /\ t.mem[t.root].size = t.mem[t.mem[t.root].left].size + t.mem[t.mem[t.root].right].size + 1
          /\ 2 * first[t.mem[t.root].right] = 2 * first[t.root] + t.mem[t.mem[t.root].left].size + 1
      BY <1>1, <1>3, <1>7 DEF Whole, Balanced, Positions
    <3>2. /\ first[t.root] \in Nat /\ first[t.mem[t.root].right] \in Nat
          /\ t.mem[t.mem[t.root].left].size \in Nat /\ t.mem[t.mem[t.root].right].size \in Nat
          /\ k \in Nat
      <4>1. first[t.root] \in Nat /\ first[t.mem[t.root].right] \in Nat
        BY <1>1, <1>3 DEF Positions
      <4>2. t.mem[t.mem[t.root].left].size \in Nat /\ t.mem[t.mem[t.root].right].size \in Nat
        BY <1>1, <1>3 DEF NodesTyped
      <4>3. k \in Nat
        BY <1>1 DEF Memory
      <4> QED
        BY <4>1, <4>2, <4>3
    <3>3. 2 * first[t.mem[t.root].right] + t.mem[t.mem[t.root].right].size = 2 * k + 1
      BY <3>1, <3>2
    <3> QED
      BY <1>2, <1>3, <3>3
  <2> QED
    BY <2>1, <2>2, <2>3 DEF Whole
<1>18. Shape(r, first, all, k)
  BY <1>10, <1>11, <1>12, <1>13, <1>14, <1>15, <1>16, <1>17 DEF Shape
<1>19. Last(r.stack) = [n |-> t.root, left |-> FALSE] /\ r.stack # <<>>
  BY <1>4, <1>5 DEF Last
<1>20. Joined(r)
  BY <1>2, <1>3, <1>19 DEF Joined
<1>21. r.mem[r.root].height < t.mem[t.root].height
  <2>1. /\ t.mem[t.mem[t.root].right].height <= t.mem[t.mem[t.root].left].height
        /\ t.mem[t.root].height = t.mem[t.mem[t.root].left].height + 1
        /\ t.mem[t.mem[t.root].right].height \in Nat /\ t.mem[t.mem[t.root].left].height \in Nat
    BY <1>1, <1>3, <1>7 DEF Balanced, NodesTyped
  <2> QED
    BY <1>2, <1>3, <2>1
<1>22. Roomy(r)
  <2> SUFFICES ASSUME is_full(r.mem, r.root)
               PROVE  r.mem[r.root].height < r.mem[r.mem[t.root].left].height
    BY <1>19 DEF Roomy
  <2> DEFINE hl == t.mem[t.mem[t.root].left].height
             hr == t.mem[t.mem[t.root].right].height
             h == t.mem[t.root].height
  <2>1. /\ hr <= hl /\ hr \in Nat /\ hl \in Nat
        /\ t.mem[t.root].size = t.mem[t.mem[t.root].left].size + t.mem[t.mem[t.root].right].size + 1
    BY <1>1, <1>3, <1>7 DEF Balanced, NodesTyped
  <2>2. t.mem[t.mem[t.root].right].size = 2 ^ hr - 1
    BY <1>2, <1>3 DEF is_full
  <2>3. /\ t.mem[t.mem[t.root].left].size + 1 = 2 ^ hl
        /\ 2 ^ h = 2 * 2 ^ hl
        /\ 2 ^ hl \in Nat /\ 2 ^ hr \in Nat
    BY <1>1, <1>3, <2>1, FullLeft, PowerDoubles
  <2>4. t.mem[t.root].size # 2 ^ h - 1
    BY DEF is_full
  <2>5. hr # hl
    <3> SUFFICES ASSUME hr = hl PROVE FALSE
      OBVIOUS
    <3> DEFINE p == 2 ^ hl
               s == t.mem[t.root].size
               sl == t.mem[t.mem[t.root].left].size
               sr == t.mem[t.mem[t.root].right].size
    <3>1. 2 ^ hr = p
      OBVIOUS
    <3>2. s = sl + sr + 1 /\ sr = p - 1 /\ sl + 1 = p /\ 2 ^ h = 2 * p /\ p \in Nat
      BY <2>1, <2>2, <2>3, <3>1
    <3>3. sl \in Nat
      BY <1>1, <1>3 DEF NodesTyped
    <3>4. s = 2 * p - 1
      <4> HIDE DEF p, s, sl, sr
      <4> QED
        BY <3>2, <3>3
    <3> QED
      BY <2>4, <3>2, <3>4
  <2> QED
    BY <1>2, <1>3, <2>1, <2>5
<1> QED
  BY <1>2, <1>18, <1>20, <1>21, <1>22 DEF r

-----------------------------------------------------------------------------
(* A step up.                                                              *)

\* The parts of a shape, and what follows of the root and of the stack.
LEMMA ShapeFacts ==
    ASSUME NEW t, NEW first, NEW all, NEW k, Shape(t, first, all, k)
    PROVE  /\ Memory(t, all, k) /\ NodesTyped(t.mem) /\ Balanced(t) /\ Current(t.mem)
           /\ Owned(t, all, k) /\ OnStack(t) /\ Positions(t, first, all, k) /\ Whole(t, first, k)
           /\ DOMAIN t = Members
           /\ Null \notin DOMAIN t.mem /\ DOMAIN t.mem \subseteq Nat
           /\ t.stack \in Seq([n : Nat, left : {FALSE}]) /\ Len(t.stack) \in Nat
           /\ k \in Nat /\ Len(all) \in Nat /\ k <= Len(all)
           /\ t.root \notin Stacked(t)
           /\ k # 0 => t.root \in DOMAIN t.mem /\ t.root \notin Waiting(all, k)
           /\ t.stack # <<>> => k # 0
<1>1. /\ Memory(t, all, k) /\ NodesTyped(t.mem) /\ Balanced(t) /\ Current(t.mem)
      /\ Owned(t, all, k) /\ OnStack(t) /\ Positions(t, first, all, k) /\ Whole(t, first, k)
  BY DEF Shape
<1>2. /\ DOMAIN t = Members
      /\ Null \notin DOMAIN t.mem /\ DOMAIN t.mem \subseteq Nat
      /\ k \in Nat /\ Len(all) \in Nat /\ k <= Len(all)
  BY <1>1 DEF Memory, Null
<1>3. t.stack \in Seq([n : Nat, left : {FALSE}]) /\ Len(t.stack) \in Nat
  BY <1>1 DEF OnStack
<1>4. t.root \notin Stacked(t)
  BY <1>1 DEF OnStack, Stacked
<1>5. ASSUME k # 0 PROVE t.root \in DOMAIN t.mem /\ t.root \notin Waiting(all, k)
  <2>1. t.root \in DOMAIN t.mem /\ 2 * first[t.root] + t.mem[t.root].size = 2 * k + 1
    BY <1>1, <1>5 DEF Whole
  <2>2. ASSUME t.root \in Waiting(all, k) PROVE FALSE
    <3>1. PICK i \in k + 1 .. Len(all) : t.root = all[i]
      BY <2>2 DEF Waiting
    <3>2. t.mem[all[i]].left = Null /\ first[all[i]] = i
      BY <1>1, <1>2 DEF Positions
    <3>3. t.mem[t.root].size = 1
      BY <1>1, <2>1, <3>1, <3>2 DEF NodesTyped
    <3>4. 2 * i + 1 = 2 * k + 1
      BY <2>1, <3>1, <3>2, <3>3
    <3> QED
      BY <1>2, <3>4
  <2> QED
    BY <2>1, <2>2
<1>6. t.stack # <<>> => k # 0
  BY <1>1 DEF Whole
<1> QED
  BY <1>1, <1>2, <1>3, <1>4, <1>5, <1>6

\* All but the last element of a sequence.
LEMMA FrontOfSeq ==
    ASSUME NEW S, NEW s \in Seq(S), s # <<>>
    PROVE  /\ Front(s) \in Seq(S)
           /\ Len(Front(s)) = Len(s) - 1
           /\ \A j \in 1 .. Len(s) - 1 : Front(s)[j] = s[j]
<1>1. Len(s) \in Nat \ {0} /\ \A i \in 1 .. Len(s) - 1 : s[i] \in S
  OBVIOUS
<1>2. /\ SubSeq(s, 1, Len(s) - 1) \in Seq(S)
      /\ Len(SubSeq(s, 1, Len(s) - 1)) = Len(s) - 1
      /\ \A i \in 1 .. Len(s) - 1 : SubSeq(s, 1, Len(s) - 1)[i] = s[i]
  <2> DEFINE n == Len(s) - 1
  <2>1. n \in Int /\ 1 \in Int /\ n \in Nat
    BY <1>1
  <2>2. \A i \in 1 .. n : s[i] \in S
    BY <1>1
  <2> HIDE DEF n
  <2>3. /\ SubSeq(s, 1, n) \in Seq(S)
        /\ Len(SubSeq(s, 1, n)) = IF 1 <= n THEN n - 1 + 1 ELSE 0
        /\ \A i \in 1 .. n - 1 + 1 : SubSeq(s, 1, n)[i] = s[1 + i - 1]
    BY <2>1, <2>2, SubSeqProperties
  <2>4. Len(SubSeq(s, 1, n)) = n /\ \A i \in 1 .. n : SubSeq(s, 1, n)[i] = s[i]
    BY <2>1, <2>3
  <2> QED
    BY <2>3, <2>4 DEF n
<1> QED
  BY <1>2 DEF Front

\* What the top of the stack is, and the rest of it.
LEMMA StackTop ==
    ASSUME NEW t, NEW first, NEW all, NEW k, Shape(t, first, all, k), t.stack # <<>>
    PROVE  LET n == Last(t.stack).n
               L == Len(t.stack)
           IN  /\ L \in Nat \ {0} /\ Last(t.stack) = t.stack[L] /\ ~Last(t.stack).left
               /\ n \in DOMAIN t.mem /\ t.mem[n].left # Null /\ t.mem[n].dirty /\ n # t.root
               /\ t.mem[n].left \in DOMAIN t.mem /\ t.mem[n].left # n /\ t.mem[n].left # t.root
               /\ t.mem[t.root].height <= t.mem[t.mem[n].left].height
               /\ 2 * first[t.root] = 2 * first[n] + t.mem[t.mem[n].left].size + 1
               /\ Front(t.stack) \in Seq([n : Nat, left : {FALSE}])
               /\ Len(Front(t.stack)) = L - 1
               /\ \A j \in 1 .. L - 1 : Front(t.stack)[j] = t.stack[j] /\ t.stack[j].n # n
               /\ L > 1 => t.mem[t.stack[L - 1].n].right = n
               /\ Front(t.stack) # <<>> => L > 1 /\ Last(Front(t.stack)) = t.stack[L - 1]
               /\ n \in Stacked(t)
<1> DEFINE n == Last(t.stack).n
           L == Len(t.stack)
<1>1. /\ OnStack(t) /\ NodesTyped(t.mem) /\ Owned(t, all, k) /\ Positions(t, first, all, k)
      /\ t.stack \in Seq([n : Nat, left : {FALSE}])
      /\ t.root \notin Stacked(t)
  BY ShapeFacts
<1>2. L \in Nat \ {0} /\ Last(t.stack) = t.stack[L]
  BY <1>1 DEF Last
<1>3. ~t.stack[L].left
  <2>1. L \in 1 .. Len(t.stack)
    BY <1>2
  <2> DEFINE S == [n : Nat, left : {FALSE}]
  <2>2. t.stack[L] \in S
    <3>1. t.stack \in Seq(S)
      BY <1>1
    <3> HIDE DEF S, L
    <3> QED
      BY <2>1, <3>1
  <2> QED
    BY <2>2
<1>4. /\ n \in DOMAIN t.mem /\ t.mem[n].left # Null /\ t.mem[n].dirty /\ n # t.root
      /\ t.mem[t.root].height <= t.mem[t.mem[n].left].height
      /\ \A i \in 1 .. L : t.stack[i].n = n => i = L
  <2>1. L \in 1 .. L /\ Below(t, L) = t.root
    BY <1>2 DEF Below
  <2> QED
    BY <1>1, <1>2, <2>1 DEF OnStack
<1>5. 2 * first[t.root] = 2 * first[n] + t.mem[t.mem[n].left].size + 1
  <2>1. L \in 1 .. L /\ Below(t, L) = t.root
    BY <1>2 DEF Below
  <2> QED
    BY <1>1, <1>2, <2>1 DEF Positions
<1>6. n \in Stacked(t)
  <2>1. L \in 1 .. L
    BY <1>2
  <2> QED
    BY <1>2, <2>1 DEF Stacked
<1>7. t.mem[n].left \in DOMAIN t.mem /\ t.mem[n].left # n /\ t.mem[n].left # t.root
  BY <1>1, <1>4, <1>6 DEF NodesTyped, Owned, Tops
<1>8. /\ Front(t.stack) \in Seq([n : Nat, left : {FALSE}])
      /\ Len(Front(t.stack)) = L - 1
      /\ \A j \in 1 .. L - 1 : Front(t.stack)[j] = t.stack[j]
  BY <1>1, <1>2, FrontOfSeq
<1>9. \A j \in 1 .. L - 1 : t.stack[j].n # n
  <2> SUFFICES ASSUME NEW j \in 1 .. L - 1, t.stack[j].n = n PROVE FALSE
    OBVIOUS
  <2>1. j \in 1 .. L /\ j # L
    BY <1>2
  <2> QED
    BY <1>4, <2>1
<1>10. L > 1 => t.mem[t.stack[L - 1].n].right = n
  <2> HAVE L > 1
  <2>1. L - 1 \in 1 .. L /\ L - 1 < L /\ (L - 1) + 1 = L
    BY <1>2
  <2>2. t.mem[t.stack[L - 1].n].right = t.stack[(L - 1) + 1].n
    BY <1>1, <2>1 DEF OnStack
  <2> QED
    BY <1>2, <2>1, <2>2
<1>11. Front(t.stack) # <<>> => L > 1 /\ Last(Front(t.stack)) = t.stack[L - 1]
  <2> HAVE Front(t.stack) # <<>>
  <2>1. Len(Front(t.stack)) # 0
    BY <1>8, EmptySeq
  <2>2. L > 1 /\ L - 1 \in 1 .. L - 1
    BY <1>2, <1>8, <2>1
  <2> QED
    BY <1>8, <2>2 DEF Last
<1> QED
  BY <1>2, <1>3, <1>4, <1>5, <1>6, <1>7, <1>8, <1>9, <1>10, <1>11

\* r is t with the root made the right child of the node on top of the stack.
Popped(t, r) ==
    LET n == Last(t.stack).n
    IN  /\ DOMAIN r = Members
        /\ r.root = n /\ r.stack = Front(t.stack)
        /\ r.leaf_nodes = t.leaf_nodes /\ r.uninserted = t.uninserted
        /\ r.num_flushed = t.num_flushed
        /\ DOMAIN r.mem = DOMAIN t.mem
        /\ \A x \in DOMAIN t.mem :
              /\ DOMAIN r.mem[x] = Fields
              /\ r.mem[x].hash = t.mem[x].hash
              /\ r.mem[x].left = t.mem[x].left
              /\ r.mem[x].right = IF x = n THEN t.root ELSE t.mem[x].right
              /\ r.mem[x].size = IF x = n THEN t.mem[t.mem[n].left].size + t.mem[t.root].size + 1
                                 ELSE t.mem[x].size
              /\ r.mem[x].height = t.mem[x].height
              /\ r.mem[x].dirty = t.mem[x].dirty

\* The stack is popped, and the node that was on top is the root.
Lifted(t, m, n) == [t EXCEPT !.mem = update_sizes(m, n), !.stack = Front(t.stack), !.root = n]

\* Both forms of a step up come to this: update_sizes of the node on top, once
\* the root is its right child.
LEMMA PopEffect ==
    ASSUME NEW t, NEW first, NEW all, NEW k, Shape(t, first, all, k), t.stack # <<>>,
           NEW n, n = Last(t.stack).n,
           NEW m, DOMAIN m = DOMAIN t.mem,
           \A x \in DOMAIN t.mem : x # n => m[x] = t.mem[x],
           DOMAIN m[n] = Fields, m[n].hash = t.mem[n].hash, m[n].left = t.mem[n].left,
           m[n].right = t.root, m[n].dirty = TRUE,
           NEW r, r = Lifted(t, m, n)
    PROVE  Popped(t, r)
<1>1. /\ DOMAIN t = Members /\ NodesTyped(t.mem) /\ Balanced(t)
      /\ t.root \in DOMAIN t.mem /\ Null \notin DOMAIN t.mem
  BY ShapeFacts
<1>2. /\ n \in DOMAIN t.mem /\ t.mem[n].left # Null /\ t.mem[n].dirty /\ n # t.root
      /\ t.mem[n].left \in DOMAIN t.mem /\ t.mem[n].left # n
      /\ t.mem[t.root].height <= t.mem[t.mem[n].left].height
  BY StackTop
<1> DEFINE l == t.mem[n].left
           node == [m[n] EXCEPT !.size = m[l].size + m[t.root].size + 1,
                                !.height = Max({m[l].height, m[t.root].height}) + 1]
<1>3. update_sizes(m, n) = Put(m, n, node)
  <2>1. HasChildren(m, n)
    BY <1>1, <1>2 DEF HasChildren
  <2> QED
    BY <1>2, <2>1 DEF update_sizes
<1>4. m[l] = t.mem[l] /\ m[t.root] = t.mem[t.root]
  BY <1>1, <1>2
<1>5. /\ DOMAIN node = Fields /\ node.hash = t.mem[n].hash
      /\ node.left = t.mem[n].left /\ node.right = t.root
      /\ node.size = m[l].size + m[t.root].size + 1 /\ node.height = Max({m[l].height, m[t.root].height}) + 1
      /\ node.dirty = TRUE
  BY DEF Fields
<1>6. Max({m[l].height, m[t.root].height}) = t.mem[l].height
  <2>1. t.mem[l].height \in Int /\ t.mem[t.root].height \in Int
    BY <1>1, <1>2 DEF NodesTyped
  <2> QED
    BY <1>2, <1>4, <2>1, MaxOfTwo
<1>7. t.mem[n].height = t.mem[l].height + 1
  BY <1>1, <1>2 DEF Balanced
<1>8. /\ node.size = t.mem[l].size + t.mem[t.root].size + 1
      /\ node.height = t.mem[n].height
  BY <1>4, <1>5, <1>6, <1>7
<1>9. /\ DOMAIN r = Members /\ r.root = n /\ r.stack = Front(t.stack)
      /\ r.mem = Put(m, n, node)
      /\ r.leaf_nodes = t.leaf_nodes /\ r.uninserted = t.uninserted
      /\ r.num_flushed = t.num_flushed
  BY <1>1, <1>3 DEF Members, Lifted
<1> HIDE DEF node
<1>10. DOMAIN r.mem = DOMAIN t.mem /\ \A x \in DOMAIN t.mem : r.mem[x] = IF x = n THEN node ELSE t.mem[x]
  BY <1>9 DEF Put
<1>11. \A x \in DOMAIN t.mem :
          /\ DOMAIN r.mem[x] = Fields
          /\ r.mem[x].hash = t.mem[x].hash
          /\ r.mem[x].left = t.mem[x].left
          /\ r.mem[x].right = IF x = n THEN t.root ELSE t.mem[x].right
          /\ r.mem[x].size = IF x = n THEN t.mem[l].size + t.mem[t.root].size + 1 ELSE t.mem[x].size
          /\ r.mem[x].height = t.mem[x].height
          /\ r.mem[x].dirty = t.mem[x].dirty
  <2> TAKE x \in DOMAIN t.mem
  <2>1. CASE x = n
    <3>1. t.mem[n].dirty = TRUE
      BY <1>1, <1>2 DEF NodesTyped
    <3> QED
      BY <1>5, <1>8, <1>10, <2>1, <3>1
  <2>2. CASE x # n
    BY <1>1, <1>10, <2>2 DEF NodesTyped
  <2> QED
    BY <2>1, <2>2
<1> QED
  BY <1>9, <1>10, <1>11 DEF Popped

LEMMA AscendEffect ==
    ASSUME NEW t, NEW first, NEW all, NEW k, Shape(t, first, all, k), t.stack # <<>>
    PROVE  Popped(t, Ascend(t))
<1> DEFINE n == Last(t.stack).n
           node == [t.mem[n] EXCEPT !.right = t.root, !.dirty = TRUE]
           m == Put(t.mem, n, node)
<1>1. DOMAIN t = Members /\ NodesTyped(t.mem)
  BY ShapeFacts
<1>2. ~Last(t.stack).left /\ n \in DOMAIN t.mem
  BY StackTop
<1>3. Ascend(t) = Lifted(t, m, n)
  <2>1. (IF Last(t.stack).left
         THEN [t.mem[n] EXCEPT !.left = t.root, !.dirty = TRUE]
         ELSE node) = node
    BY <1>2
  <2> HIDE DEF node
  <2> QED
    BY <2>1 DEF Ascend, Lifted, node
<1>4. /\ DOMAIN node = Fields /\ node.hash = t.mem[n].hash /\ node.left = t.mem[n].left
      /\ node.right = t.root /\ node.dirty = TRUE
  BY <1>1, <1>2 DEF NodesTyped, Fields
<1> HIDE DEF node
<1>5. /\ DOMAIN m = DOMAIN t.mem /\ m[n] = node
      /\ \A x \in DOMAIN t.mem : x # n => m[x] = t.mem[x]
  BY <1>2 DEF Put
<1> HIDE DEF m
<1> QED
  BY <1>3, <1>4, <1>5, PopEffect

\* Taking up an insertion that was left half done.
LEMMA ResumeEffect ==
    ASSUME NEW t, NEW first, NEW all, NEW k, Shape(t, first, all, k), t.stack # <<>>, Joined(t)
    PROVE  LET n == Last(t.stack).n
           IN  Popped(t, Lifted(t, t.mem, n))
<1> DEFINE n == Last(t.stack).n
<1>1. DOMAIN t = Members /\ NodesTyped(t.mem)
  BY ShapeFacts
<1>2. n \in DOMAIN t.mem /\ t.mem[n].dirty
  BY StackTop
<1>3. t.mem[n].right = t.root
  BY DEF Joined
<1>4. DOMAIN t.mem[n] = Fields /\ t.mem[n].dirty = TRUE
  BY <1>1, <1>2 DEF NodesTyped
<1> HIDE DEF n
<1>5. n = Last(t.stack).n
  BY DEF n
<1>6. Popped(t, Lifted(t, t.mem, n))
  BY <1>3, <1>4, <1>5, PopEffect
<1> QED
  BY <1>6 DEF n

LEMMA ShapePop ==
    ASSUME NEW t, NEW first, NEW all, NEW k, Shape(t, first, all, k), t.stack # <<>>,
           NEW r, Popped(t, r)
    PROVE  /\ Shape(r, first, all, k) /\ Joined(r)
           /\ Len(r.stack) = Len(t.stack) - 1
<1> DEFINE n == Last(t.stack).n
           L == Len(t.stack)
           l == t.mem[n].left
<1>1. /\ Memory(t, all, k) /\ NodesTyped(t.mem) /\ Balanced(t) /\ Current(t.mem)
      /\ Owned(t, all, k) /\ OnStack(t) /\ Positions(t, first, all, k) /\ Whole(t, first, k)
      /\ Null \notin DOMAIN t.mem /\ DOMAIN t.mem \subseteq Nat
      /\ t.stack \in Seq([n : Nat, left : {FALSE}]) /\ L \in Nat
      /\ t.root \notin Stacked(t)
      /\ t.root \in DOMAIN t.mem /\ t.root \notin Waiting(all, k) /\ k # 0 /\ k \in Nat
  BY ShapeFacts
<1>2. /\ L \in Nat \ {0} /\ Last(t.stack) = t.stack[L]
      /\ n \in DOMAIN t.mem /\ t.mem[n].left # Null /\ t.mem[n].dirty /\ n # t.root
      /\ l \in DOMAIN t.mem /\ l # n /\ l # t.root
      /\ t.mem[t.root].height <= t.mem[l].height
      /\ 2 * first[t.root] = 2 * first[n] + t.mem[l].size + 1
      /\ Front(t.stack) \in Seq([n : Nat, left : {FALSE}])
      /\ Len(Front(t.stack)) = L - 1
      /\ \A j \in 1 .. L - 1 : Front(t.stack)[j] = t.stack[j] /\ t.stack[j].n # n
      /\ L > 1 => t.mem[t.stack[L - 1].n].right = n
      /\ Front(t.stack) # <<>> => L > 1 /\ Last(Front(t.stack)) = t.stack[L - 1]
      /\ n \in Stacked(t)
  BY StackTop
<1> HIDE DEF n, L, l
<1>3. /\ DOMAIN r = Members
      /\ r.root = n /\ r.stack = Front(t.stack)
      /\ DOMAIN r.mem = DOMAIN t.mem
      /\ \A x \in DOMAIN t.mem :
            /\ DOMAIN r.mem[x] = Fields
            /\ r.mem[x].hash = t.mem[x].hash
            /\ r.mem[x].left = t.mem[x].left
            /\ r.mem[x].right = IF x = n THEN t.root ELSE t.mem[x].right
            /\ r.mem[x].size = IF x = n THEN t.mem[l].size + t.mem[t.root].size + 1 ELSE t.mem[x].size
            /\ r.mem[x].height = t.mem[x].height
            /\ r.mem[x].dirty = t.mem[x].dirty
  BY DEF Popped, n, l
<1>4. Len(r.stack) = L - 1 /\ \A j \in 1 .. L - 1 : r.stack[j] = t.stack[j] /\ t.stack[j].n # n
  BY <1>2, <1>3
<1>5. Stacked(r) = Stacked(t) \ {n}
  <2>1. ASSUME NEW x \in Stacked(r) PROVE x \in Stacked(t) \ {n}
    <3>1. PICK j \in 1 .. L - 1 : x = r.stack[j].n
      BY <1>4, <2>1 DEF Stacked
    <3>2. j \in 1 .. L /\ x = t.stack[j].n /\ x # n
      BY <1>1, <1>4, <3>1
    <3> QED
      BY <3>2 DEF Stacked, L
  <2>2. ASSUME NEW x \in Stacked(t), x # n PROVE x \in Stacked(r)
    <3>1. PICK j \in 1 .. L : x = t.stack[j].n
      BY <2>2 DEF Stacked, L
    <3>2. j # L
      BY <1>2, <2>2, <3>1 DEF n
    <3>3. j \in 1 .. Len(r.stack) /\ x = r.stack[j].n
      BY <1>2, <1>4, <3>1, <3>2
    <3> QED
      BY <3>3 DEF Stacked
  <2> QED
    BY <2>1, <2>2
<1>6. \A j \in 0 .. L - 1 : Below(r, j) = Below(t, j)
  <2> TAKE j \in 0 .. L - 1
  <2>1. j # L /\ Below(t, j) = t.stack[j + 1].n
    BY <1>2 DEF Below, L
  <2>2. CASE j = L - 1
    <3>1. Below(r, j) = n
      BY <1>3, <1>4, <2>2 DEF Below
    <3>2. j + 1 = L
      BY <1>2, <2>2
    <3> QED
      BY <1>2, <2>1, <3>1, <3>2 DEF n
  <2>3. CASE j # L - 1
    <3>1. j # Len(r.stack) /\ j + 1 \in 1 .. L - 1
      BY <1>2, <1>4, <2>3
    <3>2. Below(r, j) = r.stack[j + 1].n
      BY <3>1 DEF Below
    <3> QED
      BY <1>4, <2>1, <3>1, <3>2
  <2> QED
    BY <2>2, <2>3
<1>7. Tops(r, all, k) \subseteq Tops(t, all, k) /\ t.root \notin Tops(r, all, k)
  BY <1>1, <1>2, <1>3, <1>5 DEF Tops
<1>8. \A x \in DOMAIN t.mem : t.mem[x].left # Null =>
         /\ t.mem[x].left \in DOMAIN t.mem /\ t.mem[x].right \in DOMAIN t.mem
         /\ t.mem[x].left # n
         /\ x \notin Stacked(t) => t.mem[x].right # n
  <2> TAKE x \in DOMAIN t.mem
  <2> HAVE t.mem[x].left # Null
  <2>1. t.mem[x].left \in DOMAIN t.mem /\ t.mem[x].right \in DOMAIN t.mem
    BY <1>1 DEF NodesTyped
  <2>2. /\ t.mem[x].left \notin Tops(t, all, k)
        /\ x \notin Stacked(t) => t.mem[x].right \notin Tops(t, all, k)
    BY <1>1 DEF Owned
  <2>3. n \in Tops(t, all, k)
    BY <1>2 DEF Tops
  <2> QED
    BY <2>1, <2>2, <2>3
<1>9. Memory(r, all, k)
  BY <1>1, <1>3 DEF Memory
<1>10. NodesTyped(r.mem)
  <2> SUFFICES ASSUME NEW x \in DOMAIN t.mem
               PROVE  /\ DOMAIN r.mem[x] = Fields
                      /\ r.mem[x].left \in DOMAIN t.mem \cup {Null}
                      /\ r.mem[x].right \in DOMAIN t.mem \cup {Null}
                      /\ r.mem[x].left = Null <=> r.mem[x].right = Null
                      /\ r.mem[x].size \in Nat \ {0}
                      /\ r.mem[x].height \in Nat \ {0}
                      /\ r.mem[x].dirty \in BOOLEAN
                      /\ r.mem[x].size < 2 ^ r.mem[x].height
                      /\ r.mem[x].left = Null => r.mem[x].size = 1 /\ r.mem[x].height = 1 /\ ~r.mem[x].dirty
    BY <1>3 DEF NodesTyped
  <2>1. /\ t.mem[x].left \in DOMAIN t.mem \cup {Null}
        /\ t.mem[x].right \in DOMAIN t.mem \cup {Null}
        /\ t.mem[x].left = Null <=> t.mem[x].right = Null
        /\ t.mem[x].size \in Nat \ {0}
        /\ t.mem[x].height \in Nat \ {0}
        /\ t.mem[x].dirty \in BOOLEAN
        /\ t.mem[x].size < 2 ^ t.mem[x].height
        /\ t.mem[x].left = Null => t.mem[x].size = 1 /\ t.mem[x].height = 1 /\ ~t.mem[x].dirty
    BY <1>1 DEF NodesTyped
  <2>2. CASE x # n
    BY <1>3, <2>1, <2>2
  <2>3. CASE x = n
    <3> DEFINE hl == t.mem[l].height
               hr == t.mem[t.root].height
               p == 2 ^ hl
               q == 2 ^ hr
               sl == t.mem[l].size
               sr == t.mem[t.root].size
    <3>1. /\ hl \in Nat /\ hr \in Nat /\ sl \in Nat /\ sr \in Nat \ {0} /\ sr < q
      BY <1>1, <1>2 DEF NodesTyped
    <3>2. /\ sl + 1 = p /\ 2 ^ t.mem[n].height = 2 * p /\ p \in Nat
      BY <1>1, <1>2, FullLeft DEF l
    <3>3. q \in Nat /\ q <= p
      <4>1. CASE hr = hl
        BY <3>2, <4>1
      <4>2. CASE hr < hl
        <5>1. 2 * q <= p /\ q \in Nat
          BY <3>1, <4>2, PowerMonotonic, PowerGrows
        <5> HIDE DEF p, q
        <5> QED
          BY <3>2, <5>1
      <4> QED
        BY <1>2, <3>1, <4>1, <4>2
    <3>4. sl + sr + 1 < 2 * p
      <4> HIDE DEF p, q, sl, sr
      <4> QED
        BY <3>1, <3>2, <3>3
    <3>5. /\ r.mem[n].size \in Nat \ {0} /\ r.mem[n].size < 2 ^ r.mem[n].height
      <4>1. r.mem[n].size = sl + sr + 1 /\ r.mem[n].height = t.mem[n].height
        BY <1>2, <1>3
      <4>2. sl + sr + 1 \in Nat \ {0}
        BY <3>1
      <4>3. 2 ^ r.mem[n].height = 2 * p
        BY <3>2, <4>1
      <4> HIDE DEF p
      <4> QED
        BY <3>4, <4>1, <4>2, <4>3
    <3>6. r.mem[n].right = t.root /\ t.root # Null
      BY <1>1, <1>2, <1>3
    <3> QED
      BY <1>1, <1>2, <1>3, <2>1, <2>3, <3>5, <3>6
  <2> QED
    BY <2>2, <2>3
<1>11. Balanced(r)
  <2> SUFFICES ASSUME NEW x \in DOMAIN t.mem, t.mem[x].left # Null
               PROVE  /\ is_full(r.mem, t.mem[x].left)
                      /\ r.mem[x].height = r.mem[t.mem[x].left].height + 1
                      /\ x \notin Stacked(r) =>
                            /\ r.mem[r.mem[x].right].height <= r.mem[t.mem[x].left].height
                            /\ r.mem[x].size = r.mem[t.mem[x].left].size + r.mem[r.mem[x].right].size + 1
    BY <1>3 DEF Balanced
  <2>1. /\ t.mem[x].left \in DOMAIN t.mem /\ t.mem[x].right \in DOMAIN t.mem
        /\ t.mem[x].left # n
    BY <1>8
  <2>2. is_full(r.mem, t.mem[x].left) /\ r.mem[x].height = r.mem[t.mem[x].left].height + 1
    BY <1>1, <1>3, <2>1 DEF Balanced, is_full
  <2>3. CASE x = n
    <3>1. r.mem[x].right = t.root /\ t.mem[x].left = l
      BY <1>3, <2>3 DEF l
    <3>2. r.mem[t.root].height = t.mem[t.root].height /\ r.mem[t.root].size = t.mem[t.root].size
      BY <1>1, <1>2, <1>3
    <3>3. r.mem[l].height = t.mem[l].height /\ r.mem[l].size = t.mem[l].size
      BY <1>2, <1>3
    <3>4. r.mem[x].size = t.mem[l].size + t.mem[t.root].size + 1
      BY <1>3, <2>3
    <3> QED
      BY <1>2, <2>2, <3>1, <3>2, <3>3, <3>4
  <2>4. CASE x # n
    <3> SUFFICES ASSUME x \notin Stacked(r)
                 PROVE  /\ r.mem[r.mem[x].right].height <= r.mem[t.mem[x].left].height
                        /\ r.mem[x].size = r.mem[t.mem[x].left].size + r.mem[r.mem[x].right].size + 1
      BY <2>2
    <3>1. x \notin Stacked(t)
      BY <1>5, <2>4
    <3>2. t.mem[x].right # n /\ r.mem[x].right = t.mem[x].right
      BY <1>3, <1>8, <2>4, <3>1
    <3>3. /\ t.mem[t.mem[x].right].height <= t.mem[t.mem[x].left].height
          /\ t.mem[x].size = t.mem[t.mem[x].left].size + t.mem[t.mem[x].right].size + 1
      BY <1>1, <3>1 DEF Balanced
    <3>4. /\ r.mem[t.mem[x].right].height = t.mem[t.mem[x].right].height
          /\ r.mem[t.mem[x].right].size = t.mem[t.mem[x].right].size
          /\ r.mem[t.mem[x].left].height = t.mem[t.mem[x].left].height
          /\ r.mem[t.mem[x].left].size = t.mem[t.mem[x].left].size
          /\ r.mem[x].size = t.mem[x].size
      BY <1>3, <2>1, <2>4, <3>2
    <3> QED
      BY <3>2, <3>3, <3>4
  <2> QED
    BY <2>3, <2>4
<1>12. Current(r.mem)
  <2> SUFFICES ASSUME NEW x \in DOMAIN t.mem, t.mem[x].left # Null, ~t.mem[x].dirty
               PROVE  /\ ~r.mem[t.mem[x].left].dirty /\ ~r.mem[r.mem[x].right].dirty
                      /\ r.mem[x].hash = HASH_FUNCTION(r.mem[t.mem[x].left].hash, r.mem[r.mem[x].right].hash)
    BY <1>3 DEF Current
  <2>1. x # n
    BY <1>2
  <2>2. r.mem[x].right = t.mem[x].right
    BY <1>3, <2>1
  <2>3. t.mem[x].left \in DOMAIN t.mem /\ t.mem[x].right \in DOMAIN t.mem
    BY <1>8
  <2>4. /\ ~t.mem[t.mem[x].left].dirty /\ ~t.mem[t.mem[x].right].dirty
        /\ t.mem[x].hash = HASH_FUNCTION(t.mem[t.mem[x].left].hash, t.mem[t.mem[x].right].hash)
    BY <1>1 DEF Current
  <2> QED
    BY <1>3, <2>2, <2>3, <2>4
<1>13. Owned(r, all, k)
  <2> SUFFICES ASSUME NEW x \in DOMAIN t.mem, t.mem[x].left # Null
               PROVE  /\ t.mem[x].left \notin Tops(r, all, k)
                      /\ x \notin Stacked(r) => r.mem[x].right \notin Tops(r, all, k)
                      /\ \A y \in DOMAIN t.mem :
                            t.mem[y].left # Null =>
                               /\ t.mem[x].left = t.mem[y].left => x = y
                               /\ x \notin Stacked(r) => r.mem[x].right # t.mem[y].left
                               /\ x \notin Stacked(r) /\ y \notin Stacked(r) /\ r.mem[x].right = r.mem[y].right
                                     => x = y
    BY <1>3 DEF Owned
  <2>1. t.mem[x].left \notin Tops(r, all, k)
    BY <1>1, <1>7 DEF Owned
  <2>2. ASSUME x \notin Stacked(r) PROVE r.mem[x].right \notin Tops(r, all, k)
    <3>1. CASE x = n
      BY <1>3, <1>7, <3>1
    <3>2. CASE x # n
      <4>1. x \notin Stacked(t) /\ r.mem[x].right = t.mem[x].right
        BY <1>3, <1>5, <2>2, <3>2
      <4> QED
        BY <1>1, <1>7, <4>1 DEF Owned
    <3> QED
      BY <3>1, <3>2
  <2>3. ASSUME NEW y \in DOMAIN t.mem, t.mem[y].left # Null
        PROVE  /\ t.mem[x].left = t.mem[y].left => x = y
               /\ x \notin Stacked(r) => r.mem[x].right # t.mem[y].left
               /\ x \notin Stacked(r) /\ y \notin Stacked(r) /\ r.mem[x].right = r.mem[y].right
                     => x = y
    <3>1. t.mem[x].left = t.mem[y].left => x = y
      BY <1>1, <2>3 DEF Owned
    <3>2. t.root # t.mem[y].left
      BY <1>1, <2>3 DEF Owned, Tops
    <3>3. \A z \in DOMAIN t.mem : z \notin Stacked(r) /\ z # n /\ t.mem[z].left # Null =>
             /\ z \notin Stacked(t) /\ r.mem[z].right = t.mem[z].right
             /\ t.mem[z].right # t.root
      BY <1>1, <1>3, <1>5 DEF Owned, Tops
    <3>4. ASSUME x \notin Stacked(r) PROVE r.mem[x].right # t.mem[y].left
      <4>1. CASE x = n
        BY <1>3, <3>2, <4>1
      <4>2. CASE x # n
        BY <1>1, <2>3, <3>3, <3>4, <4>2 DEF Owned
      <4> QED
        BY <4>1, <4>2
    <3>5. ASSUME x \notin Stacked(r), y \notin Stacked(r), r.mem[x].right = r.mem[y].right
          PROVE  x = y
      <4>1. CASE x = n /\ y # n
        BY <1>3, <2>3, <3>3, <3>5, <4>1
      <4>2. CASE x # n /\ y = n
        BY <1>3, <3>3, <3>5, <4>2
      <4>3. CASE x # n /\ y # n
        BY <1>1, <2>3, <3>3, <3>5, <4>3 DEF Owned
      <4> QED
        BY <4>1, <4>2, <4>3
    <3> QED
      BY <3>1, <3>4, <3>5
  <2> QED
    BY <2>1, <2>2, <2>3
<1>14. ASSUME NEW j \in 1 .. L - 1
       PROVE  /\ j \in 1 .. L /\ j \in 0 .. L - 1
              /\ r.stack[j] = t.stack[j] /\ t.stack[j].n # n
              /\ t.stack[j].n \in DOMAIN t.mem /\ t.mem[t.stack[j].n].left # Null
              /\ t.mem[t.stack[j].n].dirty /\ t.stack[j].n # t.root
              /\ \A i \in 1 .. L : t.stack[i].n = t.stack[j].n => i = j
              /\ t.mem[t.stack[j].n].right = t.stack[j + 1].n
              /\ t.mem[Below(t, j)].height <= t.mem[t.mem[t.stack[j].n].left].height
              /\ Below(r, j) = Below(t, j) /\ Below(t, j) = t.stack[j + 1].n
              /\ t.stack[j + 1].n \in DOMAIN t.mem
  <2>1. /\ j \in 1 .. L /\ j \in 0 .. L - 1 /\ j < L /\ j + 1 \in 1 .. L /\ j # L
    BY <1>2
  <2>2. /\ t.stack[j].n \in DOMAIN t.mem /\ t.mem[t.stack[j].n].left # Null
        /\ t.mem[t.stack[j].n].dirty /\ t.stack[j].n # t.root
        /\ \A i \in 1 .. L : t.stack[i].n = t.stack[j].n => i = j
        /\ t.mem[t.stack[j].n].right = t.stack[j + 1].n
        /\ t.mem[Below(t, j)].height <= t.mem[t.mem[t.stack[j].n].left].height
        /\ t.stack[j + 1].n \in DOMAIN t.mem
    BY <1>1, <2>1 DEF OnStack, L
  <2>3. Below(t, j) = t.stack[j + 1].n
    BY <2>1 DEF Below, L
  <2> QED
    BY <1>4, <1>6, <2>1, <2>2, <2>3
<1>15. OnStack(r)
  <2> SUFFICES ASSUME NEW j \in 1 .. L - 1
               PROVE  /\ r.stack[j].n \in DOMAIN r.mem /\ r.mem[r.stack[j].n].left # Null
                      /\ r.mem[r.stack[j].n].dirty
                      /\ r.stack[j].n # r.root
                      /\ \A i \in 1 .. L - 1 : r.stack[i].n = r.stack[j].n => i = j
                      /\ j < L - 1 => r.mem[r.stack[j].n].right = r.stack[j + 1].n
                      /\ r.mem[Below(r, j)].height <= r.mem[r.mem[r.stack[j].n].left].height
    <3>1. r.stack \in Seq([n : Nat, left : {FALSE}])
      BY <1>2, <1>3
    <3> QED
      BY <1>4, <3>1 DEF OnStack
  <2> DEFINE x == t.stack[j].n
  <2>1. /\ r.stack[j] = t.stack[j] /\ x # n /\ x \in DOMAIN t.mem /\ t.mem[x].left # Null
        /\ t.mem[x].dirty
        /\ t.mem[x].right = t.stack[j + 1].n
        /\ t.mem[Below(t, j)].height <= t.mem[t.mem[x].left].height
        /\ Below(r, j) = Below(t, j) /\ Below(t, j) \in DOMAIN t.mem
    BY <1>14
  <2>2. \A i \in 1 .. L - 1 : r.stack[i].n = x => i = j
    <3> TAKE i \in 1 .. L - 1
    <3>1. i \in 1 .. L /\ r.stack[i] = t.stack[i]
      BY <1>14
    <3> QED
      BY <1>14, <3>1
  <2>3. j < L - 1 => r.stack[j + 1] = t.stack[j + 1]
    <3> HAVE j < L - 1
    <3>1. j + 1 \in 1 .. L - 1
      BY <1>2
    <3> QED
      BY <1>4, <3>1
  <2>4. t.mem[x].left \in DOMAIN t.mem
    BY <1>8, <2>1
  <2>5. r.mem[x].left = t.mem[x].left /\ r.mem[x].right = t.mem[x].right /\ r.mem[x].dirty
    BY <1>3, <2>1
  <2>6. /\ r.mem[t.mem[x].left].height = t.mem[t.mem[x].left].height
        /\ r.mem[Below(t, j)].height = t.mem[Below(t, j)].height
    BY <1>3, <2>1, <2>4
  <2> HIDE DEF x
  <2>7. r.stack[j].n = x
    BY <2>1 DEF x
  <2>8. /\ x \in DOMAIN r.mem /\ r.mem[x].left # Null /\ r.mem[x].dirty /\ x # r.root
    BY <1>3, <2>1, <2>5
  <2>9. j < L - 1 => r.mem[x].right = r.stack[j + 1].n
    BY <2>1, <2>3, <2>5
  <2>10. r.mem[Below(r, j)].height <= r.mem[r.mem[x].left].height
    BY <2>1, <2>5, <2>6
  <2> QED
    BY <2>2, <2>7, <2>8, <2>9, <2>10
<1>16. Positions(r, first, all, k)
  <2>1. ASSUME NEW x \in DOMAIN t.mem
        PROVE  /\ first[x] \in Nat \ {0}
               /\ r.mem[x].left # Null =>
                     /\ first[r.mem[x].left] = first[x]
                     /\ x \notin Stacked(r) =>
                           2 * first[r.mem[x].right] = 2 * first[x] + r.mem[r.mem[x].left].size + 1
               /\ r.mem[x].left = Null => first[x] \in 1 .. Len(all) /\ all[first[x]] = x
    <3>1. /\ first[x] \in Nat \ {0}
          /\ t.mem[x].left = Null => first[x] \in 1 .. Len(all) /\ all[first[x]] = x
          /\ t.mem[x].left # Null =>
                /\ first[t.mem[x].left] = first[x]
                /\ x \notin Stacked(t) =>
                      2 * first[t.mem[x].right] = 2 * first[x] + t.mem[t.mem[x].left].size + 1
      BY <1>1 DEF Positions
    <3>2. r.mem[x].left = t.mem[x].left
      BY <1>3
    <3>3. t.mem[x].left # Null => r.mem[t.mem[x].left].size = t.mem[t.mem[x].left].size
      BY <1>3, <1>8
    <3>4. CASE x = n
      <4>1. r.mem[x].right = t.root /\ t.mem[x].left = l
        BY <1>3, <3>4 DEF l
      <4> QED
        BY <1>2, <3>1, <3>2, <3>3, <3>4, <4>1
    <3>5. CASE x # n
      <4>1. r.mem[x].right = t.mem[x].right /\ (x \notin Stacked(r) => x \notin Stacked(t))
        BY <1>3, <1>5, <3>5
      <4> QED
        BY <3>1, <3>2, <3>3, <4>1
    <3> QED
      BY <3>4, <3>5
  <2>2. ASSUME NEW j \in 1 .. L - 1
        PROVE  2 * first[Below(r, j)] =
                  2 * first[r.stack[j].n] + r.mem[r.mem[r.stack[j].n].left].size + 1
    <3> DEFINE x == t.stack[j].n
    <3>1. /\ r.stack[j] = t.stack[j] /\ x \in DOMAIN t.mem /\ t.mem[x].left # Null
          /\ Below(r, j) = Below(t, j) /\ j \in 1 .. L
      BY <1>14
    <3>2. 2 * first[Below(t, j)] = 2 * first[x] + t.mem[t.mem[x].left].size + 1
      BY <1>1, <3>1 DEF Positions, L
    <3> HIDE DEF x
    <3>3. r.mem[x].left = t.mem[x].left /\ r.mem[t.mem[x].left].size = t.mem[t.mem[x].left].size
      BY <1>3, <1>8, <3>1
    <3>4. r.stack[j].n = x
      BY <3>1 DEF x
    <3> QED
      BY <3>1, <3>2, <3>3, <3>4
  <2>3. ASSUME NEW i \in 1 .. Len(all)
        PROVE  all[i] \in DOMAIN r.mem /\ r.mem[all[i]].left = Null /\ first[all[i]] = i
    BY <1>1, <1>3 DEF Positions
  <2> QED
    BY <1>3, <1>4, <2>1, <2>2, <2>3 DEF Positions
<1>17. Whole(r, first, k)
  <2>1. r.root \in DOMAIN r.mem
    BY <1>2, <1>3
  <2>2. first[Below(r, 0)] = 1
    <3>1. 0 \in 0 .. L - 1
      BY <1>2
    <3> QED
      BY <1>1, <1>6, <3>1 DEF Whole
  <2>3. 2 * first[n] + r.mem[n].size = 2 * k + 1
    <3>1. /\ 2 * first[t.root] + t.mem[t.root].size = 2 * k + 1
          /\ r.mem[n].size = t.mem[l].size + t.mem[t.root].size + 1
          /\ 2 * first[t.root] = 2 * first[n] + t.mem[l].size + 1
      BY <1>1, <1>2, <1>3 DEF Whole
    <3>2. first[t.root] \in Nat /\ first[n] \in Nat
      BY <1>1, <1>2 DEF Positions
    <3>3. t.mem[l].size \in Nat /\ t.mem[t.root].size \in Nat
      BY <1>1, <1>2 DEF NodesTyped
    <3>4. 2 * first[n] + (t.mem[l].size + t.mem[t.root].size + 1) = 2 * k + 1
      <4> DEFINE a == first[n]
                 b == first[t.root]
                 c == t.mem[l].size
                 d == t.mem[t.root].size
      <4>1. a \in Nat /\ b \in Nat /\ c \in Nat /\ d \in Nat /\ k \in Nat
        BY <1>1, <3>2, <3>3
      <4>2. 2 * b + d = 2 * k + 1 /\ 2 * b = 2 * a + c + 1
        BY <3>1
      <4>3. 2 * a + (c + d + 1) = 2 * k + 1
        <5> HIDE DEF a, b, c, d
        <5> QED
          BY <4>1, <4>2
      <4> QED
        BY <4>3
    <3> QED
      BY <3>1, <3>4
  <2> QED
    BY <1>1, <1>3, <2>1, <2>2, <2>3 DEF Whole
<1>18. Joined(r)
  <2> SUFFICES ASSUME Front(t.stack) # <<>>
               PROVE  r.mem[Last(Front(t.stack)).n].right = n
    BY <1>3 DEF Joined
  <2>1. L > 1 /\ Last(Front(t.stack)) = t.stack[L - 1] /\ t.mem[t.stack[L - 1].n].right = n
    BY <1>2
  <2>2. L - 1 \in 1 .. L - 1
    BY <1>2, <2>1
  <2>3. t.stack[L - 1].n \in DOMAIN t.mem /\ t.stack[L - 1].n # n
    BY <1>14, <2>2
  <2>4. r.mem[t.stack[L - 1].n].right = n
    BY <1>3, <2>1, <2>3
  <2> QED
    BY <2>1, <2>4
<1> QED
  BY <1>4, <1>9, <1>10, <1>11, <1>12, <1>13, <1>15, <1>16, <1>17, <1>18 DEF Shape, L

-----------------------------------------------------------------------------
(* A leaf is made the sibling of a full subtree.                           *)

LEMMA FreshIsNext ==
    ASSUME NEW m, NEW c \in Nat, DOMAIN m = 1 .. c
    PROVE  Fresh(m) = c + 1
<1>1. Cardinality(DOMAIN m) = c
  <2>1. 1 \in Int /\ c \in Int
    OBVIOUS
  <2>2. Cardinality(1 .. c) = IF c < 1 THEN 0 ELSE c - 1 + 1
    BY <2>1, FS_Interval
  <2>3. Cardinality(1 .. c) = c
    BY <2>2
  <2> QED
    BY <2>3
<1>2. \A n \in 1 .. c + 1 : n \notin DOMAIN m <=> n = c + 1
  OBVIOUS
<1>3. Fresh(m) = CHOOSE n \in 1 .. c + 1 : n \notin DOMAIN m
  BY <1>1 DEF Fresh
<1>4. c + 1 \in 1 .. c + 1
  OBVIOUS
<1> QED
  BY <1>2, <1>3, <1>4

\* A new node over the root and the leaf, on top of the stack.
Sibling(t, leaf) ==
    [t EXCEPT !.mem = make(t.mem, t.root, leaf),
              !.stack = Append(t.stack, [n |-> Fresh(t.mem), left |-> FALSE])]

\* r is t with the leaf and the root under a new root, f.
Extended(t, leaf, f, r) ==
    /\ DOMAIN r = Members
    /\ r.root = f /\ r.stack = t.stack
    /\ r.leaf_nodes = t.leaf_nodes /\ r.uninserted = t.uninserted
    /\ r.num_flushed = t.num_flushed
    /\ DOMAIN r.mem = DOMAIN t.mem \cup {f}
    /\ \A x \in DOMAIN t.mem : r.mem[x] = t.mem[x]
    /\ DOMAIN r.mem[f] = Fields
    /\ r.mem[f].left = t.root /\ r.mem[f].right = leaf
    /\ r.mem[f].size = t.mem[t.root].size + 2
    /\ r.mem[f].height = t.mem[t.root].height + 1
    /\ r.mem[f].dirty = TRUE

\* Sizes that are right do not change.
LEMMA UpdatedSizes ==
    ASSUME NEW m, NEW n \in DOMAIN m, DOMAIN m[n] = Fields,
           m[n].left # Null, m[n].right # Null, m[n].left # n, m[n].right # n,
           m[n].left \in DOMAIN m, m[n].right \in DOMAIN m,
           m[m[n].left].height \in Int, m[m[n].right].height \in Int,
           m[m[n].right].height <= m[m[n].left].height
    PROVE  LET u == update_sizes(m, n)
           IN  /\ DOMAIN u = DOMAIN m
               /\ \A x \in DOMAIN m : x # n => u[x] = m[x]
               /\ DOMAIN u[n] = Fields
               /\ u[n].hash = m[n].hash /\ u[n].left = m[n].left /\ u[n].right = m[n].right
               /\ u[n].size = m[m[n].left].size + m[m[n].right].size + 1
               /\ u[n].height = m[m[n].left].height + 1
               /\ u[n].dirty = m[n].dirty
<1> DEFINE l == m[m[n].left]
           r == m[m[n].right]
           node == [m[n] EXCEPT !.size = l.size + r.size + 1, !.height = Max({l.height, r.height}) + 1]
<1>1. update_sizes(m, n) = Put(m, n, node)
  <2>1. HasChildren(m, n)
    BY DEF HasChildren
  <2> QED
    BY <2>1 DEF update_sizes
<1>2. Max({l.height, r.height}) = l.height
  BY MaxOfTwo
<1>3. /\ DOMAIN node = Fields /\ node.hash = m[n].hash
      /\ node.left = m[n].left /\ node.right = m[n].right
      /\ node.size = l.size + r.size + 1 /\ node.height = l.height + 1
      /\ node.dirty = m[n].dirty
  BY <1>2 DEF Fields
<1> HIDE DEF node
<1>4. /\ DOMAIN Put(m, n, node) = DOMAIN m
      /\ \A x \in DOMAIN m : x # n => Put(m, n, node)[x] = m[x]
      /\ Put(m, n, node)[n] = node
  BY DEF Put
<1> QED
  BY <1>1, <1>3, <1>4

LEMMA ExtendEffect ==
    ASSUME NEW t, NEW first, NEW all, NEW k, Shape(t, first, all, k), k # 0, k < Len(all),
           NEW f, f = Len(all) + k, NEW leaf, leaf = all[k + 1],
           NEW e, e = Sibling(t, leaf), NEW r, r = Lifted(e, e.mem, f)
    PROVE  /\ Fresh(t.mem) = f
           /\ DOMAIN e = Members
           /\ Last(e.stack).n = f /\ Len(e.stack) = Len(t.stack) + 1
           /\ Extended(t, leaf, f, r)
<1>1. /\ Memory(t, all, k) /\ NodesTyped(t.mem) /\ Positions(t, first, all, k)
      /\ t.root \in DOMAIN t.mem /\ DOMAIN t = Members
      /\ t.stack \in Seq([n : Nat, left : {FALSE}]) /\ Len(t.stack) \in Nat
      /\ k \in Nat /\ Len(all) \in Nat /\ Null \notin DOMAIN t.mem
  BY ShapeFacts
<1>2. f \notin DOMAIN t.mem /\ Fresh(t.mem) = f /\ f \in Nat
  <2>1. DOMAIN t.mem = 1 .. Len(all) + k - 1 /\ Len(all) + k - 1 \in Nat
    BY <1>1 DEF Memory
  <2>2. Fresh(t.mem) = (Len(all) + k - 1) + 1
    <3> DEFINE c == Len(all) + k - 1
    <3> HIDE DEF c
    <3>1. Fresh(t.mem) = c + 1
      BY <2>1, FreshIsNext DEF c
    <3> QED
      BY <3>1 DEF c
  <2> QED
    BY <1>1, <2>1, <2>2
<1>3. leaf \in DOMAIN t.mem /\ t.mem[leaf].left = Null
  <2>1. k + 1 \in 1 .. Len(all)
    BY <1>1
  <2> QED
    BY <1>1, <2>1 DEF Positions
<1>4. t.mem[leaf].size = 1 /\ t.mem[leaf].height = 1
  BY <1>1, <1>3 DEF NodesTyped
<1> DEFINE node == [LeafNode(NoHash) EXCEPT !.left = t.root, !.right = leaf, !.dirty = TRUE]
           m == New(t.mem, node)
           u == update_sizes(m, f)
           v == update_sizes(u, f)
<1>5. /\ DOMAIN node = Fields /\ node.left = t.root /\ node.right = leaf /\ node.dirty = TRUE
  BY DEF LeafNode, Fields
<1>6. /\ DOMAIN m = DOMAIN t.mem \cup {f} /\ m[f] = node
      /\ \A x \in DOMAIN t.mem : m[x] = t.mem[x]
  <2> HIDE DEF node
  <2> QED
    BY <1>2, NewNode
<1>7. /\ t.mem[t.root].size \in Nat \ {0} /\ t.mem[t.root].height \in Nat \ {0}
  BY <1>1 DEF NodesTyped
<1>8. make(t.mem, t.root, leaf) = u
  BY <1>2 DEF make
<1> HIDE DEF node, m, u
<1>9. /\ f \in DOMAIN m /\ DOMAIN m[f] = Fields /\ m[f].left = t.root /\ m[f].right = leaf
      /\ m[f].dirty = TRUE
      /\ m[t.root].height = t.mem[t.root].height /\ m[leaf].height = 1
      /\ m[t.root].size = t.mem[t.root].size /\ m[leaf].size = 1
      /\ m[f].left # Null /\ m[f].right # Null /\ m[f].left # f /\ m[f].right # f
      /\ m[f].left \in DOMAIN m /\ m[f].right \in DOMAIN m
  BY <1>1, <1>2, <1>3, <1>4, <1>5, <1>6
<1>10. /\ m[m[f].left].height \in Int /\ m[m[f].right].height \in Int
       /\ m[m[f].right].height <= m[m[f].left].height
  BY <1>7, <1>9
<1>11. /\ DOMAIN u = DOMAIN m
       /\ \A x \in DOMAIN m : x # f => u[x] = m[x]
       /\ DOMAIN u[f] = Fields
       /\ u[f].left = t.root /\ u[f].right = leaf
       /\ u[f].dirty = TRUE
  BY <1>9, <1>10, UpdatedSizes DEF u
<1>12. /\ u[t.root] = m[t.root] /\ u[leaf] = m[leaf]
  BY <1>9, <1>11
<1>13. /\ DOMAIN v = DOMAIN u
       /\ \A x \in DOMAIN u : x # f => v[x] = u[x]
       /\ DOMAIN v[f] = Fields
       /\ v[f].left = t.root /\ v[f].right = leaf
       /\ v[f].size = u[t.root].size + u[leaf].size + 1
       /\ v[f].height = u[t.root].height + 1
       /\ v[f].dirty = TRUE
  <2>1. /\ f \in DOMAIN u /\ DOMAIN u[f] = Fields
        /\ u[f].left # Null /\ u[f].right # Null /\ u[f].left # f /\ u[f].right # f
        /\ u[f].left \in DOMAIN u /\ u[f].right \in DOMAIN u
        /\ u[u[f].left].height \in Int /\ u[u[f].right].height \in Int
        /\ u[u[f].right].height <= u[u[f].left].height
    BY <1>9, <1>10, <1>11, <1>12
  <2> QED
    BY <1>11, <2>1, UpdatedSizes
<1> HIDE DEF v
<1>14. v[f].size = t.mem[t.root].size + 2 /\ v[f].height = t.mem[t.root].height + 1
  <2>1. v[f].size = t.mem[t.root].size + 1 + 1
    BY <1>9, <1>12, <1>13
  <2> QED
    BY <1>7, <1>9, <1>12, <1>13, <2>1
<1>15. \A x \in DOMAIN t.mem : v[x] = t.mem[x]
  BY <1>2, <1>6, <1>11, <1>13
<1> DEFINE top == [n |-> f, left |-> FALSE]
<1>16. /\ e.stack = Append(t.stack, top) /\ e.mem = u /\ DOMAIN e = Members
       /\ e.leaf_nodes = t.leaf_nodes /\ e.uninserted = t.uninserted
       /\ e.num_flushed = t.num_flushed
  <2>1. e = [t EXCEPT !.mem = u, !.stack = Append(t.stack, top)]
    BY <1>2, <1>8 DEF Sibling
  <2> QED
    BY <1>1, <2>1 DEF Members
<1>17. /\ Append(t.stack, top) \in Seq([n : Nat, left : {FALSE}])
       /\ Append(t.stack, top) # <<>>
       /\ Len(Append(t.stack, top)) = Len(t.stack) + 1
       /\ Append(t.stack, top)[Len(t.stack) + 1] = top
       /\ Front(Append(t.stack, top)) = t.stack
  <2> DEFINE S == [n : Nat, left : {FALSE}]
  <2>1. top \in S /\ t.stack \in Seq(S)
    BY <1>1, <1>2
  <2> HIDE DEF S, top
  <2>2. /\ Append(t.stack, top) \in Seq(S)
        /\ Append(t.stack, top) # <<>>
        /\ Len(Append(t.stack, top)) = Len(t.stack) + 1
        /\ Append(t.stack, top)[Len(t.stack) + 1] = top
        /\ \A i \in 1 .. Len(t.stack) : Append(t.stack, top)[i] = t.stack[i]
    BY <2>1, AppendProperties
  <2>3. Front(Append(t.stack, top)) = t.stack
    <3>1. /\ Front(Append(t.stack, top)) \in Seq(S)
          /\ Len(Front(Append(t.stack, top))) = Len(t.stack)
          /\ \A j \in 1 .. Len(t.stack) : Front(Append(t.stack, top))[j] = Append(t.stack, top)[j]
      <4>1. Len(Append(t.stack, top)) - 1 = Len(t.stack)
        BY <1>1, <2>2
      <4> QED
        BY <2>2, <4>1, FrontOfSeq
    <3> QED
      BY <2>1, <2>2, <3>1, SeqEqual
  <2> QED
    BY <2>2, <2>3 DEF S
<1>18. Last(e.stack).n = f /\ Len(e.stack) = Len(t.stack) + 1
  BY <1>16, <1>17 DEF Last
<1>19. /\ DOMAIN r = Members /\ r.root = f /\ r.stack = t.stack /\ r.mem = v
       /\ r.leaf_nodes = t.leaf_nodes /\ r.uninserted = t.uninserted
       /\ r.num_flushed = t.num_flushed
  <2>1. /\ DOMAIN r = Members /\ r.root = f /\ r.stack = Front(e.stack) /\ r.mem = update_sizes(e.mem, f)
        /\ r.leaf_nodes = e.leaf_nodes /\ r.uninserted = e.uninserted
        /\ r.num_flushed = e.num_flushed
    BY <1>16 DEF Members, Lifted
  <2> QED
    BY <1>16, <1>17, <2>1 DEF v
<1> QED
  BY <1>2, <1>6, <1>11, <1>13, <1>14, <1>15, <1>16, <1>18, <1>19 DEF Extended

LEMMA ShapeExtend ==
    ASSUME NEW t, NEW first, NEW all, NEW k, Shape(t, first, all, k), k # 0, k < Len(all),
           is_full(t.mem, t.root), Roomy(t),
           NEW f, f = Len(all) + k, NEW leaf, leaf = all[k + 1],
           NEW r, Extended(t, leaf, f, r),
           NEW g, g = [x \in DOMAIN r.mem |-> IF x = f THEN first[t.root] ELSE first[x]]
    PROVE  Shape(r, g, all, k + 1)
<1> DEFINE L == Len(t.stack)
<1>1. /\ Memory(t, all, k) /\ NodesTyped(t.mem) /\ Balanced(t) /\ Current(t.mem)
      /\ Owned(t, all, k) /\ OnStack(t) /\ Positions(t, first, all, k) /\ Whole(t, first, k)
      /\ Null \notin DOMAIN t.mem /\ DOMAIN t.mem \subseteq Nat
      /\ t.stack \in Seq([n : Nat, left : {FALSE}]) /\ L \in Nat
      /\ t.root \notin Stacked(t)
      /\ t.root \in DOMAIN t.mem /\ t.root \notin Waiting(all, k)
      /\ k \in Nat /\ Len(all) \in Nat
  BY ShapeFacts
<1>2. /\ DOMAIN r = Members
      /\ r.root = f /\ r.stack = t.stack
      /\ DOMAIN r.mem = DOMAIN t.mem \cup {f}
      /\ \A x \in DOMAIN t.mem : r.mem[x] = t.mem[x]
      /\ DOMAIN r.mem[f] = Fields
      /\ r.mem[f].left = t.root /\ r.mem[f].right = leaf
      /\ r.mem[f].size = t.mem[t.root].size + 2
      /\ r.mem[f].height = t.mem[t.root].height + 1
      /\ r.mem[f].dirty = TRUE
  BY DEF Extended
<1>3. /\ DOMAIN t.mem = 1 .. Len(all) + k - 1 /\ f \notin DOMAIN t.mem /\ f \in Nat
  BY <1>1 DEF Memory
<1>4. /\ k + 1 \in 1 .. Len(all)
      /\ leaf \in DOMAIN t.mem /\ t.mem[leaf].left = Null /\ first[leaf] = k + 1
      /\ t.mem[leaf].size = 1 /\ t.mem[leaf].height = 1
      /\ leaf # f
  <2>1. k + 1 \in 1 .. Len(all)
    BY <1>1
  <2>2. leaf \in DOMAIN t.mem /\ t.mem[leaf].left = Null /\ first[leaf] = k + 1
    BY <1>1, <2>1 DEF Positions
  <2> QED
    BY <1>1, <1>3, <2>1, <2>2 DEF NodesTyped
<1>5. Stacked(r) = Stacked(t) /\ f \notin Stacked(t) /\ leaf \notin Stacked(t)
  <2>1. Stacked(r) = Stacked(t)
    BY <1>2 DEF Stacked
  <2>2. \A x \in Stacked(t) : x \in DOMAIN t.mem /\ t.mem[x].left # Null
    BY <1>1 DEF OnStack, Stacked
  <2> QED
    BY <1>3, <1>4, <2>1, <2>2
<1>6. leaf \in Waiting(all, k) /\ leaf \notin Waiting(all, k + 1)
      /\ Waiting(all, k + 1) \subseteq Waiting(all, k) /\ f \notin Waiting(all, k)
  <2>1. leaf \in Waiting(all, k)
    BY <1>1, <1>4 DEF Waiting
  <2>2. leaf \notin Waiting(all, k + 1)
    <3> SUFFICES ASSUME NEW i \in k + 2 .. Len(all), leaf = all[i] PROVE FALSE
      BY <1>1 DEF Waiting
    <3>1. i \in 1 .. Len(all)
      BY <1>1
    <3>2. first[leaf] = i
      BY <1>1, <3>1 DEF Positions
    <3> QED
      BY <1>1, <1>4, <3>2
  <2>3. ASSUME NEW x \in Waiting(all, k + 1) PROVE x \in Waiting(all, k)
    <3>1. PICK i \in k + 1 + 1 .. Len(all) : x = all[i]
      BY <2>3 DEF Waiting
    <3>2. i \in k + 1 .. Len(all)
      BY <1>1
    <3> QED
      BY <3>1, <3>2 DEF Waiting
  <2>4. ASSUME f \in Waiting(all, k) PROVE FALSE
    <3>1. PICK i \in k + 1 .. Len(all) : f = all[i]
      BY <2>4 DEF Waiting
    <3>2. i \in 1 .. Len(all)
      BY <1>1
    <3> QED
      BY <1>1, <1>3, <3>1, <3>2 DEF Positions
  <2> QED
    BY <2>1, <2>2, <2>3, <2>4
<1>7. /\ t.root # leaf /\ t.root # f
      /\ t.root \notin Tops(r, all, k + 1) /\ leaf \notin Tops(r, all, k + 1)
      /\ Tops(r, all, k + 1) \subseteq Tops(t, all, k) \cup {f}
      /\ t.root \in Tops(t, all, k) /\ leaf \in Tops(t, all, k)
  <2>1. t.root # leaf /\ t.root # f
    BY <1>1, <1>3, <1>6
  <2> QED
    BY <1>1, <1>2, <1>4, <1>5, <1>6, <2>1 DEF Tops
<1>8. \A x \in DOMAIN t.mem : t.mem[x].left # Null =>
         t.mem[x].left \in DOMAIN t.mem /\ t.mem[x].right \in DOMAIN t.mem
  BY <1>1 DEF NodesTyped
<1>9. \A x \in DOMAIN t.mem : g[x] = first[x]
  BY <1>2, <1>3
<1>10. g[f] = first[t.root]
  BY <1>2
<1>11. t.mem[t.root].size \in Nat \ {0} /\ t.mem[t.root].height \in Nat \ {0}
  BY <1>1 DEF NodesTyped
<1>12. \A j \in 0 .. L : Below(r, j) = IF j = L THEN f ELSE Below(t, j)
  BY <1>2 DEF Below
<1>13. \A j \in 1 .. L :
          /\ t.stack[j].n \in DOMAIN t.mem /\ t.mem[t.stack[j].n].left # Null
          /\ t.mem[t.stack[j].n].left \in DOMAIN t.mem
          /\ t.mem[t.stack[j].n].dirty
          /\ j # L => Below(t, j) \in DOMAIN t.mem
  <2> TAKE j \in 1 .. L
  <2>1. /\ t.stack[j].n \in DOMAIN t.mem /\ t.mem[t.stack[j].n].left # Null
        /\ t.mem[t.stack[j].n].dirty
    BY <1>1 DEF OnStack
  <2>2. ASSUME j # L PROVE Below(t, j) \in DOMAIN t.mem
    <3>1. j + 1 \in 1 .. L
      BY <1>1, <2>2
    <3>2. t.stack[j + 1].n \in DOMAIN t.mem
      BY <1>1, <3>1 DEF OnStack
    <3> QED
      BY <2>2, <3>2 DEF Below
  <2> QED
    BY <1>8, <2>1, <2>2
<1>14. Memory(r, all, k + 1)
  <2>1. DOMAIN r.mem = 1 .. Len(all) + (k + 1) - 1
    BY <1>1, <1>2, <1>3
  <2>2. k + 1 # 0 /\ k + 1 \in 0 .. Len(all) /\ all \in Seq(Nat)
    BY <1>1 DEF Memory
  <2> QED
    BY <1>2, <2>1, <2>2 DEF Memory
<1>15. NodesTyped(r.mem)
  <2> SUFFICES ASSUME NEW x \in DOMAIN r.mem
               PROVE  /\ DOMAIN r.mem[x] = Fields
                      /\ r.mem[x].left \in DOMAIN r.mem \cup {Null}
                      /\ r.mem[x].right \in DOMAIN r.mem \cup {Null}
                      /\ r.mem[x].left = Null <=> r.mem[x].right = Null
                      /\ r.mem[x].size \in Nat \ {0}
                      /\ r.mem[x].height \in Nat \ {0}
                      /\ r.mem[x].dirty \in BOOLEAN
                      /\ r.mem[x].size < 2 ^ r.mem[x].height
                      /\ r.mem[x].left = Null => r.mem[x].size = 1 /\ r.mem[x].height = 1 /\ ~r.mem[x].dirty
    BY DEF NodesTyped
  <2>1. CASE x # f
    <3>1. x \in DOMAIN t.mem /\ r.mem[x] = t.mem[x]
      BY <1>2, <2>1
    <3>2. /\ DOMAIN t.mem[x] = Fields
          /\ t.mem[x].left \in DOMAIN t.mem \cup {Null}
          /\ t.mem[x].right \in DOMAIN t.mem \cup {Null}
          /\ t.mem[x].left = Null <=> t.mem[x].right = Null
          /\ t.mem[x].size \in Nat \ {0}
          /\ t.mem[x].height \in Nat \ {0}
          /\ t.mem[x].dirty \in BOOLEAN
          /\ t.mem[x].size < 2 ^ t.mem[x].height
          /\ t.mem[x].left = Null => t.mem[x].size = 1 /\ t.mem[x].height = 1 /\ ~t.mem[x].dirty
      BY <1>1, <3>1 DEF NodesTyped
    <3> QED
      BY <1>2, <3>1, <3>2
  <2>2. CASE x = f
    <3> DEFINE h == t.mem[t.root].height
               s == t.mem[t.root].size
               p == 2 ^ h
    <3>1. 2 ^ (h + 1) = 2 * p /\ p \in Nat
      BY <1>11, PowerDoubles
    <3>2. s = p - 1
      BY DEF is_full
    <3>3. s + 2 < 2 * p
      <4> HIDE DEF s, p
      <4>1. s \in Nat \ {0}
        BY <1>11 DEF s
      <4> QED
        BY <3>1, <3>2, <4>1
    <3>4. r.mem[f].size < 2 ^ r.mem[f].height
      <4>1. r.mem[f].size = s + 2 /\ 2 ^ r.mem[f].height = 2 * p
        BY <1>2, <3>1
      <4> QED
        BY <3>3, <4>1
    <3>5. r.mem[f].size \in Nat \ {0} /\ r.mem[f].height \in Nat \ {0}
      <4>1. r.mem[f].size = s + 2 /\ r.mem[f].height = h + 1
        BY <1>2
      <4>2. s + 2 \in Nat \ {0} /\ h + 1 \in Nat \ {0}
        BY <1>11
      <4> QED
        BY <4>1, <4>2
    <3>6. r.mem[f].left # Null /\ r.mem[f].right # Null
      BY <1>1, <1>2, <1>4
    <3> QED
      BY <1>1, <1>2, <1>4, <2>2, <3>4, <3>5, <3>6
  <2> QED
    BY <2>1, <2>2
<1>16. Balanced(r)
  <2> SUFFICES ASSUME NEW x \in DOMAIN r.mem, r.mem[x].left # Null
               PROVE  /\ is_full(r.mem, r.mem[x].left)
                      /\ r.mem[x].height = r.mem[r.mem[x].left].height + 1
                      /\ x \notin Stacked(r) =>
                            /\ r.mem[r.mem[x].right].height <= r.mem[r.mem[x].left].height
                            /\ r.mem[x].size = r.mem[r.mem[x].left].size + r.mem[r.mem[x].right].size + 1
    BY DEF Balanced
  <2>1. CASE x # f
    <3>1. x \in DOMAIN t.mem /\ r.mem[x] = t.mem[x]
      BY <1>2, <2>1
    <3>2. r.mem[t.mem[x].left] = t.mem[t.mem[x].left] /\ r.mem[t.mem[x].right] = t.mem[t.mem[x].right]
      BY <1>2, <1>8, <3>1
    <3>3. /\ is_full(t.mem, t.mem[x].left)
          /\ t.mem[x].height = t.mem[t.mem[x].left].height + 1
          /\ x \notin Stacked(t) =>
                /\ t.mem[t.mem[x].right].height <= t.mem[t.mem[x].left].height
                /\ t.mem[x].size = t.mem[t.mem[x].left].size + t.mem[t.mem[x].right].size + 1
      BY <1>1, <3>1 DEF Balanced
    <3> QED
      BY <1>5, <3>1, <3>2, <3>3 DEF is_full
  <2>2. CASE x = f
    <3>1. r.mem[t.root] = t.mem[t.root] /\ r.mem[leaf] = t.mem[leaf]
      BY <1>1, <1>2, <1>4
    <3>2. is_full(r.mem, r.mem[x].left)
      BY <1>2, <2>2, <3>1 DEF is_full
    <3>3. r.mem[x].size = t.mem[t.root].size + 1 + 1
      BY <1>2, <1>11, <2>2
    <3>4. t.mem[leaf].height <= t.mem[t.root].height
      BY <1>4, <1>11
    <3> QED
      BY <1>2, <1>4, <2>2, <3>1, <3>2, <3>3, <3>4
  <2> QED
    BY <2>1, <2>2
<1>17. Current(r.mem)
  <2> SUFFICES ASSUME NEW x \in DOMAIN r.mem, r.mem[x].left # Null, ~r.mem[x].dirty
               PROVE  /\ ~r.mem[r.mem[x].left].dirty /\ ~r.mem[r.mem[x].right].dirty
                      /\ r.mem[x].hash = HASH_FUNCTION(r.mem[r.mem[x].left].hash, r.mem[r.mem[x].right].hash)
    BY DEF Current
  <2>1. x \in DOMAIN t.mem /\ r.mem[x] = t.mem[x]
    BY <1>2
  <2>2. r.mem[t.mem[x].left] = t.mem[t.mem[x].left] /\ r.mem[t.mem[x].right] = t.mem[t.mem[x].right]
    BY <1>2, <1>8, <2>1
  <2> QED
    BY <1>1, <2>1, <2>2 DEF Current
<1>18. Owned(r, all, k + 1)
  <2> SUFFICES ASSUME NEW x \in DOMAIN r.mem, r.mem[x].left # Null
               PROVE  /\ r.mem[x].left \notin Tops(r, all, k + 1)
                      /\ x \notin Stacked(r) => r.mem[x].right \notin Tops(r, all, k + 1)
                      /\ \A y \in DOMAIN r.mem :
                            r.mem[y].left # Null =>
                               /\ r.mem[x].left = r.mem[y].left => x = y
                               /\ x \notin Stacked(r) => r.mem[x].right # r.mem[y].left
                               /\ x \notin Stacked(r) /\ y \notin Stacked(r) /\ r.mem[x].right = r.mem[y].right
                                     => x = y
    BY DEF Owned
  <2>1. \A z \in DOMAIN t.mem : t.mem[z].left # Null =>
           /\ t.mem[z].left \notin Tops(t, all, k) /\ t.mem[z].left # f
           /\ t.mem[z].left # t.root /\ t.mem[z].left # leaf
           /\ z \notin Stacked(t) =>
                 /\ t.mem[z].right \notin Tops(t, all, k) /\ t.mem[z].right # f
                 /\ t.mem[z].right # t.root /\ t.mem[z].right # leaf
    BY <1>1, <1>3, <1>7, <1>8 DEF Owned
  <2>2. \A z \in DOMAIN r.mem : z # f => z \in DOMAIN t.mem /\ r.mem[z] = t.mem[z]
    BY <1>2
  <2>3. r.mem[x].left \notin Tops(r, all, k + 1)
    BY <1>2, <1>7, <2>1, <2>2
  <2>4. x \notin Stacked(r) => r.mem[x].right \notin Tops(r, all, k + 1)
    BY <1>2, <1>5, <1>7, <2>1, <2>2
  <2>5. ASSUME NEW y \in DOMAIN r.mem, r.mem[y].left # Null
        PROVE  /\ r.mem[x].left = r.mem[y].left => x = y
               /\ x \notin Stacked(r) => r.mem[x].right # r.mem[y].left
               /\ x \notin Stacked(r) /\ y \notin Stacked(r) /\ r.mem[x].right = r.mem[y].right
                     => x = y
    <3>1. CASE x = f /\ y = f
      BY <1>2, <1>7, <3>1
    <3>2. CASE x = f /\ y # f
      BY <1>2, <1>5, <2>1, <2>2, <2>5, <3>2
    <3>3. CASE x # f /\ y = f
      BY <1>2, <1>5, <2>1, <2>2, <3>3
    <3>4. CASE x # f /\ y # f
      <4>1. /\ x \in DOMAIN t.mem /\ r.mem[x] = t.mem[x] /\ t.mem[x].left # Null
            /\ y \in DOMAIN t.mem /\ r.mem[y] = t.mem[y] /\ t.mem[y].left # Null
        BY <2>2, <2>5, <3>4
      <4> QED
        BY <1>1, <1>5, <4>1 DEF Owned
    <3> QED
      BY <3>1, <3>2, <3>3, <3>4
  <2> QED
    BY <2>3, <2>4, <2>5
<1>19. OnStack(r)
  <2>a. /\ t.stack \in Seq([n : Nat, left : {FALSE}]) /\ L = Len(t.stack)
        /\ r.stack = t.stack /\ r.root = f
    BY <1>1, <1>2
  <2> SUFFICES ASSUME NEW j \in 1 .. L
               PROVE  LET n == t.stack[j].n
                      IN  /\ n \in DOMAIN r.mem /\ r.mem[n].left # Null /\ r.mem[n].dirty
                          /\ n # f
                          /\ \A i \in 1 .. L : t.stack[i].n = n => i = j
                          /\ j < L => r.mem[n].right = t.stack[j + 1].n
                          /\ r.mem[Below(r, j)].height <= r.mem[r.mem[n].left].height
    BY <2>a DEF OnStack
  <2> DEFINE n == t.stack[j].n
  <2>1. /\ n \in DOMAIN t.mem /\ t.mem[n].left # Null /\ t.mem[n].left \in DOMAIN t.mem
        /\ t.mem[n].dirty
        /\ j # L => Below(t, j) \in DOMAIN t.mem
    BY <1>13
  <2>2. /\ \A i \in 1 .. L : t.stack[i].n = n => i = j
        /\ j < L => t.mem[n].right = t.stack[j + 1].n
        /\ t.mem[Below(t, j)].height <= t.mem[t.mem[n].left].height
    BY <1>1 DEF OnStack
  <2>3. r.mem[n] = t.mem[n] /\ r.mem[t.mem[n].left] = t.mem[t.mem[n].left] /\ n # f
    BY <1>2, <1>3, <2>1
  <2>4. r.mem[Below(r, j)].height <= t.mem[t.mem[n].left].height
    <3>1. CASE j = L
      <4>1. t.stack # <<>> /\ Last(t.stack).n = n
        BY <1>1, <3>1, EmptySeq DEF Last
      <4>2. t.mem[t.root].height < t.mem[t.mem[n].left].height
        BY <4>1 DEF Roomy
      <4>3. Below(r, j) = f /\ r.mem[f].height = t.mem[t.root].height + 1
        BY <1>1, <1>2, <1>12, <3>1
      <4>4. t.mem[t.mem[n].left].height \in Nat
        BY <1>1, <2>1 DEF NodesTyped
      <4> QED
        BY <1>11, <4>2, <4>3, <4>4
    <3>2. CASE j # L
      <4>1. Below(r, j) = Below(t, j) /\ r.mem[Below(t, j)] = t.mem[Below(t, j)]
        BY <1>1, <1>2, <1>12, <2>1, <3>2
      <4> QED
        BY <2>2, <4>1
    <3> QED
      BY <3>1, <3>2
  <2> HIDE DEF n
  <2>5. /\ n \in DOMAIN r.mem /\ r.mem[n].left # Null /\ r.mem[n].dirty
        /\ n # f
        /\ \A i \in 1 .. L : t.stack[i].n = n => i = j
        /\ j < L => r.mem[n].right = t.stack[j + 1].n
        /\ r.mem[Below(r, j)].height <= r.mem[r.mem[n].left].height
    BY <1>2, <2>1, <2>2, <2>3, <2>4
  <2> QED
    BY <2>5 DEF n
<1>20. Positions(r, g, all, k + 1)
  <2>1. ASSUME NEW x \in DOMAIN r.mem
        PROVE  /\ g[x] \in Nat \ {0}
               /\ r.mem[x].left # Null =>
                     /\ g[r.mem[x].left] = g[x]
                     /\ x \notin Stacked(r) =>
                           2 * g[r.mem[x].right] = 2 * g[x] + r.mem[r.mem[x].left].size + 1
               /\ r.mem[x].left = Null => g[x] \in 1 .. Len(all) /\ all[g[x]] = x
    <3>1. CASE x = f
      <4>1. /\ r.mem[x].left = t.root /\ r.mem[x].right = leaf
            /\ g[t.root] = first[t.root] /\ g[leaf] = k + 1 /\ g[x] = first[t.root]
            /\ r.mem[t.root] = t.mem[t.root]
        BY <1>1, <1>2, <1>4, <1>9, <1>10, <3>1
      <4>2. first[t.root] \in Nat \ {0} /\ 2 * first[t.root] + t.mem[t.root].size = 2 * k + 1
        BY <1>1 DEF Positions, Whole
      <4>3. 2 * (k + 1) = 2 * first[t.root] + t.mem[t.root].size + 1
        BY <1>1, <1>11, <4>2
      <4> QED
        BY <1>1, <4>1, <4>2, <4>3
    <3>2. CASE x # f
      <4>1. x \in DOMAIN t.mem /\ r.mem[x] = t.mem[x] /\ g[x] = first[x]
        BY <1>2, <1>9, <3>2
      <4>2. t.mem[x].left # Null =>
               /\ g[t.mem[x].left] = first[t.mem[x].left] /\ g[t.mem[x].right] = first[t.mem[x].right]
               /\ r.mem[t.mem[x].left] = t.mem[t.mem[x].left]
        BY <1>2, <1>8, <1>9, <4>1
      <4>3. /\ first[x] \in Nat \ {0}
            /\ t.mem[x].left = Null => first[x] \in 1 .. Len(all) /\ all[first[x]] = x
            /\ t.mem[x].left # Null =>
                  /\ first[t.mem[x].left] = first[x]
                  /\ x \notin Stacked(t) =>
                        2 * first[t.mem[x].right] = 2 * first[x] + t.mem[t.mem[x].left].size + 1
        BY <1>1, <4>1 DEF Positions
      <4> QED
        BY <1>5, <4>1, <4>2, <4>3
    <3> QED
      BY <3>1, <3>2
  <2>2. ASSUME NEW j \in 1 .. L
        PROVE  2 * g[Below(r, j)] = 2 * g[t.stack[j].n] + r.mem[r.mem[t.stack[j].n].left].size + 1
    <3> DEFINE n == t.stack[j].n
    <3>1. /\ n \in DOMAIN t.mem /\ t.mem[n].left # Null /\ t.mem[n].left \in DOMAIN t.mem
          /\ j # L => Below(t, j) \in DOMAIN t.mem
      BY <1>13
    <3>2. 2 * first[Below(t, j)] = 2 * first[n] + t.mem[t.mem[n].left].size + 1
      BY <1>1 DEF Positions
    <3> HIDE DEF n
    <3>3. r.mem[n].left = t.mem[n].left /\ r.mem[t.mem[n].left] = t.mem[t.mem[n].left] /\ g[n] = first[n]
      BY <1>2, <1>9, <3>1
    <3>4. g[Below(r, j)] = first[Below(t, j)]
      <4>1. CASE j = L
        <5>1. Below(r, j) = f /\ Below(t, j) = t.root
          BY <1>1, <1>12, <4>1 DEF Below
        <5> QED
          BY <1>10, <5>1
      <4>2. CASE j # L
        <5>1. j \in 0 .. L
          BY <1>1
        <5>2. Below(r, j) = Below(t, j) /\ Below(t, j) \in DOMAIN t.mem
          BY <1>12, <3>1, <4>2, <5>1
        <5> QED
          BY <1>9, <5>2
      <4> QED
        BY <4>1, <4>2
    <3> QED
      BY <3>2, <3>3, <3>4 DEF n
  <2>3. ASSUME NEW i \in 1 .. Len(all)
        PROVE  all[i] \in DOMAIN r.mem /\ r.mem[all[i]].left = Null /\ g[all[i]] = i
    BY <1>1, <1>2, <1>9 DEF Positions
  <2>4. \A j \in 1 .. Len(r.stack) :
          2 * g[Below(r, j)] = 2 * g[r.stack[j].n] + r.mem[r.mem[r.stack[j].n].left].size + 1
    BY <1>2, <2>2
  <2> QED
    BY <2>1, <2>3, <2>4 DEF Positions
<1>21. Whole(r, g, k + 1)
  <2>1. 2 * g[f] + r.mem[f].size = 2 * (k + 1) + 1
    <3>1. 2 * first[t.root] + t.mem[t.root].size = 2 * k + 1 /\ first[t.root] \in Nat
      BY <1>1 DEF Whole, Positions
    <3>2. 2 * first[t.root] + (t.mem[t.root].size + 2) = 2 * (k + 1) + 1
      <4> DEFINE a == first[t.root]
                 b == t.mem[t.root].size
      <4> HIDE DEF a, b
      <4>1. 2 * a + b = 2 * k + 1 /\ a \in Nat /\ b \in Nat
        BY <1>11, <3>1 DEF a, b
      <4>2. 2 * a + (b + 2) = 2 * (k + 1) + 1
        BY <1>1, <4>1
      <4> QED
        BY <4>2 DEF a, b
    <3> QED
      BY <1>2, <1>10, <3>2
  <2>2. g[Below(r, 0)] = 1
    <3>1. first[Below(t, 0)] = 1
      BY <1>1 DEF Whole
    <3>2. CASE L = 0
      <4>1. Below(r, 0) = f /\ Below(t, 0) = t.root
        BY <1>2, <3>2 DEF Below
      <4> QED
        BY <1>10, <3>1, <4>1
    <3>3. CASE L # 0
      <4>1. 1 \in 1 .. L /\ Below(t, 0) = t.stack[1].n /\ Below(r, 0) = t.stack[1].n
        BY <1>1, <1>2, <3>3 DEF Below
      <4>2. t.stack[1].n \in DOMAIN t.mem
        BY <1>13, <4>1
      <4> QED
        BY <1>9, <3>1, <4>1, <4>2
    <3> QED
      BY <3>2, <3>3
  <2> QED
    BY <1>1, <1>2, <2>1, <2>2 DEF Whole
<1> QED
  BY <1>14, <1>15, <1>16, <1>17, <1>18, <1>19, <1>20, <1>21 DEF Shape

-----------------------------------------------------------------------------
(* The loops.                                                              *)

DownStep(t) == IF is_full(t.mem, t.root) THEN t ELSE Descend(t)

\* f is the tree after each of h rounds.
DownFrom(t, h, f) == f[1] = t /\ \A i \in 1 .. h - 1 : f[i + 1] = DownStep(f[i])

LEMMA DownUnfolds ==
    ASSUME NEW t, NEW h \in Nat \ {0}, h = t.mem[t.root].height, NEW leaf
    PROVE  \E f : /\ DownFrom(t, h, f)
                  /\ continue_insertion_stack(t, leaf) = Sibling(f[h], leaf)
<1> DEFINE Down(f, m) ==
             f = [k \in 1 .. m |->
                    IF k = 1 THEN t
                    ELSE IF is_full(f[k - 1].mem, f[k - 1].root) THEN f[k - 1]
                    ELSE Descend(f[k - 1])]
           T == {m \in Nat : \E f : Down(f, m)}
<1>1. 0 \in T
  <2>1. Down([i \in 1 .. 0 |-> 0], 0)
    OBVIOUS
  <2> HIDE DEF Down
  <2> QED
    BY <2>1
<1>2. ASSUME NEW m \in Nat, m \in T PROVE m + 1 \in T
  <2>1. PICK f : Down(f, m)
    BY <1>2
  <2> DEFINE g == [k \in 1 .. m + 1 |->
                      IF k <= m THEN f[k] ELSE IF k = 1 THEN t ELSE DownStep(f[m])]
  <2>2. ASSUME NEW k \in 1 .. m + 1
        PROVE  g[k] = IF k = 1 THEN t
                      ELSE IF is_full(g[k - 1].mem, g[k - 1].root) THEN g[k - 1]
                      ELSE Descend(g[k - 1])
    <3>1. CASE k <= m
      <4>1. k \in 1 .. m /\ g[k] = f[k]
        BY <3>1
      <4>2. f[k] = IF k = 1 THEN t
                   ELSE IF is_full(f[k - 1].mem, f[k - 1].root) THEN f[k - 1]
                   ELSE Descend(f[k - 1])
        BY <2>1, <4>1
      <4>3. k # 1 => g[k - 1] = f[k - 1]
        BY <3>1
      <4> QED
        BY <4>1, <4>2, <4>3
    <3>2. CASE ~ (k <= m)
      <4>1. k = m + 1
        BY <3>2
      <4>2. k # 1 => k - 1 = m /\ m \in 1 .. m + 1 /\ m <= m /\ g[m] = f[m]
        BY <4>1
      <4>3. g[k] = IF k = 1 THEN t ELSE DownStep(f[m])
        BY <3>2
      <4> HIDE DEF g
      <4> QED
        BY <4>1, <4>2, <4>3 DEF DownStep
    <3> QED
      BY <3>1, <3>2
  <2>3. Down(g, m + 1)
    BY <2>2
  <2> HIDE DEF Down, g
  <2> QED
    BY <2>3
<1>3. h \in T
  BY <1>1, <1>2, SetInduction
<1> DEFINE down == CHOOSE f : Down(f, h)
<1>4. Down(down, h)
  BY <1>3
<1>5. continue_insertion_stack(t, leaf) = Sibling(down[h], leaf)
  BY DEF continue_insertion_stack, Sibling
<1> HIDE DEF down
<1>6. down[1] = t
  BY <1>4
<1>7. \A i \in 1 .. h - 1 : down[i + 1] = DownStep(down[i])
  <2> TAKE i \in 1 .. h - 1
  <2>1. i + 1 \in 1 .. h /\ i + 1 # 1 /\ (i + 1) - 1 = i
    OBVIOUS
  <2> QED
    BY <1>4, <2>1 DEF DownStep
<1> QED
  BY <1>5, <1>6, <1>7 DEF DownFrom

UpStep(t, complete, i) ==
    IF i > 1 /\ ~complete /\ ~is_full(t.mem, t.root) THEN t ELSE Ascend(t)

UpFrom(s, h, complete, f) ==
    f[1] = s /\ \A i \in 1 .. h - 1 : f[i + 1] = UpStep(f[i], complete, i)

LEMMA UpUnfolds ==
    ASSUME NEW t, Len(t.stack) \in Nat \ {0}, NEW complete
    PROVE  \E f : /\ UpFrom(Lifted(t, t.mem, Last(t.stack).n), Len(t.stack), complete, f)
                  /\ process_insertion_stack(t, complete) = f[Len(t.stack)]
<1> PICK h \in Nat \ {0} : h = Len(t.stack)
  OBVIOUS
<1> PICK n : n = Last(t.stack).n
  OBVIOUS
<1> DEFINE s == Lifted(t, t.mem, n)
           Up(f, m) ==
             f = [k \in 1 .. m |->
                    IF k = 1 THEN s
                    ELSE IF k > 2 /\ ~complete /\ ~is_full(f[k - 1].mem, f[k - 1].root) THEN f[k - 1]
                    ELSE Ascend(f[k - 1])]
           T == {m \in Nat : \E f : Up(f, m)}
<1>a. process_insertion_stack(t, complete) = (CHOOSE f : Up(f, h))[h]
  BY DEF process_insertion_stack, Lifted
<1> HIDE DEF s
<1>1. 0 \in T
  <2>1. Up([i \in 1 .. 0 |-> 0], 0)
    OBVIOUS
  <2> HIDE DEF Up
  <2> QED
    BY <2>1
<1>2. ASSUME NEW m \in Nat, m \in T PROVE m + 1 \in T
  <2>1. PICK f : Up(f, m)
    BY <1>2
  <2> DEFINE g == [k \in 1 .. m + 1 |->
                      IF k <= m THEN f[k] ELSE IF k = 1 THEN s ELSE UpStep(f[m], complete, m)]
  <2>2. ASSUME NEW k \in 1 .. m + 1
        PROVE  g[k] = IF k = 1 THEN s
                      ELSE IF k > 2 /\ ~complete /\ ~is_full(g[k - 1].mem, g[k - 1].root) THEN g[k - 1]
                      ELSE Ascend(g[k - 1])
    <3>1. CASE k <= m
      <4>1. k \in 1 .. m /\ g[k] = f[k]
        BY <3>1
      <4>2. f[k] = IF k = 1 THEN s
                   ELSE IF k > 2 /\ ~complete /\ ~is_full(f[k - 1].mem, f[k - 1].root) THEN f[k - 1]
                   ELSE Ascend(f[k - 1])
        BY <2>1, <4>1
      <4>3. k # 1 => g[k - 1] = f[k - 1]
        BY <3>1
      <4> QED
        BY <4>1, <4>2, <4>3
    <3>2. CASE ~ (k <= m)
      <4>1. k = m + 1
        BY <3>2
      <4>2. k # 1 => k - 1 = m /\ m \in 1 .. m + 1 /\ m <= m /\ g[m] = f[m]
        BY <4>1
      <4>3. g[k] = IF k = 1 THEN s ELSE UpStep(f[m], complete, m)
        BY <3>2
      <4>4. k > 2 <=> m > 1
        BY <4>1
      <4> HIDE DEF g
      <4> QED
        BY <4>1, <4>2, <4>3, <4>4 DEF UpStep
    <3> QED
      BY <3>1, <3>2
  <2>3. Up(g, m + 1)
    BY <2>2
  <2> HIDE DEF Up, g
  <2> QED
    BY <2>3
<1>3. h \in T
  BY <1>1, <1>2, SetInduction
<1> DEFINE up == CHOOSE f : Up(f, h)
<1>4. Up(up, h)
  BY <1>3
<1>5. process_insertion_stack(t, complete) = up[h]
  BY <1>a
<1> HIDE DEF up
<1>6. up[1] = s
  BY <1>4
<1>7. \A i \in 1 .. h - 1 : up[i + 1] = UpStep(up[i], complete, i)
  <2> TAKE i \in 1 .. h - 1
  <2>1. i + 1 \in 1 .. h /\ i + 1 # 1 /\ (i + 1) - 1 = i /\ (i + 1 > 2 <=> i > 1)
    OBVIOUS
  <2> QED
    BY <1>4, <2>1 DEF UpStep
<1> QED
  BY <1>5, <1>6, <1>7 DEF s, UpFrom

\* The leaves that a step keeps, and their hashes.
Kept(t, r) ==
    /\ DOMAIN t.mem \subseteq DOMAIN r.mem
    /\ \A x \in DOMAIN t.mem : r.mem[x].hash = t.mem[x].hash
    /\ r.leaf_nodes = t.leaf_nodes /\ r.uninserted = t.uninserted
    /\ r.num_flushed = t.num_flushed

\* The way down ends at a subtree that is full.
LEMMA DownEnds ==
    ASSUME NEW t, NEW first, NEW all, NEW k, Shape(t, first, all, k), k # 0,
           Joined(t), Roomy(t),
           NEW h \in Nat \ {0}, h = t.mem[t.root].height, NEW f, DownFrom(t, h, f)
    PROVE  /\ Shape(f[h], first, all, k) /\ Roomy(f[h]) /\ Kept(t, f[h])
           /\ is_full(f[h].mem, f[h].root)
<1> DEFINE P(i) == /\ Shape(f[i], first, all, k) /\ Joined(f[i]) /\ Roomy(f[i]) /\ Kept(t, f[i])
                   /\ ~is_full(f[i].mem, f[i].root) => f[i].mem[f[i].root].height + i <= h + 1
           T == {i \in Nat : i + 1 \in 1 .. h => P(i + 1)}
<1>a. f[1] = t /\ \A i \in 1 .. h - 1 : f[i + 1] = DownStep(f[i])
  BY DEF DownFrom
<1>1. 0 \in T
  <2>1. Kept(t, t)
    BY DEF Kept
  <2>2. P(1)
    BY <1>a, <2>1
  <2> HIDE DEF P
  <2> QED
    BY <2>2
<1>2. ASSUME NEW i \in Nat, i \in T PROVE i + 1 \in T
  <2> SUFFICES ASSUME (i + 1) + 1 \in 1 .. h PROVE P((i + 1) + 1)
    OBVIOUS
  <2> DEFINE a == f[i + 1]
             b == f[(i + 1) + 1]
  <2>1. i + 1 \in 1 .. h /\ i + 1 \in 1 .. h - 1
    OBVIOUS
  <2>2. P(i + 1) /\ b = DownStep(a)
    BY <1>2, <1>a, <2>1
  <2> HIDE DEF a, b
  <2>a. /\ Shape(a, first, all, k) /\ Joined(a) /\ Roomy(a) /\ Kept(t, a)
        /\ ~is_full(a.mem, a.root) => a.mem[a.root].height + (i + 1) <= h + 1
    BY <2>2 DEF a
  <2>3. CASE is_full(a.mem, a.root)
    <3>1. b = a
      BY <2>2, <2>3 DEF DownStep
    <3>2. /\ Shape(b, first, all, k) /\ Joined(b) /\ Roomy(b) /\ Kept(t, b)
          /\ is_full(b.mem, b.root)
      BY <2>a, <2>3, <3>1
    <3> QED
      BY <3>2 DEF b
  <2>4. CASE ~is_full(a.mem, a.root)
    <3>1. b = Descend(a)
      BY <2>2, <2>4 DEF DownStep
    <3>2. /\ Shape(b, first, all, k) /\ Joined(b) /\ Roomy(b)
          /\ b.mem[b.root].height < a.mem[a.root].height
          /\ DOMAIN b.mem = DOMAIN a.mem
          /\ b.leaf_nodes = a.leaf_nodes /\ b.uninserted = a.uninserted
          /\ b.num_flushed = a.num_flushed
          /\ \A x \in DOMAIN a.mem : b.mem[x].hash = a.mem[x].hash
      BY <2>a, <2>4, <3>1, ShapeDescend
    <3>3. Kept(t, b)
      BY <2>a, <3>2 DEF Kept
    <3>4. b.mem[b.root].height \in Nat /\ a.mem[a.root].height \in Nat
      <4>1. /\ NodesTyped(a.mem) /\ a.root \in DOMAIN a.mem
            /\ NodesTyped(b.mem) /\ b.root \in DOMAIN b.mem
        BY <2>a, <3>2, ShapeFacts
      <4> QED
        BY <4>1 DEF NodesTyped
    <3>5. b.mem[b.root].height + ((i + 1) + 1) <= h + 1
      BY <2>a, <2>4, <3>2, <3>4
    <3> QED
      BY <3>2, <3>3, <3>5 DEF b
  <2> QED
    BY <2>3, <2>4
<1>3. \A i \in Nat : i \in T
  <2> HIDE DEF T
  <2> QED
    BY <1>1, <1>2, SetInduction
<1>4. h - 1 \in Nat /\ (h - 1) + 1 = h /\ h \in 1 .. h
  OBVIOUS
<1>5. P(h)
  BY <1>3, <1>4
<1>6. is_full(f[h].mem, f[h].root)
  <2> DEFINE n == f[h].root
             m == f[h].mem
  <2> SUFFICES ASSUME ~is_full(m, n) PROVE FALSE
    OBVIOUS
  <2>a. Shape(f[h], first, all, k) /\ m[n].height + h <= h + 1
    BY <1>5
  <2>1. NodesTyped(m) /\ n \in DOMAIN m /\ m[n].height + h <= h + 1
    <3> HIDE DEF P, T
    <3> QED
      BY <2>a, ShapeFacts
  <2> HIDE DEF m, n
  <2>2. /\ m[n].height \in Nat \ {0} /\ m[n].size \in Nat \ {0} /\ m[n].size < 2 ^ m[n].height
    BY <2>1 DEF NodesTyped
  <2>3. m[n].height = 1
    BY <2>1, <2>2
  <2>4. 2 ^ m[n].height = 2
    BY <2>3, PowerOne
  <2>5. m[n].size = 1
    BY <2>2, <2>4
  <2> QED
    BY <2>4, <2>5 DEF is_full
<1> QED
  BY <1>5, <1>6

\* Where the insertion of k leaves ends, u, that was s when it went up.
Ended(s, u, first, all, k, complete) ==
    /\ Shape(u, first, all, k) /\ Kept(s, u) /\ Resumable(u)
    /\ complete => u.stack = <<>>

\* The way up ends where the subtree in hand has room, or at the root.
LEMMA UpEnds ==
    ASSUME NEW h \in Nat \ {0}, NEW f, NEW first, NEW all, NEW k, NEW complete,
           NEW s, Shape(s, first, all, k), k # 0, Len(s.stack) = h - 1, UpFrom(s, h, complete, f)
    PROVE  Ended(s, f[h], first, all, k, complete)
<1> DEFINE P(i) == /\ Shape(f[i], first, all, k) /\ Kept(s, f[i])
                   /\ \/ Len(f[i].stack) = h - i
                      \/ ~complete /\ i > 1 /\ Joined(f[i]) /\ ~is_full(f[i].mem, f[i].root)
                   /\ i > 1 => Joined(f[i])
           T == {i \in Nat : i + 1 \in 1 .. h => P(i + 1)}
<1>a. f[1] = s /\ \A i \in 1 .. h - 1 : f[i + 1] = UpStep(f[i], complete, i)
  BY DEF UpFrom
<1>1. 0 \in T
  <2>1. Kept(s, s)
    BY DEF Kept
  <2>2. P(1)
    BY <1>a, <2>1
  <2> HIDE DEF P
  <2> QED
    BY <2>2
<1>2. ASSUME NEW i \in Nat, i \in T PROVE i + 1 \in T
  <2> SUFFICES ASSUME (i + 1) + 1 \in 1 .. h PROVE P((i + 1) + 1)
    OBVIOUS
  <2> DEFINE a == f[i + 1]
             b == f[(i + 1) + 1]
  <2>1. i + 1 \in 1 .. h /\ i + 1 \in 1 .. h - 1
    OBVIOUS
  <2>2. P(i + 1) /\ b = UpStep(a, complete, i + 1)
    BY <1>2, <1>a, <2>1
  <2> HIDE DEF a, b
  <2>3. /\ Shape(a, first, all, k) /\ Kept(s, a)
        /\ \/ Len(a.stack) = h - (i + 1)
           \/ ~complete /\ i + 1 > 1 /\ Joined(a) /\ ~is_full(a.mem, a.root)
        /\ i + 1 > 1 => Joined(a)
    BY <2>2 DEF a
  <2>4. CASE i + 1 > 1 /\ ~complete /\ ~is_full(a.mem, a.root)
    <3>1. b = a
      BY <2>2, <2>4 DEF UpStep
    <3> QED
      BY <2>3, <2>4, <3>1 DEF b
  <2>5. CASE ~ (i + 1 > 1 /\ ~complete /\ ~is_full(a.mem, a.root))
    <3>1. b = Ascend(a)
      BY <2>2, <2>5 DEF UpStep
    <3>2. Len(a.stack) = h - (i + 1) /\ Len(a.stack) # 0
      BY <2>3, <2>5
    <3>3. a.stack # <<>>
      BY <3>2
    <3>4. Popped(a, b)
      BY <2>3, <3>1, <3>3, AscendEffect
    <3>5. Shape(b, first, all, k) /\ Joined(b) /\ Len(b.stack) = Len(a.stack) - 1
      BY <2>3, <3>3, <3>4, ShapePop
    <3>6. Kept(s, b)
      BY <2>3, <3>4 DEF Kept, Popped
    <3>7. Len(b.stack) = h - ((i + 1) + 1)
      BY <3>2, <3>5
    <3> QED
      BY <3>5, <3>6, <3>7 DEF b
  <2> QED
    BY <2>4, <2>5
<1>3. \A i \in Nat : i \in T
  <2> HIDE DEF T
  <2> QED
    BY <1>1, <1>2, SetInduction
<1>4. h - 1 \in Nat /\ (h - 1) + 1 = h /\ h \in 1 .. h
  OBVIOUS
<1>5. P(h)
  BY <1>3, <1>4
<1>6. CASE Len(f[h].stack) = h - h
  <2>1. f[h].stack \in Seq([n : Nat, left : {FALSE}])
    BY <1>5, ShapeFacts
  <2>2. Len(f[h].stack) = 0
    BY <1>6
  <2>3. f[h].stack = <<>>
    BY <2>1, <2>2, EmptySeq
  <2> QED
    BY <1>5, <2>3 DEF Resumable, Joined, Ended
<1>7. CASE ~complete /\ h > 1 /\ Joined(f[h]) /\ ~is_full(f[h].mem, f[h].root)
  BY <1>5, <1>7 DEF Resumable, Ended
<1> QED
  BY <1>5, <1>6, <1>7

\* What the insertion of a leaf does to a tree that has leaves.
LEMMA InsertBelow ==
    ASSUME NEW t, NEW first, NEW all, NEW k, Shape(t, first, all, k), k # 0, k < Len(all),
           Resumable(t), NEW leaf, leaf = all[k + 1],
           NEW r, r = process_insertion_stack(continue_insertion_stack(t, leaf), FALSE)
    PROVE  \E g : Shape(r, g, all, k + 1) /\ Resumable(r) /\ Kept(t, r)
<1> DEFINE h == t.mem[t.root].height
           F == Len(all) + k
           no == FALSE
<1>1. /\ NodesTyped(t.mem) /\ t.root \in DOMAIN t.mem /\ k \in Nat /\ Len(all) \in Nat
  BY ShapeFacts
<1>2. h \in Nat \ {0}
  BY <1>1 DEF NodesTyped
<1>3. Joined(t) /\ Roomy(t)
  BY DEF Resumable, Roomy
<1>a. h = t.mem[t.root].height
  OBVIOUS
<1> HIDE DEF h, no
<1>4. PICK f : /\ DownFrom(t, h, f)
               /\ continue_insertion_stack(t, leaf) = Sibling(f[h], leaf)
  BY <1>2, <1>a, DownUnfolds
<1> DEFINE at == f[h]
           e == continue_insertion_stack(t, leaf)
           s == Lifted(e, e.mem, F)
<1>5. /\ Shape(at, first, all, k) /\ Roomy(at) /\ Kept(t, at) /\ is_full(at.mem, at.root)
  BY <1>2, <1>3, <1>4, <1>a, DownEnds
<1>6. Fresh(at.mem) = F
  <2>1. DOMAIN at.mem = 1 .. Len(all) + k - 1
    BY <1>5, ShapeFacts DEF Memory
  <2> DEFINE c == Len(all) + k - 1
  <2>2. c \in Nat /\ DOMAIN at.mem = 1 .. c /\ c + 1 = F
    BY <1>1, <2>1
  <2> HIDE DEF c, F, at
  <2>3. Fresh(at.mem) = c + 1
    BY <2>2, FreshIsNext
  <2> QED
    BY <2>2, <2>3
<1>7. e = Sibling(at, leaf)
  BY <1>4
<1>b. F = Len(all) + k
  OBVIOUS
<1>c. s = Lifted(e, e.mem, F)
  OBVIOUS
<1> HIDE DEF at, e, s, F
<1>8. /\ Last(e.stack).n = F /\ Len(e.stack) = Len(at.stack) + 1
      /\ Extended(at, leaf, F, s)
  BY <1>5, <1>7, <1>b, <1>c, ExtendEffect
<1>9. PICK g : g = [x \in DOMAIN s.mem |-> IF x = F THEN first[at.root] ELSE first[x]]
  OBVIOUS
<1>10. Shape(s, g, all, k + 1)
  BY <1>5, <1>8, <1>9, ShapeExtend DEF F
<1>11. Kept(at, s)
  BY <1>8 DEF Kept, Extended
<1>12. Len(e.stack) \in Nat \ {0} /\ Len(s.stack) = Len(e.stack) - 1
  <2>1. s.stack = at.stack
    BY <1>8 DEF Extended
  <2>2. Len(at.stack) \in Nat
    BY <1>5, ShapeFacts
  <2> QED
    BY <1>8, <2>1, <2>2
<1>13. PICK u : UpFrom(s, Len(e.stack), no, u) /\ r = u[Len(e.stack)]
  <2> DEFINE m == Len(e.stack)
  <2>1. m \in Nat \ {0} /\ m = Len(e.stack) /\ F = Last(e.stack).n
    BY <1>8, <1>12
  <2> HIDE DEF m
  <2>2. \E u : UpFrom(Lifted(e, e.mem, F), m, no, u) /\ process_insertion_stack(e, no) = u[m]
    <3>1. Len(e.stack) \in Nat \ {0}
      BY <2>1
    <3> QED
      BY <2>1, <3>1, UpUnfolds
  <2>3. r = process_insertion_stack(e, no)
    BY DEF e, no
  <2> QED
    BY <1>c, <2>1, <2>2, <2>3
<1>14. Shape(r, g, all, k + 1) /\ Kept(s, r) /\ Resumable(r)
  <2> DEFINE m == Len(e.stack)
  <2>1. /\ m \in Nat \ {0} /\ k + 1 # 0 /\ Len(s.stack) = m - 1 /\ UpFrom(s, m, no, u)
        /\ r = u[m]
    <3>1. k + 1 # 0
      BY <1>1
    <3> QED
      BY <1>12, <1>13, <3>1
  <2> HIDE DEF m
  <2>2. Ended(s, u[m], g, all, k + 1, no)
    BY <1>10, <2>1, UpEnds
  <2> QED
    BY <2>1, <2>2 DEF Ended
<1>15. Kept(t, r)
  BY <1>5, <1>11, <1>14 DEF Kept
<1> QED
  BY <1>14, <1>15

\* What a shape does not depend on.
LEMMA ShapeSame ==
    ASSUME NEW t, NEW first, NEW all, NEW k, Shape(t, first, all, k),
           NEW r, DOMAIN r = Members, r.root = t.root, r.stack = t.stack,
           DOMAIN r.mem = DOMAIN t.mem,
           \A x \in DOMAIN t.mem :
              /\ DOMAIN r.mem[x] = Fields
              /\ r.mem[x].left = t.mem[x].left /\ r.mem[x].right = t.mem[x].right
              /\ r.mem[x].size = t.mem[x].size /\ r.mem[x].height = t.mem[x].height
              /\ r.mem[x].dirty \in BOOLEAN
              /\ t.mem[x].left = Null => ~r.mem[x].dirty
              /\ x \in Stacked(t) => r.mem[x].dirty,
           Current(r.mem)
    PROVE  Shape(r, first, all, k)
<1>1. /\ Memory(t, all, k) /\ NodesTyped(t.mem) /\ Balanced(t)
      /\ Owned(t, all, k) /\ OnStack(t) /\ Positions(t, first, all, k) /\ Whole(t, first, k)
  BY ShapeFacts
<1>2. Stacked(r) = Stacked(t) /\ \A j \in 0 .. Len(t.stack) : Below(r, j) = Below(t, j)
  BY DEF Stacked, Below
<1>3. Tops(r, all, k) = Tops(t, all, k)
  BY <1>2 DEF Tops
<1>4. \A x \in DOMAIN t.mem : t.mem[x].left # Null =>
         t.mem[x].left \in DOMAIN t.mem /\ t.mem[x].right \in DOMAIN t.mem
  BY <1>1 DEF NodesTyped
<1>5. Memory(r, all, k)
  BY <1>1 DEF Memory
<1>6. NodesTyped(r.mem)
  BY <1>1 DEF NodesTyped
<1>7. Balanced(r)
  <2> SUFFICES ASSUME NEW x \in DOMAIN t.mem, t.mem[x].left # Null
               PROVE  /\ is_full(r.mem, t.mem[x].left)
                      /\ r.mem[x].height = r.mem[t.mem[x].left].height + 1
                      /\ x \notin Stacked(r) =>
                            /\ r.mem[t.mem[x].right].height <= r.mem[t.mem[x].left].height
                            /\ r.mem[x].size = r.mem[t.mem[x].left].size + r.mem[t.mem[x].right].size + 1
    BY DEF Balanced
  <2>1. t.mem[x].left \in DOMAIN t.mem /\ t.mem[x].right \in DOMAIN t.mem
    BY <1>4
  <2> QED
    BY <1>1, <1>2, <2>1 DEF Balanced, is_full
<1>8. Owned(r, all, k)
  BY <1>1, <1>2, <1>3 DEF Owned
<1>9. ASSUME NEW j \in 1 .. Len(t.stack)
      PROVE  LET n == t.stack[j].n
             IN  /\ n \in DOMAIN t.mem /\ t.mem[n].left # Null /\ r.mem[n].dirty
                 /\ t.mem[n].left \in DOMAIN t.mem
                 /\ r.mem[t.mem[n].left].height = t.mem[t.mem[n].left].height
                 /\ r.mem[t.mem[n].left].size = t.mem[t.mem[n].left].size
                 /\ r.mem[Below(t, j)].height = t.mem[Below(t, j)].height
                 /\ Below(r, j) = Below(t, j)
  <2> DEFINE n == t.stack[j].n
  <2>1. n \in DOMAIN t.mem /\ t.mem[n].left # Null
    BY <1>1 DEF OnStack
  <2>2. n \in Stacked(t)
    BY DEF Stacked
  <2>3. t.mem[n].left \in DOMAIN t.mem
    BY <1>4, <2>1
  <2>4. Below(t, j) \in DOMAIN t.mem /\ j \in 0 .. Len(t.stack)
    <3>1. Len(t.stack) \in Nat /\ t.stack # <<>>
      <4>1. Len(t.stack) \in Nat
        BY ShapeFacts
      <4> QED
        BY <4>1, EmptySeq
    <3>2. CASE j = Len(t.stack)
      <4>1. t.root \in DOMAIN t.mem
        BY <3>1, ShapeFacts
      <4> QED
        BY <3>1, <3>2, <4>1 DEF Below
    <3>3. CASE j # Len(t.stack)
      <4>1. j + 1 \in 1 .. Len(t.stack)
        BY <3>1, <3>3
      <4>2. t.stack[j + 1].n \in DOMAIN t.mem
        BY <1>1, <4>1 DEF OnStack
      <4> QED
        BY <3>1, <3>3, <4>2 DEF Below
    <3> QED
      BY <3>2, <3>3
  <2> HIDE DEF n
  <2> QED
    BY <1>2, <2>1, <2>2, <2>3, <2>4 DEF n
<1>10. OnStack(r)
  <2> SUFFICES ASSUME NEW j \in 1 .. Len(t.stack)
               PROVE  LET n == t.stack[j].n
                      IN  /\ n \in DOMAIN r.mem /\ r.mem[n].left # Null /\ r.mem[n].dirty
                          /\ n # t.root
                          /\ \A i \in 1 .. Len(t.stack) : t.stack[i].n = n => i = j
                          /\ j < Len(t.stack) => r.mem[n].right = t.stack[j + 1].n
                          /\ r.mem[Below(r, j)].height <= r.mem[r.mem[n].left].height
    BY <1>1 DEF OnStack
  <2> DEFINE n == t.stack[j].n
  <2>1. /\ n # t.root
        /\ \A i \in 1 .. Len(t.stack) : t.stack[i].n = n => i = j
        /\ j < Len(t.stack) => t.mem[n].right = t.stack[j + 1].n
        /\ t.mem[Below(t, j)].height <= t.mem[t.mem[n].left].height
    BY <1>1 DEF OnStack
  <2>2. /\ n \in DOMAIN t.mem /\ t.mem[n].left # Null /\ r.mem[n].dirty
        /\ t.mem[n].left \in DOMAIN t.mem
        /\ r.mem[t.mem[n].left].height = t.mem[t.mem[n].left].height
        /\ r.mem[Below(t, j)].height = t.mem[Below(t, j)].height
        /\ Below(r, j) = Below(t, j)
    BY <1>9
  <2> HIDE DEF n
  <2>3. r.mem[n].left = t.mem[n].left /\ r.mem[n].right = t.mem[n].right
    BY <2>2
  <2>4. /\ n \in DOMAIN r.mem /\ r.mem[n].left # Null /\ r.mem[n].dirty
        /\ n # t.root
        /\ \A i \in 1 .. Len(t.stack) : t.stack[i].n = n => i = j
        /\ j < Len(t.stack) => r.mem[n].right = t.stack[j + 1].n
        /\ r.mem[Below(r, j)].height <= r.mem[r.mem[n].left].height
    BY <2>1, <2>2, <2>3
  <2> QED
    BY <2>4 DEF n
<1>11. Positions(r, first, all, k)
  <2>1. ASSUME NEW x \in DOMAIN r.mem
        PROVE  /\ first[x] \in Nat \ {0}
               /\ r.mem[x].left # Null =>
                     /\ first[r.mem[x].left] = first[x]
                     /\ x \notin Stacked(r) =>
                           2 * first[r.mem[x].right] = 2 * first[x] + r.mem[r.mem[x].left].size + 1
               /\ r.mem[x].left = Null => first[x] \in 1 .. Len(all) /\ all[first[x]] = x
    <3>1. /\ first[x] \in Nat \ {0}
          /\ t.mem[x].left # Null =>
                /\ first[t.mem[x].left] = first[x]
                /\ x \notin Stacked(t) =>
                      2 * first[t.mem[x].right] = 2 * first[x] + t.mem[t.mem[x].left].size + 1
          /\ t.mem[x].left = Null => first[x] \in 1 .. Len(all) /\ all[first[x]] = x
      BY <1>1 DEF Positions
    <3>2. t.mem[x].left # Null => r.mem[t.mem[x].left].size = t.mem[t.mem[x].left].size
      BY <1>4
    <3> QED
      BY <1>2, <3>1, <3>2
  <2>2. ASSUME NEW j \in 1 .. Len(r.stack)
        PROVE  2 * first[Below(r, j)] = 2 * first[r.stack[j].n] + r.mem[r.mem[r.stack[j].n].left].size + 1
    <3> DEFINE n == t.stack[j].n
    <3>1. 2 * first[Below(t, j)] = 2 * first[n] + t.mem[t.mem[n].left].size + 1
      BY <1>1 DEF Positions
    <3>2. /\ n \in DOMAIN t.mem /\ Below(r, j) = Below(t, j)
          /\ r.mem[t.mem[n].left].size = t.mem[t.mem[n].left].size
      BY <1>9
    <3> HIDE DEF n
    <3>3. r.mem[n].left = t.mem[n].left
      BY <3>2
    <3> QED
      BY <3>1, <3>2, <3>3 DEF n
  <2>3. \A i \in 1 .. Len(all) :
           all[i] \in DOMAIN r.mem /\ r.mem[all[i]].left = Null /\ first[all[i]] = i
    BY <1>1 DEF Positions
  <2> QED
    BY <2>1, <2>2, <2>3 DEF Positions
<1>12. Whole(r, first, k)
  <2>1. Below(r, 0) = Below(t, 0)
    BY DEF Below
  <2> QED
    BY <1>1, <2>1 DEF Whole
<1> QED
  BY <1>5, <1>6, <1>7, <1>8, <1>10, <1>11, <1>12 DEF Shape

\* In particular, it does not depend on what is in the tree and what waits.
LEMMA ShapeSameMemory ==
    ASSUME NEW t, NEW first, NEW all, NEW k, Shape(t, first, all, k),
           NEW r, DOMAIN r = Members, r.root = t.root, r.stack = t.stack, r.mem = t.mem
    PROVE  Shape(r, first, all, k)
<1>1. NodesTyped(t.mem) /\ OnStack(t) /\ Current(t.mem)
  BY ShapeFacts
<1>2. \A x \in DOMAIN t.mem :
        /\ DOMAIN r.mem[x] = Fields
        /\ r.mem[x].left = t.mem[x].left /\ r.mem[x].right = t.mem[x].right
        /\ r.mem[x].size = t.mem[x].size /\ r.mem[x].height = t.mem[x].height
        /\ r.mem[x].dirty \in BOOLEAN
        /\ t.mem[x].left = Null => ~r.mem[x].dirty
        /\ x \in Stacked(t) => r.mem[x].dirty
  BY <1>1 DEF NodesTyped, OnStack, Stacked
<1>3. Current(r.mem) /\ DOMAIN r.mem = DOMAIN t.mem
  BY <1>1
<1> QED
  BY <1>2, <1>3, ShapeSame

\* The first leaf is the root.
LEMMA ShapeFirst ==
    ASSUME NEW t, NEW first, NEW all, Shape(t, first, all, 0), 0 < Len(all),
           NEW r, DOMAIN r = Members, r.root = all[1], r.stack = t.stack, r.mem = t.mem
    PROVE  Shape(r, first, all, 1) /\ r.stack = <<>>
<1>1. /\ Memory(t, all, 0) /\ NodesTyped(t.mem) /\ Balanced(t) /\ Current(t.mem)
      /\ Owned(t, all, 0) /\ Positions(t, first, all, 0) /\ Whole(t, first, 0)
      /\ Len(all) \in Nat
  BY ShapeFacts
<1>2. r.stack = <<>> /\ t.stack = <<>>
  BY <1>1 DEF Whole
<1>3. Stacked(r) = {} /\ Stacked(t) = {}
  <2>1. Len(t.stack) = 0 /\ Len(r.stack) = 0
    BY <1>2, EmptySeq
  <2> QED
    BY <2>1 DEF Stacked
<1>4. all[1] \in DOMAIN t.mem /\ t.mem[all[1]].left = Null /\ first[all[1]] = 1
  BY <1>1 DEF Positions
<1>5. t.mem[all[1]].size = 1
  BY <1>1, <1>4 DEF NodesTyped
<1>6. Tops(r, all, 1) \subseteq Tops(t, all, 0)
  <2>1. all[1] \in Waiting(all, 0)
    BY <1>1 DEF Waiting
  <2>2. Waiting(all, 1) \subseteq Waiting(all, 0)
    BY <1>1 DEF Waiting
  <2> QED
    BY <1>3, <2>1, <2>2 DEF Tops
<1>7. Memory(r, all, 1)
  <2>1. DOMAIN t.mem = 1 .. Len(all) /\ all \in Seq(Nat)
    BY <1>1 DEF Memory
  <2>2. Len(all) + 1 - 1 = Len(all)
    BY <1>1
  <2> QED
    BY <1>1, <2>1, <2>2 DEF Memory
<1>8. Balanced(r) /\ Owned(r, all, 1)
  BY <1>1, <1>3, <1>6 DEF Balanced, Owned
<1>9. OnStack(r)
  BY <1>2 DEF OnStack
<1>10. Positions(r, first, all, 1)
  <2>1. Len(t.stack) = 0 /\ Len(r.stack) = 0
    BY <1>2, EmptySeq
  <2> QED
    BY <1>1, <1>3, <2>1 DEF Positions
<1>11. Whole(r, first, 1)
  <2>1. Below(r, 0) = all[1]
    BY <1>2 DEF Below
  <2> QED
    BY <1>4, <1>5, <2>1 DEF Whole
<1> QED
  BY <1>1, <1>2, <1>7, <1>8, <1>9, <1>10, <1>11 DEF Shape

\* What inserting a leaf keeps: the hashes, and what waits.
Adds(t, leaf, r) ==
    /\ DOMAIN t.mem \subseteq DOMAIN r.mem
    /\ \A x \in DOMAIN t.mem : r.mem[x].hash = t.mem[x].hash
    /\ r.leaf_nodes = Append(t.leaf_nodes, leaf) /\ r.uninserted = t.uninserted
    /\ r.num_flushed = t.num_flushed

LEMMA InsertLeaf ==
    ASSUME NEW t, NEW first, NEW all, NEW k, Shape(t, first, all, k), k < Len(all),
           Resumable(t), NEW leaf, leaf = all[k + 1], NEW r, r = insert_leaf(t, leaf)
    PROVE  \E g : Shape(r, g, all, k + 1) /\ Resumable(r) /\ Adds(t, leaf, r)
<1> DEFINE added == [t EXCEPT !.leaf_nodes = Append(@, leaf)]
<1>1. DOMAIN t = Members /\ k \in Nat /\ Null \notin DOMAIN t.mem /\ Whole(t, first, k)
  BY ShapeFacts
<1>2. /\ DOMAIN added = Members /\ added.mem = t.mem /\ added.root = t.root
      /\ added.stack = t.stack /\ added.uninserted = t.uninserted
      /\ added.num_flushed = t.num_flushed
      /\ added.leaf_nodes = Append(t.leaf_nodes, leaf)
  BY <1>1 DEF Members
<1>3. CASE k = 0
  <2>1. t.stack = <<>> /\ t.root = Null
    BY <1>1, <1>3 DEF Whole
  <2>2. r = [added EXCEPT !.root = leaf]
    BY <1>2, <2>1 DEF insert_leaf
  <2> HIDE DEF added
  <2>3. /\ DOMAIN r = Members /\ r.mem = t.mem /\ r.root = leaf
        /\ r.stack = t.stack /\ r.uninserted = t.uninserted
        /\ r.num_flushed = t.num_flushed
        /\ r.leaf_nodes = Append(t.leaf_nodes, leaf)
    BY <1>2, <2>2 DEF Members
  <2>4. k + 1 = 1 /\ Shape(t, first, all, 0) /\ 0 < Len(all) /\ leaf = all[1]
    BY <1>3
  <2>5. Shape(r, first, all, 1) /\ r.stack = <<>>
    BY <2>3, <2>4, ShapeFirst
  <2>6. Resumable(r)
    BY <2>5 DEF Resumable, Joined
  <2>7. Adds(t, leaf, r)
    BY <2>3 DEF Adds
  <2> QED
    BY <2>4, <2>5, <2>6, <2>7
<1>4. CASE k # 0
  <2>1. t.root # Null
    BY <1>1, <1>4 DEF Whole
  <2>2. r = process_insertion_stack(continue_insertion_stack(added, leaf), FALSE)
    BY <1>2, <2>1 DEF insert_leaf
  <2> HIDE DEF added
  <2>3. Shape(added, first, all, k)
    BY <1>2, ShapeSameMemory
  <2>4. Resumable(added)
    BY <1>2 DEF Resumable, Joined
  <2>5. PICK g : Shape(r, g, all, k + 1) /\ Resumable(r) /\ Kept(added, r)
    BY <1>4, <2>2, <2>3, <2>4, InsertBelow
  <2>6. Adds(t, leaf, r)
    BY <1>2, <2>5 DEF Adds, Kept
  <2> QED
    BY <2>5, <2>6
<1> QED
  BY <1>3, <1>4

AfterFrom(t, h, f) ==
    f[0] = t /\ \A i \in 0 .. h - 1 : f[i + 1] = insert_leaf(f[i], t.uninserted[i + 1])

Emptied(t) == [t EXCEPT !.uninserted = <<>>]

Completed(t, complete) ==
    IF complete /\ t.stack # <<>> THEN process_insertion_stack(t, TRUE) ELSE t

LEMMA AfterUnfolds ==
    ASSUME NEW t, Len(t.uninserted) \in Nat, NEW complete
    PROVE  \E f : /\ AfterFrom(t, Len(t.uninserted), f)
                  /\ insert_leaves(t, complete) = Completed(Emptied(f[Len(t.uninserted)]), complete)
<1> PICK h \in Nat : h = Len(t.uninserted)
  OBVIOUS
<1> DEFINE After(f, m) ==
             f = [k \in 0 .. m |->
                    IF k = 0 THEN t ELSE insert_leaf(f[k - 1], t.uninserted[k])]
           T == {m \in Nat : \E f : After(f, m)}
<1>1. 0 \in T
  <2>1. After([k \in 0 .. 0 |-> t], 0)
    OBVIOUS
  <2> HIDE DEF After
  <2> QED
    BY <2>1
<1>2. ASSUME NEW m \in Nat, m \in T PROVE m + 1 \in T
  <2>1. PICK f : After(f, m)
    BY <1>2
  <2> DEFINE g == [k \in 0 .. m + 1 |->
                      IF k <= m THEN f[k] ELSE insert_leaf(f[m], t.uninserted[k])]
  <2>2. ASSUME NEW k \in 0 .. m + 1
        PROVE  g[k] = IF k = 0 THEN t ELSE insert_leaf(g[k - 1], t.uninserted[k])
    <3>1. CASE k <= m
      <4>1. k \in 0 .. m /\ g[k] = f[k]
        BY <3>1
      <4>2. f[k] = IF k = 0 THEN t ELSE insert_leaf(f[k - 1], t.uninserted[k])
        BY <2>1, <4>1
      <4>3. k # 0 => g[k - 1] = f[k - 1]
        BY <3>1
      <4> QED
        BY <4>1, <4>2, <4>3
    <3>2. CASE ~ (k <= m)
      <4>1. k = m + 1
        BY <3>2
      <4>2. k - 1 = m /\ m \in 0 .. m + 1 /\ m <= m /\ g[m] = f[m] /\ k # 0
        BY <4>1
      <4>3. g[k] = insert_leaf(f[m], t.uninserted[k])
        BY <3>2
      <4> HIDE DEF g
      <4> QED
        BY <4>1, <4>2, <4>3
    <3> QED
      BY <3>1, <3>2
  <2>3. After(g, m + 1)
    BY <2>2
  <2> HIDE DEF After, g
  <2> QED
    BY <2>3
<1>3. h \in T
  BY <1>1, <1>2, SetInduction
<1> DEFINE after == CHOOSE f : After(f, h)
<1>4. After(after, h)
  BY <1>3
<1>5. insert_leaves(t, complete) = Completed(Emptied(after[h]), complete)
  BY DEF insert_leaves, Emptied, Completed
<1> HIDE DEF after
<1>6. after[0] = t
  BY <1>4
<1>7. \A i \in 0 .. h - 1 : after[i + 1] = insert_leaf(after[i], t.uninserted[i + 1])
  <2> TAKE i \in 0 .. h - 1
  <2>1. i + 1 \in 0 .. h /\ i + 1 # 0 /\ (i + 1) - 1 = i
    OBVIOUS
  <2> QED
    BY <1>4, <2>1
<1>8. AfterFrom(t, h, after)
  BY <1>6, <1>7 DEF AfterFrom
<1> QED
  BY <1>5, <1>8

\* A tree between two operations, none of whose leaves was flushed.
Good(t, first) ==
    /\ t.leaf_nodes \in Seq(Nat) /\ t.uninserted \in Seq(Nat)
    /\ Shape(t, first, t.leaf_nodes \o t.uninserted, Len(t.leaf_nodes))
    /\ Resumable(t)
    /\ t.num_flushed = 0

Rehashed(t, r) ==
    DOMAIN t.mem \subseteq DOMAIN r.mem /\ \A x \in DOMAIN t.mem : r.mem[x].hash = t.mem[x].hash

Shaped(t, all, k) == \E first : Shape(t, first, all, k)

\* The parts of two sequences in one.
LEMMA ConcatParts ==
    ASSUME NEW S, NEW a \in Seq(S), NEW b \in Seq(S)
    PROVE  /\ a \o b \in Seq(S) /\ Len(a \o b) = Len(a) + Len(b)
           /\ Len(a) \in Nat /\ Len(b) \in Nat
           /\ \A i \in 1 .. Len(a) : (a \o b)[i] = a[i]
           /\ \A i \in 1 .. Len(b) : (a \o b)[Len(a) + i] = b[i]
<1>1. Len(a) \in Nat /\ Len(b) \in Nat
  OBVIOUS
<1>2. /\ a \o b \in Seq(S) /\ Len(a \o b) = Len(a) + Len(b)
      /\ \A i \in 1 .. Len(a) + Len(b) : (a \o b)[i] = IF i <= Len(a) THEN a[i] ELSE b[i - Len(a)]
  BY ConcatProperties
<1> DEFINE c == Len(a)
           h == Len(b)
           ab == a \o b
<1>3. c \in Nat /\ h \in Nat /\ \A i \in 1 .. c + h : ab[i] = IF i <= c THEN a[i] ELSE b[i - c]
  BY <1>1, <1>2
<1> HIDE DEF c, h, ab
<1>4. \A i \in 1 .. c : ab[i] = a[i]
  <2> TAKE i \in 1 .. c
  <2>1. i \in 1 .. c + h /\ i <= c
    BY <1>3
  <2> QED
    BY <1>3, <2>1
<1>5. \A i \in 1 .. h : ab[c + i] = b[i]
  <2> TAKE i \in 1 .. h
  <2>1. c + i \in 1 .. c + h /\ ~ (c + i <= c) /\ c + i - c = i
    BY <1>3
  <2> QED
    BY <1>3, <2>1
<1> QED
  BY <1>1, <1>2, <1>4, <1>5 DEF c, h, ab

\* The leaves inserted are the first k of all.
Agrees(a, all, k) ==
    a \in Seq(Nat) /\ Len(a) = k /\ \A j \in 1 .. k : a[j] = all[j]

LEMMA AgreesNext ==
    ASSUME NEW all, NEW a, NEW k \in Nat, Agrees(a, all, k), all[k + 1] \in Nat
    PROVE  Agrees(Append(a, all[k + 1]), all, k + 1)
<1> DEFINE leaf == all[k + 1]
           b == Append(a, leaf)
<1>1. /\ b \in Seq(Nat) /\ Len(b) = Len(a) + 1
      /\ \A j \in 1 .. Len(a) : b[j] = a[j]
      /\ b[Len(a) + 1] = leaf
  BY AppendProperties DEF Agrees
<1>2. Len(a) = k /\ \A j \in 1 .. k : a[j] = all[j]
  BY DEF Agrees
<1> HIDE DEF b
<1>3. \A j \in 1 .. k + 1 : b[j] = all[j]
  <2> TAKE j \in 1 .. k + 1
  <2>1. CASE j = k + 1
    BY <1>1, <1>2, <2>1
  <2>2. CASE j # k + 1
    <3>1. j \in 1 .. k
      BY <2>2
    <3> QED
      BY <1>1, <1>2, <3>1
  <2> QED
    BY <2>1, <2>2
<1>4. Agrees(b, all, k + 1)
  BY <1>1, <1>2, <1>3 DEF Agrees
<1> QED
  BY <1>4 DEF b

\* All leaves that wait are inserted, in their order.
AllInserted(t, u) ==
    LET all == t.leaf_nodes \o t.uninserted
    IN  /\ Shaped(u, all, Len(all)) /\ Resumable(u) /\ Rehashed(t, u)
        /\ u.leaf_nodes = all /\ u.num_flushed = 0

LEMMA AfterEnds ==
    ASSUME NEW t, NEW first, Good(t, first), NEW f, AfterFrom(t, Len(t.uninserted), f)
    PROVE  AllInserted(t, f[Len(t.uninserted)])
<1>b. Len(t.uninserted) \in Nat
  BY DEF Good
<1> PICK h \in Nat : h = Len(t.uninserted)
  BY <1>b
<1> PICK all : all = t.leaf_nodes \o t.uninserted
  OBVIOUS
<1>c. PICK c : c = Len(t.leaf_nodes)
  OBVIOUS
<1> DEFINE P(i) == /\ Shaped(f[i], all, c + i)
                   /\ Resumable(f[i]) /\ Rehashed(t, f[i])
                   /\ f[i].num_flushed = 0
                   /\ Agrees(f[i].leaf_nodes, all, c + i)
           T == {i \in Nat : i \in 0 .. h => P(i)}
<1>1. /\ f[0] = t
      /\ \A i \in 0 .. h - 1 : f[i + 1] = insert_leaf(f[i], t.uninserted[i + 1])
  BY DEF AfterFrom
<1>2. /\ t.leaf_nodes \in Seq(Nat) /\ t.uninserted \in Seq(Nat) /\ c \in Nat
      /\ all \in Seq(Nat) /\ Len(all) = c + h
      /\ \A i \in 1 .. c : all[i] = t.leaf_nodes[i]
      /\ \A i \in 1 .. h : all[c + i] = t.uninserted[i]
  <2>1. t.leaf_nodes \in Seq(Nat) /\ t.uninserted \in Seq(Nat)
    BY DEF Good
  <2> HIDE DEF P, T
  <2> DEFINE a == t.leaf_nodes
             b == t.uninserted
  <2>2. a \in Seq(Nat) /\ b \in Seq(Nat) /\ all = a \o b /\ c = Len(a) /\ h = Len(b)
    BY <1>c, <2>1
  <2> HIDE DEF a, b
  <2>3. /\ a \o b \in Seq(Nat) /\ Len(a \o b) = Len(a) + Len(b)
        /\ Len(a) \in Nat /\ Len(b) \in Nat
        /\ \A i \in 1 .. Len(a) : (a \o b)[i] = a[i]
        /\ \A i \in 1 .. Len(b) : (a \o b)[Len(a) + i] = b[i]
    BY <2>2, ConcatParts
  <2>4. /\ c \in Nat /\ all \in Seq(Nat) /\ Len(all) = c + h
        /\ \A i \in 1 .. c : all[i] = a[i]
        /\ \A i \in 1 .. h : all[c + i] = b[i]
    BY <2>2, <2>3
  <2> QED
    BY <2>1, <2>4 DEF a, b
<1>3. 0 \in T
  <2>1. Rehashed(t, t)
    BY DEF Rehashed
  <2>2. Shaped(t, all, c + 0) /\ c + 0 = c
    <3>1. c + 0 = c
      BY <1>2
    <3> QED
      BY <1>c, <3>1 DEF Good, Shaped
  <2>3. Resumable(t) /\ t.num_flushed = 0
    BY DEF Good
  <2>4. Agrees(t.leaf_nodes, all, c + 0)
    BY <1>c, <1>2, <2>2 DEF Agrees
  <2>5. P(0)
    BY <1>1, <2>1, <2>2, <2>3, <2>4
  <2> HIDE DEF P
  <2> QED
    BY <2>5
<1>4. ASSUME NEW i \in Nat, i \in T PROVE i + 1 \in T
  <2> SUFFICES ASSUME i + 1 \in 0 .. h PROVE P(i + 1)
    <3> HIDE DEF P
    <3> QED
      OBVIOUS
  <2> DEFINE a == f[i]
             b == f[i + 1]
             leaf == t.uninserted[i + 1]
  <2>1. i \in 0 .. h /\ i \in 0 .. h - 1 /\ i + 1 \in 1 .. h
    OBVIOUS
  <2>2. P(i) /\ b = insert_leaf(a, leaf)
    BY <1>1, <1>4, <2>1
  <2>3. leaf = all[(c + i) + 1] /\ c + i < Len(all) /\ leaf \in Nat /\ c + i \in Nat
    <3> HIDE DEF P, T, a, b
    <3>1. (c + i) + 1 = c + (i + 1) /\ c + i \in Nat /\ c + i < c + h
      BY <1>2, <2>1
    <3>2. all[c + (i + 1)] = t.uninserted[i + 1]
      BY <1>2, <2>1
    <3>3. leaf \in Nat
      BY <1>2, <2>1
    <3> QED
      BY <1>2, <3>1, <3>2, <3>3
  <2> HIDE DEF a, b, leaf
  <2>4. PICK g : Shape(a, g, all, c + i)
    BY <2>2 DEF a, Shaped
  <2>5. /\ Resumable(a) /\ Rehashed(t, a) /\ a.num_flushed = 0
        /\ Agrees(a.leaf_nodes, all, c + i)
    BY <2>2 DEF a
  <2> DEFINE k == c + i
  <2>b. k \in Nat /\ Agrees(a.leaf_nodes, all, k)
    BY <2>3, <2>5
  <2> HIDE DEF k
  <2>6. \E q : Shape(b, q, all, k + 1) /\ Resumable(b) /\ Adds(a, leaf, b)
    <3>1. Shape(a, g, all, k) /\ k < Len(all) /\ leaf = all[k + 1]
      BY <2>3, <2>4 DEF k
    <3> QED
      BY <2>2, <2>5, <3>1, InsertLeaf
  <2>7. PICK q : Shape(b, q, all, k + 1) /\ Resumable(b) /\ Adds(a, leaf, b)
    BY <2>6
  <2>8. Rehashed(t, b) /\ b.num_flushed = 0
    BY <2>5, <2>7 DEF Rehashed, Adds
  <2>9. b.leaf_nodes = Append(a.leaf_nodes, leaf)
    BY <2>7 DEF Adds
  <2>10. Agrees(b.leaf_nodes, all, k + 1)
    <3>1. all[k + 1] = leaf /\ all[k + 1] \in Nat
      BY <2>3 DEF k
    <3>2. Agrees(Append(a.leaf_nodes, all[k + 1]), all, k + 1)
      BY <2>b, <3>1, AgreesNext
    <3> QED
      BY <2>9, <3>1, <3>2
  <2>12. k + 1 = c + (i + 1)
    BY <1>2 DEF k
  <2> QED
    BY <2>7, <2>8, <2>10, <2>12 DEF b, Shaped
<1>5. \A i \in Nat : i \in T
  <2> HIDE DEF T
  <2> QED
    BY <1>3, <1>4, SetInduction
<1>6. P(h)
  <2> HIDE DEF P
  <2>1. h \in T /\ h \in 0 .. h
    BY <1>5
  <2> QED
    BY <2>1
<1>7. f[h].leaf_nodes = all
  <2>1. Agrees(f[h].leaf_nodes, all, Len(all))
    BY <1>2, <1>6
  <2> QED
    BY <1>2, <2>1, SeqEqual DEF Agrees
<1>8. Shaped(f[h], all, Len(all))
  BY <1>2, <1>6
<1>9. AllInserted(t, f[h])
  BY <1>6, <1>7, <1>8 DEF AllInserted
<1> QED
  BY <1>9

\* A tree none of whose leaves waits.
Settled(t, first, all) ==
    /\ Shape(t, first, all, Len(all)) /\ Resumable(t)
    /\ t.leaf_nodes = all /\ t.uninserted = <<>> /\ t.num_flushed = 0

LEMMA InsertLeaves ==
    ASSUME NEW t, NEW first, Good(t, first), NEW all, all = t.leaf_nodes \o t.uninserted,
           NEW complete \in BOOLEAN, NEW r, r = insert_leaves(t, complete)
    PROVE  \E g : /\ Settled(r, g, all) /\ Rehashed(t, r)
                  /\ complete => r.stack = <<>>
<1>1. t.leaf_nodes \in Seq(Nat) /\ t.uninserted \in Seq(Nat)
  BY DEF Good
<1>2. PICK f : /\ AfterFrom(t, Len(t.uninserted), f)
               /\ insert_leaves(t, complete) = Completed(Emptied(f[Len(t.uninserted)]), complete)
  <2>1. Len(t.uninserted) \in Nat
    BY <1>1
  <2> QED
    BY <2>1, AfterUnfolds
<1> DEFINE u == f[Len(t.uninserted)]
           s == Emptied(u)
<1>3. AllInserted(t, u)
  BY <1>2, AfterEnds
<1>4. PICK g : /\ Shape(u, g, all, Len(all)) /\ Resumable(u) /\ Rehashed(t, u)
               /\ u.leaf_nodes = all /\ u.num_flushed = 0
  <2> HIDE DEF u
  <2> QED
    BY <1>3 DEF Shaped, AllInserted
<1>5. r = IF complete /\ s.stack # <<>> THEN process_insertion_stack(s, TRUE) ELSE s
  BY <1>2 DEF Completed
<1>6. s = Emptied(u)
  OBVIOUS
<1> HIDE DEF u, s
<1>7. DOMAIN u = Members
  BY <1>4, ShapeFacts
<1>8. /\ DOMAIN s = Members /\ s.root = u.root /\ s.stack = u.stack /\ s.mem = u.mem
      /\ s.leaf_nodes = u.leaf_nodes /\ s.uninserted = <<>> /\ s.num_flushed = u.num_flushed
  BY <1>6, <1>7 DEF Emptied, Members
<1>9. Shape(s, g, all, Len(all))
  BY <1>4, <1>8, ShapeSameMemory
<1>10. Resumable(s) /\ Rehashed(t, s)
  BY <1>4, <1>8 DEF Resumable, Joined, Rehashed
<1>11. Settled(s, g, all)
  BY <1>4, <1>8, <1>9, <1>10 DEF Settled
<1>12. CASE ~ (complete /\ s.stack # <<>>)
  <2>1. r = s
    BY <1>5, <1>12
  <2> QED
    BY <1>10, <1>11, <1>12, <2>1
<1>13. CASE complete /\ s.stack # <<>>
  <2> DEFINE yes == TRUE
             n == Last(s.stack).n
             m == Len(s.stack)
             k == Len(all)
             v == Lifted(s, s.mem, n)
  <2>1. r = process_insertion_stack(s, yes)
    BY <1>5, <1>13
  <2>2. m \in Nat \ {0} /\ k # 0
    <3>1. s.stack \in Seq([n : Nat, left : {FALSE}])
      BY <1>9, ShapeFacts
    <3>2. k # 0
      BY <1>9, <1>13, ShapeFacts
    <3> QED
      BY <1>13, <3>1, <3>2, EmptySeq
  <2>3. Popped(s, v)
    BY <1>9, <1>10, <1>13, ResumeEffect DEF Resumable
  <2>4. m = Len(s.stack) /\ n = Last(s.stack).n /\ v = Lifted(s, s.mem, n) /\ k = Len(all)
    OBVIOUS
  <2> HIDE DEF yes, n, m, v, k
  <2>5. PICK w : UpFrom(v, m, yes, w) /\ process_insertion_stack(s, yes) = w[m]
    <3>1. Len(s.stack) \in Nat \ {0}
      BY <2>2, <2>4
    <3> QED
      BY <2>4, <3>1, UpUnfolds
  <2>6. Shape(v, g, all, k) /\ Len(v.stack) = m - 1
    BY <1>9, <1>13, <2>3, <2>4, ShapePop
  <2>a. Ended(v, w[m], g, all, k, yes)
    BY <2>2, <2>5, <2>6, UpEnds
  <2>7. Shape(w[m], g, all, k) /\ Kept(v, w[m]) /\ Resumable(w[m])
    BY <2>a DEF Ended
  <2>8. r = w[m] /\ w[m].stack = <<>>
    BY <2>1, <2>5, <2>a DEF yes, Ended
  <2>9. Rehashed(t, r)
    BY <1>10, <2>3, <2>7, <2>8 DEF Rehashed, Kept, Popped
  <2>10. Settled(r, g, all)
    BY <1>11, <2>3, <2>4, <2>7, <2>8 DEF Settled, Kept, Popped
  <2> QED
    BY <2>7, <2>8, <2>9, <2>10
<1> QED
  BY <1>12, <1>13

LEMMA SettledGood ==
    ASSUME NEW t, NEW first, NEW all \in Seq(Nat), Settled(t, first, all)
    PROVE  Good(t, first) /\ t.leaf_nodes \o t.uninserted = all
<1>1. all \o <<>> = all
  BY ConcatEmptySeq
<1> QED
  BY <1>1 DEF Good, Settled

-----------------------------------------------------------------------------
(* Hashing.                                                                *)

DirtyBelow(m, S) ==
    {c \in DOMAIN m : m[c].dirty /\ \E x \in S : c \in {m[x].left, m[x].right}}

ReachedFrom(m, n, h, f) ==
    f[1] = {n} /\ \A i \in 1 .. h - 1 : f[i + 1] = f[i] \cup DirtyBelow(m, f[i])

\* The nodes of one height are hashed.
HashLevel(m, reached, height, u) ==
    [x \in DOMAIN m |->
        IF x \in reached /\ m[x].height = height
        THEN [m[x] EXCEPT !.hash = HASH_FUNCTION(u[m[x].left].hash, u[m[x].right].hash),
                          !.dirty = FALSE]
        ELSE u[x]]

HashedFrom(m, reached, h, u) ==
    u[1] = m /\ \A i \in 1 .. h - 1 : u[i + 1] = HashLevel(m, reached, i + 1, u[i])

\* f is what stacked is in hash, and u what upTo is there.
IsReached(m, n, h, f) ==
    f = [k \in 1 .. h |-> IF k = 1 THEN {n} ELSE f[k - 1] \cup DirtyBelow(m, f[k - 1])]

IsHashed(m, reached, h, u) ==
    u = [k \in 1 .. h |-> IF k = 1 THEN m ELSE HashLevel(m, reached, k, u[k - 1])]

LEMMA ReachedExists ==
    ASSUME NEW m, NEW n, NEW h \in Nat \ {0}
    PROVE  \E f : IsReached(m, n, h, f)
<1> DEFINE Reach(f, l) ==
             f = [k \in 1 .. l |-> IF k = 1 THEN {n} ELSE f[k - 1] \cup DirtyBelow(m, f[k - 1])]
           T == {l \in Nat : \E f : Reach(f, l)}
<1>1. 0 \in T
  <2>1. Reach([k \in 1 .. 0 |-> 0], 0)
    OBVIOUS
  <2> HIDE DEF Reach
  <2> QED
    BY <2>1
<1>2. ASSUME NEW l \in Nat, l \in T PROVE l + 1 \in T
  <2>1. PICK f : Reach(f, l)
    BY <1>2
  <2> DEFINE g == [k \in 1 .. l + 1 |->
                      IF k <= l THEN f[k]
                      ELSE IF k = 1 THEN {n} ELSE f[l] \cup DirtyBelow(m, f[l])]
  <2>2. ASSUME NEW k \in 1 .. l + 1
        PROVE  g[k] = IF k = 1 THEN {n} ELSE g[k - 1] \cup DirtyBelow(m, g[k - 1])
    <3>1. CASE k <= l
      <4>1. k \in 1 .. l /\ g[k] = f[k]
        BY <3>1
      <4>2. f[k] = IF k = 1 THEN {n} ELSE f[k - 1] \cup DirtyBelow(m, f[k - 1])
        BY <2>1, <4>1
      <4>3. k # 1 => g[k - 1] = f[k - 1]
        BY <3>1
      <4> QED
        BY <4>1, <4>2, <4>3
    <3>2. CASE ~ (k <= l)
      <4>1. k = l + 1
        BY <3>2
      <4>2. k # 1 => k - 1 = l /\ l \in 1 .. l + 1 /\ l <= l /\ g[l] = f[l]
        BY <4>1
      <4>3. g[k] = IF k = 1 THEN {n} ELSE f[l] \cup DirtyBelow(m, f[l])
        BY <3>2
      <4> HIDE DEF g
      <4> QED
        BY <4>1, <4>2, <4>3
    <3> QED
      BY <3>1, <3>2
  <2>3. Reach(g, l + 1)
    BY <2>2
  <2> HIDE DEF Reach, g
  <2> QED
    BY <2>3
<1>3. h \in T
  BY <1>1, <1>2, SetInduction
<1> QED
  BY <1>3 DEF IsReached

LEMMA HashedExists ==
    ASSUME NEW m, NEW reached, NEW h \in Nat \ {0}
    PROVE  \E u : IsHashed(m, reached, h, u)
<1> DEFINE Hashed(f, l) ==
             f = [k \in 1 .. l |-> IF k = 1 THEN m ELSE HashLevel(m, reached, k, f[k - 1])]
           T == {l \in Nat : \E f : Hashed(f, l)}
<1>1. 0 \in T
  <2>1. Hashed([k \in 1 .. 0 |-> 0], 0)
    OBVIOUS
  <2> HIDE DEF Hashed
  <2> QED
    BY <2>1
<1>2. ASSUME NEW l \in Nat, l \in T PROVE l + 1 \in T
  <2>1. PICK f : Hashed(f, l)
    BY <1>2
  <2> DEFINE g == [k \in 1 .. l + 1 |->
                      IF k <= l THEN f[k]
                      ELSE IF k = 1 THEN m ELSE HashLevel(m, reached, k, f[l])]
  <2>2. ASSUME NEW k \in 1 .. l + 1
        PROVE  g[k] = IF k = 1 THEN m ELSE HashLevel(m, reached, k, g[k - 1])
    <3>1. CASE k <= l
      <4>1. k \in 1 .. l /\ g[k] = f[k]
        BY <3>1
      <4>2. f[k] = IF k = 1 THEN m ELSE HashLevel(m, reached, k, f[k - 1])
        BY <2>1, <4>1
      <4>3. k # 1 => g[k - 1] = f[k - 1]
        BY <3>1
      <4> QED
        BY <4>1, <4>2, <4>3
    <3>2. CASE ~ (k <= l)
      <4>1. k = l + 1
        BY <3>2
      <4>2. k # 1 => k - 1 = l /\ l \in 1 .. l + 1 /\ l <= l /\ g[l] = f[l]
        BY <4>1
      <4>3. g[k] = IF k = 1 THEN m ELSE HashLevel(m, reached, k, f[l])
        BY <3>2
      <4> HIDE DEF g
      <4> QED
        BY <4>1, <4>2, <4>3
    <3> QED
      BY <3>1, <3>2
  <2>3. Hashed(g, l + 1)
    BY <2>2
  <2> HIDE DEF Hashed, g
  <2> QED
    BY <2>3
<1>3. h \in T
  BY <1>1, <1>2, SetInduction
<1> QED
  BY <1>3 DEF IsHashed

LEMMA HashUnfolds ==
    ASSUME NEW m, NEW n, m[n].height \in Nat \ {0}
    PROVE  \E f, u : /\ ReachedFrom(m, n, m[n].height, f)
                     /\ HashedFrom(m, f[m[n].height], m[n].height, u)
                     /\ hash(m, n) = u[m[n].height]
<1> PICK h \in Nat \ {0} : h = m[n].height
  OBVIOUS
<1> DEFINE f == CHOOSE q : IsReached(m, n, h, q)
           u == CHOOSE q : IsHashed(m, f[h], h, q)
<1>1. IsReached(m, n, h, f)
  BY ReachedExists
<1>2. IsHashed(m, f[h], h, u)
  <2> HIDE DEF f
  <2> QED
    BY HashedExists
<1>3. hash(m, n) = u[h]
  BY DEF hash, HashLevel, DirtyBelow, IsReached, IsHashed
<1> HIDE DEF f, u
<1>4. f[1] = {n} /\ u[1] = m
  BY <1>1, <1>2 DEF IsReached, IsHashed
<1>5. \A i \in 1 .. h - 1 : /\ f[i + 1] = f[i] \cup DirtyBelow(m, f[i])
                            /\ u[i + 1] = HashLevel(m, f[h], i + 1, u[i])
  <2> TAKE i \in 1 .. h - 1
  <2>1. i + 1 \in 1 .. h /\ i + 1 # 1 /\ (i + 1) - 1 = i
    OBVIOUS
  <2> QED
    BY <1>1, <1>2, <2>1 DEF IsReached, IsHashed
<1>6. ReachedFrom(m, n, h, f) /\ HashedFrom(m, f[h], h, u)
  BY <1>4, <1>5 DEF ReachedFrom, HashedFrom
<1> QED
  BY <1>3, <1>6

LowerChildren(m) ==
    \A x \in DOMAIN m :
        m[x].left # Null =>
            m[m[x].left].height < m[x].height /\ m[m[x].right].height < m[x].height

\* The nodes the hashing stack reaches below n, which is h high.
Reachable(m, n, h, R) ==
    /\ n \in R
    /\ \A x \in R :
          /\ x \in DOMAIN m /\ m[x].dirty /\ m[x].height <= h
          /\ \A c \in DOMAIN m : m[c].dirty /\ c \in {m[x].left, m[x].right} => c \in R

LEMMA ReachedClosed ==
    ASSUME NEW m, NodesTyped(m), LowerChildren(m), Null \notin DOMAIN m,
           NEW n \in DOMAIN m, m[n].dirty, NEW f, ReachedFrom(m, n, m[n].height, f)
    PROVE  Reachable(m, n, m[n].height, f[m[n].height])
<1>1. m[n].height \in Nat \ {0}
  BY DEF NodesTyped
<1> PICK h \in Nat \ {0} : h = m[n].height
  BY <1>1
<1>2. f[1] = {n} /\ \A i \in 1 .. h - 1 : f[i + 1] = f[i] \cup DirtyBelow(m, f[i])
  BY DEF ReachedFrom
<1> DEFINE Child(x, c) == c \in DOMAIN m /\ m[c].dirty /\ c \in {m[x].left, m[x].right}
           Q(i) == /\ n \in f[i]
                   /\ \A x \in f[i] : x \in DOMAIN m /\ m[x].dirty /\ m[x].height <= h
                   /\ \A x \in f[i] : \A c : Child(x, c) => c \in f[i] \/ m[x].height + i <= h + 1
           T == {i \in Nat : i + 1 \in 1 .. h => Q(i + 1)}
<1>3. \A x \in DOMAIN m : m[x].height \in Nat \ {0}
  BY DEF NodesTyped
<1>4. \A x \in DOMAIN m : \A c : Child(x, c) => m[c].height < m[x].height /\ m[c].height \in Nat \ {0}
  <2> TAKE x \in DOMAIN m
  <2> TAKE c
  <2> HAVE Child(x, c)
  <2>1. m[x].left # Null
    BY DEF NodesTyped
  <2> QED
    BY <1>3, <2>1 DEF LowerChildren
<1>5. 0 \in T
  <2>1. Q(1)
    BY <1>2
  <2> HIDE DEF Q
  <2> QED
    BY <2>1
<1>6. ASSUME NEW i \in Nat, i \in T PROVE i + 1 \in T
  <2> SUFFICES ASSUME (i + 1) + 1 \in 1 .. h PROVE Q((i + 1) + 1)
    <3> HIDE DEF Q
    <3> QED
      OBVIOUS
  <2>1. PICK j \in 1 .. h - 1 : j = i + 1
    OBVIOUS
  <2>2. Q(j)
    <3> HIDE DEF Q
    <3> QED
      BY <1>6, <2>1
  <2>3. f[j + 1] = f[j] \cup DirtyBelow(m, f[j])
    BY <1>2, <2>1
  <2>4. \A x \in f[j] : \A c : Child(x, c) => c \in f[j + 1]
    BY <2>3 DEF DirtyBelow
  <2>5. \A x \in f[j + 1] : x \in f[j] \/ \E y \in f[j] : Child(y, x)
    BY <2>3 DEF DirtyBelow
  <2>6. \A y \in f[j] : y \in DOMAIN m /\ m[y].dirty /\ m[y].height <= h
    BY <2>2
  <2>7. \A y \in f[j] : \A c : Child(y, c) => c \in f[j] \/ m[y].height + j <= h + 1
    BY <2>2
  <2>8. \A y \in f[j] : \A c : Child(y, c) => c \in DOMAIN m /\ m[c].dirty
    OBVIOUS
  <2> HIDE DEF Child
  <2>9. ASSUME NEW x \in f[j + 1]
        PROVE  x \in DOMAIN m /\ m[x].dirty /\ m[x].height <= h
    <3>1. CASE x \in f[j]
      BY <2>6, <3>1
    <3>2. ASSUME NEW y \in f[j], Child(y, x) PROVE x \in DOMAIN m /\ m[x].dirty /\ m[x].height <= h
      <4>1. y \in DOMAIN m /\ m[y].height <= h /\ m[y].height \in Nat
        BY <1>3, <2>6
      <4>2. m[x].height < m[y].height /\ m[x].height \in Nat
        BY <1>4, <3>2, <4>1
      <4> QED
        BY <2>8, <3>2, <4>1, <4>2
    <3> QED
      BY <2>5, <3>1, <3>2
  <2>10. ASSUME NEW x \in f[j + 1], NEW c, Child(x, c)
         PROVE  c \in f[j + 1] \/ m[x].height + (j + 1) <= h + 1
    <3>1. CASE x \in f[j]
      BY <2>4, <2>10, <3>1
    <3>2. CASE x \notin f[j]
      <4>1. PICK y \in f[j] : Child(y, x)
        BY <2>5, <3>2
      <4>2. y \in DOMAIN m /\ m[y].height + j <= h + 1 /\ m[y].height \in Nat
        BY <1>3, <2>6, <2>7, <3>2, <4>1
      <4>3. m[x].height < m[y].height /\ m[x].height \in Nat
        BY <1>4, <4>1, <4>2
      <4> DEFINE a == m[x].height
                 b == m[y].height
      <4>4. a \in Nat /\ b \in Nat /\ a < b /\ b + j <= h + 1 /\ j \in Nat
        BY <4>2, <4>3
      <4> HIDE DEF a, b
      <4>5. a + (j + 1) <= h + 1
        BY <4>4
      <4> QED
        BY <4>5 DEF a
    <3> QED
      BY <3>1, <3>2
  <2>11. n \in f[j + 1]
    BY <2>2, <2>3
  <2>12. Q(j + 1)
    BY <2>9, <2>10, <2>11
  <2> HIDE DEF Q
  <2> QED
    BY <2>1, <2>12
<1>7. Q(h)
  <2> HIDE DEF Q
  <2>1. h - 1 \in T
    <3> HIDE DEF T
    <3> QED
      BY <1>5, <1>6, SetInduction
  <2>2. (h - 1) + 1 = h /\ (h - 1) + 1 \in 1 .. h
    OBVIOUS
  <2> QED
    BY <2>1, <2>2
<1>8. ASSUME NEW x \in f[h], NEW c, Child(x, c) PROVE c \in f[h]
  <2>1. x \in DOMAIN m
    BY <1>7
  <2>2. m[c].height < m[x].height /\ m[c].height \in Nat \ {0} /\ m[x].height \in Nat \ {0}
    <3> HIDE DEF Child
    <3> QED
      BY <1>3, <1>4, <1>8, <2>1
  <2>3. c \in f[h] \/ m[x].height + h <= h + 1
    BY <1>7, <1>8
  <2> DEFINE a == m[x].height
             b == m[c].height
  <2>4. a \in Nat /\ b \in Nat \ {0} /\ b < a /\ (c \in f[h] \/ a + h <= h + 1)
    BY <2>2, <2>3
  <2> HIDE DEF a, b
  <2> QED
    BY <2>4
<1> QED
  BY <1>7, <1>8 DEF Reachable

\* What hashing changes: the nodes reached have the hashes of their children.
HashedTo(m, R, i, w) ==
    /\ DOMAIN w = DOMAIN m
    /\ \A x \in DOMAIN m :
          IF x \in R /\ m[x].height <= i
          THEN /\ DOMAIN w[x] = Fields
               /\ w[x].left = m[x].left /\ w[x].right = m[x].right
               /\ w[x].size = m[x].size /\ w[x].height = m[x].height
               /\ w[x].dirty = FALSE
               /\ w[x].hash = HASH_FUNCTION(w[m[x].left].hash, w[m[x].right].hash)
          ELSE w[x] = m[x]

LEMMA HashedOver ==
    ASSUME NEW m, NodesTyped(m), LowerChildren(m), Null \notin DOMAIN m,
           NEW n, NEW h \in Nat \ {0}, NEW R, Reachable(m, n, h, R),
           NEW u, HashedFrom(m, R, h, u)
    PROVE  HashedTo(m, R, h, u[h])
<1>1. u[1] = m /\ \A i \in 1 .. h - 1 : u[i + 1] = HashLevel(m, R, i + 1, u[i])
  BY DEF HashedFrom
<1>2. \A x \in R :
         /\ x \in DOMAIN m /\ m[x].left # Null
         /\ m[x].left \in DOMAIN m /\ m[x].right \in DOMAIN m
         /\ m[m[x].left].height < m[x].height /\ m[m[x].right].height < m[x].height
         /\ m[x].height \in Nat \ {0}
         /\ m[m[x].left].height \in Nat \ {0} /\ m[m[x].right].height \in Nat \ {0}
         /\ DOMAIN m[x] = Fields
  <2> TAKE x \in R
  <2>1. x \in DOMAIN m /\ m[x].dirty
    BY DEF Reachable
  <2>2. m[x].left # Null /\ m[x].left \in DOMAIN m /\ m[x].right \in DOMAIN m
    BY <2>1 DEF NodesTyped
  <2> QED
    BY <2>1, <2>2 DEF NodesTyped, LowerChildren
<1> DEFINE T == {i \in Nat : i + 1 \in 1 .. h => HashedTo(m, R, i + 1, u[i + 1])}
<1>3. 0 \in T
  <2>1. \A x \in R : ~ (m[x].height <= 1)
    <3> TAKE x \in R
    <3> DEFINE a == m[x].height
               b == m[m[x].left].height
    <3>1. a \in Nat /\ b \in Nat \ {0} /\ b < a
      BY <1>2
    <3> HIDE DEF a, b
    <3>2. ~ (a <= 1)
      BY <3>1
    <3> QED
      BY <3>2 DEF a
  <2>2. HashedTo(m, R, 1, u[1])
    BY <1>1, <2>1 DEF HashedTo
  <2> QED
    BY <2>2
<1>4. ASSUME NEW i \in Nat, i \in T PROVE i + 1 \in T
  <2> SUFFICES ASSUME (i + 1) + 1 \in 1 .. h PROVE HashedTo(m, R, (i + 1) + 1, u[(i + 1) + 1])
    OBVIOUS
  <2>1. PICK j \in 1 .. h - 1 : j = i + 1
    OBVIOUS
  <2>2. HashedTo(m, R, j, u[j])
    BY <1>4, <2>1
  <2>3. u[j + 1] = HashLevel(m, R, j + 1, u[j])
    BY <1>1, <2>1
  <2> DEFINE v == u[j]
             w == u[j + 1]
  <2>4. /\ DOMAIN v = DOMAIN m
        /\ \A x \in DOMAIN m :
              IF x \in R /\ m[x].height <= j
              THEN /\ DOMAIN v[x] = Fields
                   /\ v[x].left = m[x].left /\ v[x].right = m[x].right
                   /\ v[x].size = m[x].size /\ v[x].height = m[x].height
                   /\ v[x].dirty = FALSE
                   /\ v[x].hash = HASH_FUNCTION(v[m[x].left].hash, v[m[x].right].hash)
              ELSE v[x] = m[x]
    BY <2>2 DEF HashedTo
  <2>5. /\ DOMAIN w = DOMAIN m
        /\ \A x \in DOMAIN m :
              w[x] = IF x \in R /\ m[x].height = j + 1
                     THEN [m[x] EXCEPT !.hash = HASH_FUNCTION(v[m[x].left].hash, v[m[x].right].hash),
                                       !.dirty = FALSE]
                     ELSE v[x]
    BY <2>3 DEF HashLevel
  <2> HIDE DEF v, w, T
  <2>6. ASSUME NEW x \in DOMAIN m
        PROVE  IF x \in R /\ m[x].height <= j + 1
               THEN /\ DOMAIN w[x] = Fields
                    /\ w[x].left = m[x].left /\ w[x].right = m[x].right
                    /\ w[x].size = m[x].size /\ w[x].height = m[x].height
                    /\ w[x].dirty = FALSE
                    /\ w[x].hash = HASH_FUNCTION(w[m[x].left].hash, w[m[x].right].hash)
               ELSE w[x] = m[x]
    <3>1. CASE x \in R
      <4> DEFINE a == m[x].height
                 l == m[x].left
                 r == m[x].right
                 b == m[l].height
                 c == m[r].height
      <4>1. /\ a \in Nat /\ b \in Nat /\ c \in Nat /\ b < a /\ c < a
            /\ l \in DOMAIN m /\ r \in DOMAIN m /\ DOMAIN m[x] = Fields
        BY <1>2, <3>1
      <4>2. a <= j + 1 => w[l] = v[l] /\ w[r] = v[r]
        <5> HIDE DEF a
        <5>1. a <= j + 1 => b # j + 1 /\ c # j + 1
          <6> HIDE DEF b, c
          <6> QED
            BY <4>1
        <5> QED
          BY <2>5, <4>1, <5>1
      <4>3. CASE a = j + 1
        <5>1. a <= j + 1
          BY <4>3
        <5>2. w[l] = v[l] /\ w[r] = v[r]
          BY <4>2, <5>1
        <5>3. w[x] = [m[x] EXCEPT !.hash = HASH_FUNCTION(v[l].hash, v[r].hash), !.dirty = FALSE]
          BY <2>5, <3>1, <4>3
        <5>4. /\ DOMAIN w[x] = Fields
              /\ w[x].left = m[x].left /\ w[x].right = m[x].right
              /\ w[x].size = m[x].size /\ w[x].height = m[x].height
              /\ w[x].dirty = FALSE
              /\ w[x].hash = HASH_FUNCTION(v[l].hash, v[r].hash)
          <6> HIDE DEF l, r
          <6> QED
            BY <4>1, <5>3 DEF Fields
        <5> QED
          BY <3>1, <5>1, <5>2, <5>4
      <4>4. CASE a # j + 1
        <5>1. a <= j + 1 <=> a <= j
          <6> HIDE DEF a
          <6> QED
            BY <4>1, <4>4
        <5>2. w[x] = v[x]
          BY <2>5, <4>4
        <5> QED
          BY <2>4, <3>1, <4>2, <5>1, <5>2
      <4> QED
        BY <4>3, <4>4
    <3>2. CASE x \notin R
      BY <2>4, <2>5, <3>2
    <3> QED
      BY <3>1, <3>2
  <2>7. HashedTo(m, R, j + 1, w)
    BY <2>5, <2>6 DEF HashedTo
  <2> QED
    BY <2>1, <2>7 DEF w
<1>5. h - 1 \in T
  <2> HIDE DEF T
  <2> QED
    BY <1>3, <1>4, SetInduction
<1> QED
  BY <1>5

\* What hash does to the memory.
Rehash(m, n, r) ==
    /\ DOMAIN r = DOMAIN m
    /\ \A x \in DOMAIN m :
          /\ DOMAIN r[x] = Fields
          /\ r[x].left = m[x].left /\ r[x].right = m[x].right
          /\ r[x].size = m[x].size /\ r[x].height = m[x].height
          /\ r[x].dirty \in BOOLEAN
          /\ m[x].left = Null => r[x] = m[x]
    /\ Current(r)
    /\ ~r[n].dirty

LEMMA HashEffect ==
    ASSUME NEW m, NodesTyped(m), LowerChildren(m), Null \notin DOMAIN m, Current(m),
           NEW n \in DOMAIN m, m[n].dirty
    PROVE  Rehash(m, n, hash(m, n))
<1>1. m[n].height \in Nat \ {0}
  BY DEF NodesTyped
<1>2. PICK f, u : /\ ReachedFrom(m, n, m[n].height, f)
                  /\ HashedFrom(m, f[m[n].height], m[n].height, u)
                  /\ hash(m, n) = u[m[n].height]
  BY <1>1, HashUnfolds
<1> DEFINE h == m[n].height
           R == f[h]
           w == hash(m, n)
<1>3. Reachable(m, n, h, R)
  BY <1>2, ReachedClosed
<1>4. HashedTo(m, R, h, w)
  <2> HIDE DEF h, R, w
  <2>1. h \in Nat \ {0} /\ HashedFrom(m, R, h, u) /\ w = u[h]
    BY <1>1, <1>2 DEF h, R, w
  <2> QED
    BY <1>3, <2>1, HashedOver
<1> HIDE DEF h, R, w
<1>5. /\ n \in R
      /\ \A x \in R :
            /\ x \in DOMAIN m /\ m[x].dirty /\ m[x].height <= h
            /\ \A c \in DOMAIN m : m[c].dirty /\ c \in {m[x].left, m[x].right} => c \in R
  BY <1>3 DEF Reachable
<1>6. /\ DOMAIN w = DOMAIN m
      /\ \A x \in R : /\ DOMAIN w[x] = Fields
                      /\ w[x].left = m[x].left /\ w[x].right = m[x].right
                      /\ w[x].size = m[x].size /\ w[x].height = m[x].height
                      /\ w[x].dirty = FALSE
                      /\ w[x].hash = HASH_FUNCTION(w[m[x].left].hash, w[m[x].right].hash)
      /\ \A x \in DOMAIN m : x \notin R => w[x] = m[x]
  BY <1>4, <1>5 DEF HashedTo
<1>7. \A x \in DOMAIN m :
         /\ DOMAIN w[x] = Fields
         /\ w[x].left = m[x].left /\ w[x].right = m[x].right
         /\ w[x].size = m[x].size /\ w[x].height = m[x].height
         /\ w[x].dirty \in BOOLEAN
         /\ m[x].left = Null => w[x] = m[x]
  <2> TAKE x \in DOMAIN m
  <2>1. DOMAIN m[x] = Fields /\ m[x].dirty \in BOOLEAN /\ (m[x].left = Null => ~m[x].dirty)
    BY DEF NodesTyped
  <2>2. CASE x \in R
    BY <1>5, <1>6, <2>1, <2>2
  <2>3. CASE x \notin R
    BY <1>6, <2>1, <2>3
  <2> QED
    BY <2>2, <2>3
<1>8. \A c \in DOMAIN m : c \notin R /\ ~m[c].dirty => ~w[c].dirty /\ w[c].hash = m[c].hash
  BY <1>6
<1>9. \A c \in DOMAIN m : c \in R => ~w[c].dirty
  BY <1>6
<1>10. ASSUME NEW x \in DOMAIN m, m[x].left # Null, ~w[x].dirty
       PROVE  /\ ~w[m[x].left].dirty /\ ~w[m[x].right].dirty
              /\ w[x].hash = HASH_FUNCTION(w[m[x].left].hash, w[m[x].right].hash)
  <2> DEFINE l == m[x].left
             r == m[x].right
  <2>1. l \in DOMAIN m /\ r \in DOMAIN m
    BY <1>10 DEF NodesTyped
  <2>2. CASE x \in R
    <3>1. \A c \in {l, r} : ~w[c].dirty
      <4> TAKE c \in {l, r}
      <4>1. c \in DOMAIN m
        BY <2>1
      <4>2. m[c].dirty => c \in R
        BY <1>5, <2>2, <4>1
      <4> HIDE DEF l, r
      <4>3. m[c].dirty => ~w[c].dirty
        BY <1>9, <4>1, <4>2
      <4>4. ~m[c].dirty => ~w[c].dirty
        <5>1. ~m[c].dirty => c \notin R
          BY <1>5
        <5> QED
          BY <1>8, <4>1, <5>1
      <4> QED
        BY <4>3, <4>4
    <3> QED
      BY <1>6, <2>2, <3>1
  <2>3. CASE x \notin R
    <3>1. w[x] = m[x]
      BY <1>6, <2>3
    <3>2. ~m[l].dirty /\ ~m[r].dirty /\ m[x].hash = HASH_FUNCTION(m[l].hash, m[r].hash)
      BY <1>10, <3>1 DEF Current
    <3>3. l \notin R /\ r \notin R
      BY <1>5, <3>2
    <3> QED
      BY <1>8, <2>1, <3>1, <3>2, <3>3
  <2> QED
    BY <2>2, <2>3
<1>11. Current(w)
  BY <1>6, <1>7, <1>10 DEF Current
<1>12. Rehash(m, n, w)
  BY <1>5, <1>6, <1>7, <1>11 DEF Rehash
<1> QED
  BY <1>12 DEF w

LEMMA ShapeLower ==
    ASSUME NEW t, NEW first, NEW all, NEW k, Shape(t, first, all, k), t.stack = <<>>
    PROVE  LowerChildren(t.mem) /\ Stacked(t) = {}
<1>1. NodesTyped(t.mem) /\ Balanced(t)
  BY DEF Shape
<1>2. Stacked(t) = {}
  <2>1. Len(t.stack) = 0
    BY EmptySeq
  <2> QED
    BY <2>1 DEF Stacked
<1>3. ASSUME NEW x \in DOMAIN t.mem, t.mem[x].left # Null
      PROVE  /\ t.mem[t.mem[x].left].height < t.mem[x].height
             /\ t.mem[t.mem[x].right].height < t.mem[x].height
  <2> DEFINE a == t.mem[x].height
             b == t.mem[t.mem[x].left].height
             c == t.mem[t.mem[x].right].height
  <2>1. t.mem[x].left \in DOMAIN t.mem /\ t.mem[x].right \in DOMAIN t.mem
    BY <1>1, <1>3 DEF NodesTyped
  <2>2. a = b + 1 /\ c <= b
    BY <1>1, <1>2, <1>3 DEF Balanced
  <2>3. a \in Nat /\ b \in Nat /\ c \in Nat
    BY <1>1, <2>1 DEF NodesTyped
  <2> HIDE DEF a, b, c
  <2>4. b < a /\ c < a
    BY <2>2, <2>3
  <2> QED
    BY <2>4 DEF a, b, c
<1> QED
  BY <1>2, <1>3 DEF LowerChildren

\* A tree whose root is computed: no insertion is left half done, the root is
\* clean, and the leaves have the hashes they had.
Rooted(t, r, g, all) ==
    /\ Settled(r, g, all) /\ r.stack = <<>>
    /\ r.root \in DOMAIN r.mem /\ ~r.mem[r.root].dirty
    /\ DOMAIN t.mem \subseteq DOMAIN r.mem
    /\ \A i \in 1 .. Len(all) : r.mem[all[i]].hash = t.mem[all[i]].hash

LEMMA RootComputed ==
    ASSUME NEW t, NEW first, Good(t, first), NEW all, all = t.leaf_nodes \o t.uninserted,
           Len(all) # 0, NEW r, r = compute_root(t)
    PROVE  \E g : Rooted(t, r, g, all)
<1> DEFINE s == insert_leaves(t, TRUE)
<1>1. PICK g : Settled(s, g, all) /\ Rehashed(t, s) /\ s.stack = <<>>
  <2> DEFINE yes == TRUE
  <2>1. yes \in BOOLEAN /\ yes /\ s = insert_leaves(t, yes)
    OBVIOUS
  <2> HIDE DEF yes, s
  <2>2. \E g : Settled(s, g, all) /\ Rehashed(t, s) /\ (yes => s.stack = <<>>)
    BY <2>1, InsertLeaves
  <2> QED
    BY <2>1, <2>2
<1>2. r = IF s.mem[s.root].dirty THEN [s EXCEPT !.mem = hash(s.mem, s.root)] ELSE s
  BY DEF compute_root
<1> HIDE DEF s
<1>3. /\ Shape(s, g, all, Len(all)) /\ Resumable(s) /\ s.leaf_nodes = all
      /\ s.uninserted = <<>> /\ s.num_flushed = 0
  BY <1>1 DEF Settled
<1>4. /\ Memory(s, all, Len(all)) /\ NodesTyped(s.mem) /\ Current(s.mem)
      /\ Positions(s, g, all, Len(all)) /\ Whole(s, g, Len(all))
      /\ Null \notin DOMAIN s.mem
  BY <1>3, ShapeFacts
<1>5. LowerChildren(s.mem) /\ Stacked(s) = {}
  BY <1>1, <1>3, ShapeLower
<1>6. s.root \in DOMAIN s.mem
  BY <1>4 DEF Whole
<1>7. \A i \in 1 .. Len(all) :
         /\ all[i] \in DOMAIN s.mem /\ s.mem[all[i]].left = Null
         /\ s.mem[all[i]].hash = t.mem[all[i]].hash
  <2> TAKE i \in 1 .. Len(all)
  <2>1. all[i] \in DOMAIN s.mem /\ s.mem[all[i]].left = Null
    BY <1>4 DEF Positions
  <2>2. all[i] \in DOMAIN t.mem
    BY DEF Good, Shape, Positions
  <2> QED
    BY <1>1, <2>1, <2>2 DEF Rehashed
<1>8. DOMAIN t.mem \subseteq DOMAIN s.mem
  BY <1>1 DEF Rehashed
<1>9. CASE ~s.mem[s.root].dirty
  <2>1. r = s
    BY <1>2, <1>9
  <2> QED
    BY <1>1, <1>6, <1>7, <1>8, <1>9, <2>1 DEF Rooted
<1>10. CASE s.mem[s.root].dirty
  <2> DEFINE w == hash(s.mem, s.root)
  <2>1. Rehash(s.mem, s.root, w)
    BY <1>4, <1>5, <1>6, <1>10, HashEffect
  <2>2. r = [s EXCEPT !.mem = w]
    BY <1>2, <1>10
  <2> HIDE DEF w
  <2>3. DOMAIN s = Members
    BY <1>4 DEF Memory
  <2>4. /\ DOMAIN r = Members /\ r.root = s.root /\ r.stack = s.stack /\ r.mem = w
        /\ r.leaf_nodes = s.leaf_nodes /\ r.uninserted = s.uninserted
        /\ r.num_flushed = s.num_flushed
    BY <2>2, <2>3 DEF Members
  <2>5. /\ DOMAIN w = DOMAIN s.mem
        /\ \A x \in DOMAIN s.mem :
              /\ DOMAIN w[x] = Fields
              /\ w[x].left = s.mem[x].left /\ w[x].right = s.mem[x].right
              /\ w[x].size = s.mem[x].size /\ w[x].height = s.mem[x].height
              /\ w[x].dirty \in BOOLEAN
              /\ s.mem[x].left = Null => w[x] = s.mem[x]
        /\ Current(w)
        /\ ~w[s.root].dirty
    BY <2>1 DEF Rehash
  <2>6. \A x \in DOMAIN s.mem : s.mem[x].left = Null => ~w[x].dirty
    BY <1>4, <2>5 DEF NodesTyped
  <2>7. Shape(r, g, all, Len(all))
    <3>1. DOMAIN r.mem = DOMAIN s.mem /\ Current(r.mem)
      BY <2>4, <2>5
    <3>2. \A x \in DOMAIN s.mem :
              /\ DOMAIN r.mem[x] = Fields
              /\ r.mem[x].left = s.mem[x].left /\ r.mem[x].right = s.mem[x].right
              /\ r.mem[x].size = s.mem[x].size /\ r.mem[x].height = s.mem[x].height
              /\ r.mem[x].dirty \in BOOLEAN
              /\ s.mem[x].left = Null => ~r.mem[x].dirty
              /\ x \in Stacked(s) => r.mem[x].dirty
      BY <1>5, <2>4, <2>5, <2>6
    <3> QED
      BY <1>3, <2>4, <3>1, <3>2, ShapeSame
  <2>8. Resumable(r)
    BY <1>1, <2>4 DEF Resumable, Joined
  <2>9. Settled(r, g, all)
    BY <1>3, <2>4, <2>7, <2>8 DEF Settled
  <2>10. \A i \in 1 .. Len(all) : r.mem[all[i]].hash = t.mem[all[i]].hash
    BY <1>7, <2>4, <2>5
  <2> QED
    BY <1>1, <1>6, <1>8, <2>4, <2>5, <2>9, <2>10 DEF Rooted
<1> QED
  BY <1>9, <1>10

-----------------------------------------------------------------------------
(* Inserting a leaf, and the empty tree.                                   *)

LEMMA EmptyGood == Good(EmptyTree, [x \in {} |-> 0])
<1> DEFINE t == EmptyTree
           first == [x \in {} |-> 0]
<1>1. /\ DOMAIN t = Members /\ t.mem = NoMemory /\ t.root = Null /\ t.leaf_nodes = <<>>
      /\ t.uninserted = <<>> /\ t.num_flushed = 0 /\ t.stack = <<>>
  BY DEF EmptyTree, Members
<1>2. DOMAIN t.mem = {}
  BY <1>1 DEF NoMemory
<1> HIDE DEF t
<1>3. /\ <<>> \in Seq(Nat) /\ Len(<<>>) = 0 /\ <<>> \o <<>> = <<>>
      /\ <<>> \in Seq([n : Nat, left : {FALSE}])
  OBVIOUS
<1>4. Stacked(t) = {}
  BY <1>1 DEF Stacked
<1>5. Memory(t, <<>>, 0)
  <2>1. 1 .. 0 = {} /\ 0 \in 0 .. 0
    OBVIOUS
  <2> QED
    BY <1>1, <1>2, <1>3, <2>1 DEF Memory
<1>6. NodesTyped(t.mem) /\ Balanced(t) /\ Current(t.mem) /\ Owned(t, <<>>, 0)
  BY <1>2 DEF NodesTyped, Balanced, Current, Owned
<1>7. OnStack(t) /\ Positions(t, first, <<>>, 0) /\ Whole(t, first, 0)
  BY <1>1, <1>2, <1>3 DEF OnStack, Positions, Whole
<1>8. Shape(t, first, <<>>, 0)
  BY <1>5, <1>6, <1>7 DEF Shape
<1>9. Resumable(t)
  BY <1>1 DEF Resumable, Joined
<1>10. Good(t, first)
  BY <1>1, <1>3, <1>8, <1>9 DEF Good
<1> QED
  BY <1>10 DEF t

\* A new leaf comes last.
InsertedAt(t, h, r, new) ==
    /\ r.mem = New(t.mem, LeafNode(h)) /\ r.root = t.root
    /\ r.leaf_nodes = t.leaf_nodes /\ r.uninserted = Append(t.uninserted, new)
    /\ r.num_flushed = t.num_flushed /\ r.stack = t.stack
    /\ DOMAIN r = Members

LEMMA ShapeInsert ==
    ASSUME NEW t, NEW first, NEW all, NEW k, Shape(t, first, all, k),
           NEW h, NEW r, DOMAIN r = Members,
           r.mem = New(t.mem, LeafNode(h)), r.root = t.root, r.stack = t.stack
    PROVE  /\ Fresh(t.mem) \in Nat \ DOMAIN t.mem
           /\ \E g : Shape(r, g, Append(all, Fresh(t.mem)), k)
<1>1. /\ Memory(t, all, k) /\ NodesTyped(t.mem) /\ Balanced(t) /\ Current(t.mem)
      /\ Owned(t, all, k) /\ OnStack(t) /\ Positions(t, first, all, k) /\ Whole(t, first, k)
      /\ Null \notin DOMAIN t.mem /\ Len(all) \in Nat /\ k \in Nat /\ k <= Len(all)
  BY ShapeFacts
<1>2. all \in Seq(Nat) /\ DOMAIN t.mem = 1 .. (IF k = 0 THEN Len(all) ELSE Len(all) + k - 1)
  BY <1>1 DEF Memory
<1> DEFINE c == IF k = 0 THEN Len(all) ELSE Len(all) + k - 1
           new == Fresh(t.mem)
           more == Append(all, new)
           g == [x \in DOMAIN t.mem \cup {new} |-> IF x = new THEN Len(all) + 1 ELSE first[x]]
<1>3. c \in Nat
  BY <1>1
<1>4. new = c + 1
  <2>1. DOMAIN t.mem = 1 .. c
    BY <1>2
  <2> HIDE DEF c
  <2> QED
    BY <1>3, <2>1, FreshIsNext
<1>5. new \in Nat \ {0} /\ new \notin DOMAIN t.mem /\ DOMAIN t.mem \cup {new} = 1 .. c + 1
  BY <1>2, <1>3, <1>4
<1> HIDE DEF new
<1>6. /\ more \in Seq(Nat) /\ Len(more) = Len(all) + 1 /\ more[Len(all) + 1] = new
      /\ \A i \in 1 .. Len(all) : more[i] = all[i]
  BY <1>2, <1>5, AppendProperties
<1>7. /\ DOMAIN r.mem = DOMAIN t.mem \cup {new}
      /\ \A x \in DOMAIN t.mem : r.mem[x] = t.mem[x]
      /\ r.mem[new] = LeafNode(h)
  <2> DEFINE node == LeafNode(h)
  <2>1. r.mem = New(t.mem, node) /\ new = Fresh(t.mem)
    BY DEF new
  <2> HIDE DEF node
  <2>2. /\ DOMAIN New(t.mem, node) = DOMAIN t.mem \cup {Fresh(t.mem)}
        /\ \A x \in DOMAIN t.mem : New(t.mem, node)[x] = t.mem[x]
        /\ Fresh(t.mem) \notin DOMAIN t.mem => New(t.mem, node)[Fresh(t.mem)] = node
    BY NewNode
  <2>3. /\ DOMAIN r.mem = DOMAIN t.mem \cup {new}
        /\ \A x \in DOMAIN t.mem : r.mem[x] = t.mem[x]
        /\ r.mem[new] = node
    BY <1>5, <2>1, <2>2
  <2> QED
    BY <2>3 DEF node
<1>8. /\ DOMAIN r.mem[new] = Fields /\ r.mem[new].left = Null /\ r.mem[new].right = Null
      /\ r.mem[new].size = 1 /\ r.mem[new].height = 1 /\ r.mem[new].dirty = FALSE
  <2> DEFINE node == LeafNode(h)
  <2>1. /\ DOMAIN node = Fields /\ node.left = Null /\ node.right = Null
        /\ node.size = 1 /\ node.height = 1 /\ node.dirty = FALSE
    BY DEF LeafNode, Fields
  <2>2. r.mem[new] = node
    BY <1>7
  <2> HIDE DEF node
  <2> QED
    BY <2>1, <2>2
<1>9. g[new] = Len(all) + 1 /\ \A x \in DOMAIN t.mem : g[x] = first[x]
  BY <1>5
<1> HIDE DEF g, more
<1>10. \A x \in DOMAIN t.mem : t.mem[x].left # Null =>
          t.mem[x].left \in DOMAIN t.mem /\ t.mem[x].right \in DOMAIN t.mem
  BY <1>1 DEF NodesTyped
<1>11. \A x \in DOMAIN r.mem : r.mem[x].left # Null => x \in DOMAIN t.mem
  BY <1>7, <1>8
<1>12. Stacked(r) = Stacked(t) /\ \A j \in 0 .. Len(t.stack) : Below(r, j) = Below(t, j)
  BY DEF Stacked, Below
<1>13. Waiting(more, k) = Waiting(all, k) \cup {new}
  <2>1. \A x : x \in Waiting(more, k) <=> \E i \in k + 1 .. Len(all) + 1 : x = more[i]
    BY <1>6 DEF Waiting
  <2>2. \A x : x \in Waiting(all, k) <=> \E i \in k + 1 .. Len(all) : x = all[i]
    BY DEF Waiting
  <2>3. \A i \in k + 1 .. Len(all) + 1 : i = Len(all) + 1 \/ i \in k + 1 .. Len(all)
    BY <1>1
  <2>4. \A i \in k + 1 .. Len(all) : more[i] = all[i] /\ i \in k + 1 .. Len(all) + 1
    BY <1>1, <1>6
  <2>5. Len(all) + 1 \in k + 1 .. Len(all) + 1
    BY <1>1
  <2>6. \A x : x \in Waiting(more, k) => x \in Waiting(all, k) \cup {new}
    BY <1>6, <2>1, <2>2, <2>3, <2>4
  <2>7. \A x : x \in Waiting(all, k) \cup {new} => x \in Waiting(more, k)
    BY <1>6, <2>1, <2>2, <2>4, <2>5
  <2> QED
    BY <2>6, <2>7
<1>14. Tops(r, more, k) = Tops(t, all, k) \cup {new}
  BY <1>12, <1>13 DEF Tops
<1>15. Memory(r, more, k)
  <2>1. DOMAIN r.mem = 1 .. c + 1
    BY <1>5, <1>7
  <2>2. c + 1 = IF k = 0 THEN Len(more) ELSE Len(more) + k - 1
    BY <1>1, <1>6
  <2>3. k \in 0 .. Len(more)
    BY <1>1, <1>6
  <2> HIDE DEF c
  <2> QED
    BY <1>6, <2>1, <2>2, <2>3 DEF Memory
<1>16. NodesTyped(r.mem)
  <2>1. ASSUME NEW x \in DOMAIN r.mem
        PROVE  /\ DOMAIN r.mem[x] = Fields
               /\ r.mem[x].left \in DOMAIN r.mem \cup {Null}
               /\ r.mem[x].right \in DOMAIN r.mem \cup {Null}
               /\ r.mem[x].left = Null <=> r.mem[x].right = Null
               /\ r.mem[x].size \in Nat \ {0}
               /\ r.mem[x].height \in Nat \ {0}
               /\ r.mem[x].dirty \in BOOLEAN
               /\ r.mem[x].size < 2 ^ r.mem[x].height
               /\ r.mem[x].left = Null => r.mem[x].size = 1 /\ r.mem[x].height = 1 /\ ~r.mem[x].dirty
    <3>1. CASE x = new
      <4>1. 2 ^ r.mem[x].height = 2
        BY <1>8, <3>1, PowerOne
      <4>2. r.mem[x].size < 2 ^ r.mem[x].height
        BY <1>8, <3>1, <4>1
      <4>3. r.mem[x].dirty \in BOOLEAN
        BY <1>8, <3>1
      <4> QED
        BY <1>8, <3>1, <4>2, <4>3
    <3>2. CASE x \in DOMAIN t.mem
      BY <1>1, <1>7, <3>2 DEF NodesTyped
    <3> QED
      BY <1>7, <3>1, <3>2
  <2> QED
    BY <2>1 DEF NodesTyped
<1>17. Balanced(r)
  BY <1>1, <1>7, <1>10, <1>11, <1>12 DEF Balanced, is_full
<1>18. Current(r.mem)
  BY <1>1, <1>7, <1>10, <1>11 DEF Current
<1>19. Owned(r, more, k)
  <2>1. ASSUME NEW x \in DOMAIN r.mem, r.mem[x].left # Null
        PROVE  /\ r.mem[x].left \notin Tops(r, more, k)
               /\ x \notin Stacked(r) => r.mem[x].right \notin Tops(r, more, k)
    <3>1. x \in DOMAIN t.mem /\ r.mem[x] = t.mem[x]
      BY <1>7, <1>11, <2>1
    <3>2. t.mem[x].left \in DOMAIN t.mem /\ t.mem[x].right \in DOMAIN t.mem
      BY <1>10, <2>1, <3>1
    <3>3. /\ t.mem[x].left \notin Tops(t, all, k)
          /\ x \notin Stacked(t) => t.mem[x].right \notin Tops(t, all, k)
      BY <1>1, <2>1, <3>1 DEF Owned
    <3> QED
      BY <1>5, <1>12, <1>14, <3>1, <3>2, <3>3
  <2>2. ASSUME NEW x \in DOMAIN r.mem, r.mem[x].left # Null,
               NEW y \in DOMAIN r.mem, r.mem[y].left # Null
        PROVE  /\ r.mem[x].left = r.mem[y].left => x = y
               /\ x \notin Stacked(r) => r.mem[x].right # r.mem[y].left
               /\ x \notin Stacked(r) /\ y \notin Stacked(r) /\ r.mem[x].right = r.mem[y].right
                     => x = y
    <3>1. /\ x \in DOMAIN t.mem /\ r.mem[x] = t.mem[x]
          /\ y \in DOMAIN t.mem /\ r.mem[y] = t.mem[y]
      BY <1>7, <1>11, <2>2
    <3> QED
      BY <1>1, <1>12, <2>2, <3>1 DEF Owned
  <2> QED
    BY <2>1, <2>2 DEF Owned
<1>20. ASSUME NEW j \in 0 .. Len(t.stack), k # 0 PROVE Below(t, j) \in DOMAIN t.mem
  <2>1. CASE j = Len(t.stack)
    <3>1. t.root \in DOMAIN t.mem
      BY <1>20, ShapeFacts
    <3> QED
      BY <2>1, <3>1 DEF Below
  <2>2. CASE j # Len(t.stack)
    <3>1. Len(t.stack) \in Nat
      BY ShapeFacts
    <3>2. j + 1 \in 1 .. Len(t.stack)
      BY <2>2, <3>1
    <3>3. t.stack[j + 1].n \in DOMAIN t.mem
      BY <1>1, <3>2 DEF OnStack
    <3> QED
      BY <2>2, <3>3 DEF Below
  <2> QED
    BY <2>1, <2>2
<1>21. Len(t.stack) \in Nat /\ (Len(t.stack) # 0 => k # 0)
  <2>1. Len(t.stack) \in Nat /\ (t.stack # <<>> => k # 0)
    BY ShapeFacts
  <2> QED
    BY <2>1, EmptySeq
<1>22. ASSUME NEW j \in 1 .. Len(t.stack)
       PROVE  LET n == t.stack[j].n
              IN  /\ n \in DOMAIN t.mem /\ t.mem[n].left # Null /\ r.mem[n] = t.mem[n]
                  /\ g[n] = first[n]
                  /\ t.mem[n].left \in DOMAIN t.mem
                  /\ r.mem[t.mem[n].left] = t.mem[t.mem[n].left]
                  /\ r.mem[Below(t, j)] = t.mem[Below(t, j)]
                  /\ g[Below(t, j)] = first[Below(t, j)]
                  /\ Below(r, j) = Below(t, j)
  <2> DEFINE n == t.stack[j].n
  <2>1. n \in DOMAIN t.mem /\ t.mem[n].left # Null
    BY <1>1 DEF OnStack
  <2>2. t.mem[n].left \in DOMAIN t.mem
    BY <1>10, <2>1
  <2>3. j \in 0 .. Len(t.stack) /\ k # 0
    BY <1>21
  <2>4. Below(t, j) \in DOMAIN t.mem /\ Below(r, j) = Below(t, j)
    BY <1>12, <1>20, <2>3
  <2> HIDE DEF n
  <2> QED
    BY <1>7, <1>9, <2>1, <2>2, <2>4 DEF n
<1>23. OnStack(r)
  <2> SUFFICES ASSUME NEW j \in 1 .. Len(t.stack)
               PROVE  LET n == t.stack[j].n
                      IN  /\ n \in DOMAIN r.mem /\ r.mem[n].left # Null /\ r.mem[n].dirty
                          /\ n # t.root
                          /\ \A i \in 1 .. Len(t.stack) : t.stack[i].n = n => i = j
                          /\ j < Len(t.stack) => r.mem[n].right = t.stack[j + 1].n
                          /\ r.mem[Below(r, j)].height <= r.mem[r.mem[n].left].height
    BY <1>1 DEF OnStack
  <2> DEFINE n == t.stack[j].n
  <2>1. /\ n # t.root /\ t.mem[n].dirty
        /\ \A i \in 1 .. Len(t.stack) : t.stack[i].n = n => i = j
        /\ j < Len(t.stack) => t.mem[n].right = t.stack[j + 1].n
        /\ t.mem[Below(t, j)].height <= t.mem[t.mem[n].left].height
    BY <1>1 DEF OnStack
  <2>2. /\ n \in DOMAIN t.mem /\ t.mem[n].left # Null /\ r.mem[n] = t.mem[n]
        /\ r.mem[t.mem[n].left] = t.mem[t.mem[n].left]
        /\ r.mem[Below(t, j)] = t.mem[Below(t, j)]
        /\ Below(r, j) = Below(t, j)
    BY <1>22
  <2> HIDE DEF n
  <2>3. /\ n \in DOMAIN r.mem /\ r.mem[n].left # Null /\ r.mem[n].dirty
        /\ n # t.root
        /\ \A i \in 1 .. Len(t.stack) : t.stack[i].n = n => i = j
        /\ j < Len(t.stack) => r.mem[n].right = t.stack[j + 1].n
        /\ r.mem[Below(r, j)].height <= r.mem[r.mem[n].left].height
    BY <1>7, <2>1, <2>2
  <2> QED
    BY <2>3 DEF n
<1>24. Positions(r, g, more, k)
  <2>1. ASSUME NEW x \in DOMAIN r.mem
        PROVE  /\ g[x] \in Nat \ {0}
               /\ r.mem[x].left # Null =>
                     /\ g[r.mem[x].left] = g[x]
                     /\ x \notin Stacked(r) =>
                           2 * g[r.mem[x].right] = 2 * g[x] + r.mem[r.mem[x].left].size + 1
               /\ r.mem[x].left = Null => g[x] \in 1 .. Len(more) /\ more[g[x]] = x
    <3>1. CASE x = new
      <4>1. Len(all) + 1 \in Nat \ {0} /\ Len(all) + 1 \in 1 .. Len(all) + 1
        BY <1>1
      <4> QED
        BY <1>6, <1>8, <1>9, <3>1, <4>1
    <3>2. CASE x \in DOMAIN t.mem
      <4>1. r.mem[x] = t.mem[x] /\ g[x] = first[x]
        BY <1>7, <1>9, <3>2
      <4>2. /\ first[x] \in Nat \ {0}
            /\ t.mem[x].left # Null =>
                  /\ first[t.mem[x].left] = first[x]
                  /\ x \notin Stacked(t) =>
                        2 * first[t.mem[x].right] = 2 * first[x] + t.mem[t.mem[x].left].size + 1
            /\ t.mem[x].left = Null => first[x] \in 1 .. Len(all) /\ all[first[x]] = x
        BY <1>1, <3>2 DEF Positions
      <4>3. ASSUME t.mem[x].left # Null
            PROVE  /\ g[r.mem[x].left] = g[x]
                   /\ x \notin Stacked(r) =>
                         2 * g[r.mem[x].right] = 2 * g[x] + r.mem[r.mem[x].left].size + 1
        <5>1. t.mem[x].left \in DOMAIN t.mem /\ t.mem[x].right \in DOMAIN t.mem
          BY <1>10, <3>2, <4>3
        <5>2. /\ g[t.mem[x].left] = first[t.mem[x].left]
              /\ g[t.mem[x].right] = first[t.mem[x].right]
              /\ r.mem[t.mem[x].left] = t.mem[t.mem[x].left]
          BY <1>7, <1>9, <5>1
        <5> QED
          BY <1>12, <4>1, <4>2, <4>3, <5>2
      <4>4. ASSUME t.mem[x].left = Null
            PROVE  first[x] \in 1 .. Len(more) /\ more[first[x]] = x
        <5>1. first[x] \in 1 .. Len(all) /\ all[first[x]] = x
          BY <4>2, <4>4
        <5>2. first[x] \in 1 .. Len(all) + 1
          BY <1>1, <5>1
        <5> QED
          BY <1>6, <5>1, <5>2
      <4> QED
        BY <4>1, <4>2, <4>3, <4>4
    <3> QED
      BY <1>7, <3>1, <3>2
  <2>2. ASSUME NEW j \in 1 .. Len(r.stack)
        PROVE  2 * g[Below(r, j)] = 2 * g[r.stack[j].n] + r.mem[r.mem[r.stack[j].n].left].size + 1
    <3> DEFINE n == t.stack[j].n
    <3>1. 2 * first[Below(t, j)] = 2 * first[n] + t.mem[t.mem[n].left].size + 1
      BY <1>1 DEF Positions
    <3>2. /\ r.mem[n] = t.mem[n] /\ g[n] = first[n]
          /\ r.mem[t.mem[n].left] = t.mem[t.mem[n].left]
          /\ g[Below(t, j)] = first[Below(t, j)]
          /\ Below(r, j) = Below(t, j)
      BY <1>22
    <3> HIDE DEF n
    <3> QED
      BY <3>1, <3>2 DEF n
  <2>3. ASSUME NEW i \in 1 .. Len(more)
        PROVE  more[i] \in DOMAIN r.mem /\ r.mem[more[i]].left = Null /\ g[more[i]] = i
    <3>1. CASE i = Len(all) + 1
      BY <1>6, <1>7, <1>8, <1>9, <3>1
    <3>2. CASE i # Len(all) + 1
      <4>1. i \in 1 .. Len(all)
        BY <1>1, <1>6, <3>2
      <4>2. all[i] \in DOMAIN t.mem /\ t.mem[all[i]].left = Null /\ first[all[i]] = i
        BY <1>1, <4>1 DEF Positions
      <4> QED
        BY <1>6, <1>7, <1>9, <4>1, <4>2
    <3> QED
      BY <3>1, <3>2
  <2> QED
    BY <2>1, <2>2, <2>3 DEF Positions
<1>25. Whole(r, g, k)
  <2>1. CASE k = 0
    BY <1>1, <2>1 DEF Whole
  <2>2. CASE k # 0
    <3>1. /\ t.root \in DOMAIN t.mem
          /\ 2 * first[t.root] + t.mem[t.root].size = 2 * k + 1
          /\ first[Below(t, 0)] = 1
      BY <1>1, <2>2 DEF Whole
    <3>2. 0 \in 0 .. Len(t.stack)
      BY <1>21
    <3>3. Below(t, 0) \in DOMAIN t.mem /\ Below(r, 0) = Below(t, 0)
      BY <1>12, <1>20, <2>2, <3>2
    <3> QED
      BY <1>7, <1>9, <2>2, <3>1, <3>3 DEF Whole
  <2> QED
    BY <2>1, <2>2
<1>26. Shape(r, g, more, k)
  BY <1>15, <1>16, <1>17, <1>18, <1>19, <1>23, <1>24, <1>25 DEF Shape
<1> QED
  BY <1>5, <1>26 DEF new, more

\* What inserting a leaf is for the tree and for what waits.
Inserted(t, h, r, g) ==
    /\ Good(r, g)
    /\ r.leaf_nodes \o r.uninserted = Append(t.leaf_nodes \o t.uninserted, Fresh(t.mem))
    /\ Fresh(t.mem) \in Nat \ DOMAIN t.mem
    /\ r.mem = New(t.mem, LeafNode(h))

LEMMA InsertGood ==
    ASSUME NEW t, NEW first, Good(t, first), NEW h
    PROVE  \E g : Inserted(t, h, insert(t, h), g)
<1> DEFINE r == insert(t, h)
           all == t.leaf_nodes \o t.uninserted
           new == Fresh(t.mem)
           k == Len(t.leaf_nodes)
<1>1. /\ t.leaf_nodes \in Seq(Nat) /\ t.uninserted \in Seq(Nat)
      /\ Shape(t, first, all, k) /\ Resumable(t) /\ t.num_flushed = 0
  BY DEF Good
<1>2. DOMAIN t = Members
  <2> HIDE DEF all, k
  <2> QED
    BY <1>1, ShapeFacts
<1>3. /\ DOMAIN r = Members /\ r.mem = New(t.mem, LeafNode(h)) /\ r.root = t.root
      /\ r.leaf_nodes = t.leaf_nodes /\ r.uninserted = Append(t.uninserted, new)
      /\ r.num_flushed = t.num_flushed /\ r.stack = t.stack
  BY <1>2 DEF insert, Members
<1> HIDE DEF r, all, k, new
<1>4. new \in Nat /\ new \notin DOMAIN t.mem /\ \E g : Shape(r, g, Append(all, new), k)
  <2>1. /\ Fresh(t.mem) \in Nat \ DOMAIN t.mem
        /\ \E g : Shape(r, g, Append(all, Fresh(t.mem)), k)
    BY <1>1, <1>3, ShapeInsert
  <2> QED
    BY <2>1 DEF new
<1>5. PICK g : Shape(r, g, Append(all, new), k)
  BY <1>4
<1>6. r.uninserted \in Seq(Nat) /\ r.leaf_nodes \o r.uninserted = Append(all, new)
  <2> DEFINE a == t.leaf_nodes
             b == t.uninserted
  <2>1. a \in Seq(Nat) /\ b \in Seq(Nat) /\ all = a \o b
    BY <1>1 DEF all
  <2> HIDE DEF a, b
  <2>2. Append(b, new) \in Seq(Nat)
    BY <1>4, <2>1, AppendProperties
  <2>3. a \o Append(b, new) = Append(a \o b, new)
    BY <1>4, <2>1
  <2> QED
    BY <1>3, <2>1, <2>2, <2>3 DEF a, b
<1>7. Resumable(r)
  <2>1. t.stack # <<>> => t.root \in DOMAIN t.mem /\ Last(t.stack).n \in DOMAIN t.mem
    <3>1. t.stack # <<>> => k # 0 /\ Len(t.stack) \in 1 .. Len(t.stack)
      <4>1. Len(t.stack) \in Nat /\ (t.stack # <<>> => k # 0)
        BY <1>1, ShapeFacts
      <4> QED
        BY <4>1, EmptySeq
    <3>2. OnStack(t) /\ (k # 0 => t.root \in DOMAIN t.mem)
      BY <1>1, ShapeFacts
    <3> QED
      BY <3>1, <3>2 DEF OnStack, Last
  <2>2. \A x \in DOMAIN t.mem : r.mem[x] = t.mem[x]
    <3> DEFINE node == LeafNode(h)
    <3>1. r.mem = New(t.mem, node)
      BY <1>3
    <3> HIDE DEF node
    <3>2. \A x \in DOMAIN t.mem : New(t.mem, node)[x] = t.mem[x]
      BY NewNode
    <3> QED
      BY <3>1, <3>2
  <2> QED
    BY <1>1, <1>3, <2>1, <2>2 DEF Resumable, Joined, is_full
<1>8. Good(r, g)
  BY <1>1, <1>3, <1>5, <1>6 , <1>7 DEF Good, k
<1> QED
  BY <1>3, <1>4, <1>6, <1>8 DEF Inserted, r, all, new

-----------------------------------------------------------------------------
(* The root of a sequence of leaves.                                       *)

\* Below every number of leaves is a power of two that is at least half of it.
LEMMA PowerBelow ==
    ASSUME NEW n \in Nat, n > 1
    PROVE  \E e \in Nat : 2 ^ e < n /\ n <= 2 * 2 ^ e
<1> DEFINE T == {i \in Nat : \E e \in Nat : 2 ^ e < i + 2 /\ i + 2 <= 2 * 2 ^ e}
<1>1. 0 \in T
  <2>1. 2 ^ 0 = 1
    BY PowerZero
  <2> DEFINE a == 2 ^ 0
  <2>2. a < 0 + 2 /\ 0 + 2 <= 2 * a
    <3>1. a = 1
      BY <2>1
    <3> HIDE DEF a
    <3> QED
      BY <3>1
  <2>3. \E e \in Nat : 2 ^ e < 0 + 2 /\ 0 + 2 <= 2 * 2 ^ e
    <3>1. 0 \in Nat
      OBVIOUS
    <3> WITNESS 0 \in Nat
    <3> QED
      BY <2>2
  <2> QED
    BY <2>3
<1>2. ASSUME NEW i \in Nat, i \in T PROVE i + 1 \in T
  <2>1. PICK e \in Nat : 2 ^ e < i + 2 /\ i + 2 <= 2 * 2 ^ e
    BY <1>2
  <2>2. 2 ^ e \in Nat /\ 2 ^ (e + 1) = 2 * 2 ^ e /\ e + 1 \in Nat
    BY PowerDoubles
  <2>3. CASE i + 2 < 2 * 2 ^ e
    <3> DEFINE a == 2 ^ e
    <3>1. a \in Nat /\ a < i + 2 /\ i + 2 < 2 * a
      BY <2>1, <2>2, <2>3
    <3> HIDE DEF a
    <3>2. a < (i + 1) + 2 /\ (i + 1) + 2 <= 2 * a
      BY <3>1
    <3> QED
      BY <3>2 DEF a
  <2>4. CASE ~ (i + 2 < 2 * 2 ^ e)
    <3> DEFINE a == 2 ^ e
               b == 2 ^ (e + 1)
    <3>1. a \in Nat /\ a < i + 2 /\ i + 2 <= 2 * a /\ ~ (i + 2 < 2 * a) /\ b = 2 * a
      BY <2>1, <2>2, <2>4
    <3> HIDE DEF a, b
    <3>2. b < (i + 1) + 2 /\ (i + 1) + 2 <= 2 * b
      BY <3>1
    <3> QED
      BY <2>2, <3>2 DEF b
  <2> QED
    BY <2>3, <2>4
<1>3. n - 2 \in T
  <2> HIDE DEF T
  <2>1. n - 2 \in Nat
    OBVIOUS
  <2> QED
    BY <1>1, <1>2, <2>1, SetInduction
<1>4. (n - 2) + 2 = n
  OBVIOUS
<1> QED
  BY <1>3, <1>4

\* There is but one.
LEMMA LeftLeavesIs ==
    ASSUME NEW n \in Nat, NEW k \in 1 .. n - 1, n <= 2 * k, NEW e \in Nat, k = 2 ^ e
    PROVE  LeftLeaves(n) = k
<1> DEFINE Half(j) == n <= 2 * j /\ \E d \in 0 .. n : j = 2 ^ d
<1>1. Half(k)
  <2>1. e < 2 ^ e
    BY PowerGrows
  <2>2. e \in 0 .. n
    BY <2>1
  <2> QED
    BY <2>2
<1>2. ASSUME NEW j \in 1 .. n - 1, Half(j) PROVE j = k
  <2>1. PICK d \in 0 .. n : j = 2 ^ d
    BY <1>2
  <2>2. n <= 2 * j
    BY <1>2
  <2> HIDE DEF Half
  <2>3. d < e => 2 * 2 ^ d <= 2 ^ e
    BY PowerMonotonic
  <2>4. e < d => 2 * 2 ^ e <= 2 ^ d
    BY PowerMonotonic
  <2>5. ~ (d < e)
    BY <2>1, <2>2, <2>3
  <2>6. ~ (e < d)
    BY <2>1, <2>4
  <2>7. d = e
    BY <2>5, <2>6
  <2> QED
    BY <2>1, <2>7
<1>3. LeftLeaves(n) = CHOOSE j \in 1 .. n - 1 : Half(j)
  BY DEF LeftLeaves
<1> HIDE DEF Half
<1> QED
  BY <1>1, <1>2, <1>3

LEMMA LeftLeavesType ==
    ASSUME NEW n \in Nat, n > 1
    PROVE  LeftLeaves(n) \in 1 .. n - 1 /\ n - LeftLeaves(n) \in 1 .. n - 1
<1>1. PICK e \in Nat : 2 ^ e < n /\ n <= 2 * 2 ^ e
  BY PowerBelow
<1>2. 2 ^ e \in Nat /\ e < 2 ^ e
  BY PowerGrows
<1> DEFINE k == 2 ^ e
<1>3. k = 2 ^ e /\ k \in Nat /\ e < k /\ k < n /\ n <= 2 * k
  BY <1>1, <1>2
<1> HIDE DEF k
<1>4. k \in 1 .. n - 1 /\ n - k \in 1 .. n - 1
  BY <1>3
<1>5. LeftLeaves(n) = k
  BY <1>3, <1>4, LeftLeavesIs
<1> QED
  BY <1>4, <1>5

RootRow(s, n, f) ==
    [first \in 1 .. Len(s) - n + 1 |->
        IF n = 1 THEN s[first]
        ELSE HASH_FUNCTION(f[LeftLeaves(n)][first], f[n - LeftLeaves(n)][first + LeftLeaves(n)])]

\* f is what root is in ReferenceRoot, for up to h leaves.
IsRoot(s, h, f) == f = [n \in 1 .. h |-> RootRow(s, n, f)]

LEMMA RootRowSame ==
    ASSUME NEW s, NEW n \in Nat \ {0}, NEW f, NEW g, \A i \in 1 .. n - 1 : f[i] = g[i]
    PROVE  RootRow(s, n, f) = RootRow(s, n, g)
<1>1. CASE n = 1
  BY <1>1 DEF RootRow
<1>2. CASE n # 1
  <2>1. n > 1
    BY <1>2
  <2>2. LeftLeaves(n) \in 1 .. n - 1 /\ n - LeftLeaves(n) \in 1 .. n - 1
    BY <2>1, LeftLeavesType
  <2>3. f[LeftLeaves(n)] = g[LeftLeaves(n)] /\ f[n - LeftLeaves(n)] = g[n - LeftLeaves(n)]
    BY <2>2
  <2> QED
    BY <2>3 DEF RootRow
<1> QED
  BY <1>1, <1>2

LEMMA RootExists ==
    ASSUME NEW s, NEW h \in Nat
    PROVE  \E f : IsRoot(s, h, f)
<1> DEFINE T == {l \in Nat : \E f : IsRoot(s, l, f)}
<1>1. 0 \in T
  <2>1. IsRoot(s, 0, [n \in 1 .. 0 |-> 0])
    BY DEF IsRoot
  <2> QED
    BY <2>1
<1>2. ASSUME NEW l \in Nat, l \in T PROVE l + 1 \in T
  <2>1. PICK f : IsRoot(s, l, f)
    BY <1>2
  <2>2. \A n \in 1 .. l : f[n] = RootRow(s, n, f)
    BY <2>1 DEF IsRoot
  <2> DEFINE g == [n \in 1 .. l + 1 |-> IF n <= l THEN f[n] ELSE RootRow(s, n, f)]
  <2>3. \A n \in 1 .. l + 1 : g[n] = RootRow(s, n, f)
    <3> TAKE n \in 1 .. l + 1
    <3>1. n <= l => n \in 1 .. l
      OBVIOUS
    <3> QED
      BY <2>2, <3>1
  <2>4. \A n \in 1 .. l : g[n] = f[n]
    BY <2>2, <2>3
  <2>5. DOMAIN g = 1 .. l + 1 /\ g = [n \in 1 .. l + 1 |-> g[n]]
    OBVIOUS
  <2> HIDE DEF g, T
  <2>6. \A n \in 1 .. l + 1 : g[n] = RootRow(s, n, g)
    <3> TAKE n \in 1 .. l + 1
    <3>1. n \in Nat \ {0} /\ \A i \in 1 .. n - 1 : f[i] = g[i]
      BY <2>4
    <3>2. RootRow(s, n, f) = RootRow(s, n, g)
      BY <3>1, RootRowSame
    <3> QED
      BY <2>3, <3>2
  <2>7. IsRoot(s, l + 1, g)
    BY <2>5, <2>6 DEF IsRoot
  <2> QED
    BY <2>7 DEF T
<1>3. h \in T
  <2> HIDE DEF T
  <2> QED
    BY <1>1, <1>2, SetInduction
<1> QED
  BY <1>3

\* root[n][first] is the root of the n leaves from first on.
RootFrom(s, f) ==
    \A n \in 1 .. Len(s) : \A first \in 1 .. Len(s) - n + 1 :
        f[n][first] = IF n = 1 THEN s[first]
                      ELSE HASH_FUNCTION(f[LeftLeaves(n)][first],
                                         f[n - LeftLeaves(n)][first + LeftLeaves(n)])

LEMMA RootUnfolds ==
    ASSUME NEW s, Len(s) \in Nat
    PROVE  \E f : RootFrom(s, f) /\ ReferenceRoot(s) = f[Len(s)][1]
<1> DEFINE f == CHOOSE q : IsRoot(s, Len(s), q)
<1>1. IsRoot(s, Len(s), f)
  <2> PICK h \in Nat : h = Len(s)
    OBVIOUS
  <2>1. \E q : IsRoot(s, h, q)
    BY RootExists
  <2> QED
    BY <2>1
<1>2. ReferenceRoot(s) = f[Len(s)][1]
  BY DEF ReferenceRoot, IsRoot, RootRow
<1> HIDE DEF f
<1>3. \A n \in 1 .. Len(s) : f[n] = RootRow(s, n, f)
  BY <1>1 DEF IsRoot
<1>4. RootFrom(s, f)
  BY <1>3 DEF RootFrom, RootRow
<1> QED
  BY <1>2, <1>4

\* The hash of a node that is not dirty is the root of the leaves below it.
HasValue(m, first, x, N, f) ==
    \E n \in 1 .. N :
        /\ 2 * n = m[x].size + 1
        /\ first[x] \in 1 .. N - n + 1
        /\ m[x].hash = f[n][first[x]]

LEMMA LeafValue ==
    ASSUME NEW t, NEW first, NEW all, NEW k, Shape(t, first, all, k),
           NEW s, Len(s) = Len(all), \A i \in 1 .. Len(all) : s[i] = t.mem[all[i]].hash,
           NEW f, RootFrom(s, f),
           NEW x \in DOMAIN t.mem, t.mem[x].left = Null
    PROVE  HasValue(t.mem, first, x, Len(all), f)
<1>1. Len(all) \in Nat /\ NodesTyped(t.mem) /\ Positions(t, first, all, k)
  BY ShapeFacts
<1>2. first[x] \in 1 .. Len(all) /\ all[first[x]] = x /\ t.mem[x].size = 1
  BY <1>1 DEF Positions, NodesTyped
<1>3. 1 \in 1 .. Len(all) /\ Len(all) - 1 + 1 = Len(all)
  BY <1>1, <1>2
<1>4. f[1][first[x]] = s[first[x]]
  <2>1. 1 \in 1 .. Len(s) /\ first[x] \in 1 .. Len(s) - 1 + 1
    BY <1>2, <1>3
  <2> QED
    BY <2>1 DEF RootFrom
<1>5. s[first[x]] = t.mem[x].hash
  BY <1>2
<1>6. 2 * 1 = t.mem[x].size + 1
  BY <1>2
<1>7. t.mem[x].hash = f[1][first[x]] /\ first[x] \in 1 .. Len(all) - 1 + 1
  BY <1>2, <1>3, <1>4, <1>5
<1> QED
  BY <1>3, <1>6, <1>7 DEF HasValue

\* A left subtree is full, and holds no fewer leaves than the right one.
LEMMA LeftSize ==
    ASSUME NEW t, NEW first, NEW all, NEW k, Shape(t, first, all, k), t.stack = <<>>,
           NEW x \in DOMAIN t.mem, t.mem[x].left # Null
    PROVE  /\ \E e \in Nat : t.mem[t.mem[x].left].size + 1 = 2 * 2 ^ e
           /\ t.mem[t.mem[x].right].size <= t.mem[t.mem[x].left].size
<1>1. NodesTyped(t.mem) /\ Balanced(t)
  BY ShapeFacts
<1>2. Stacked(t) = {}
  BY ShapeLower
<1> DEFINE l == t.mem[x].left
           r == t.mem[x].right
           a == t.mem[l].size
           b == t.mem[r].size
           g == t.mem[l].height
           h == t.mem[r].height
<1>3. l \in DOMAIN t.mem /\ r \in DOMAIN t.mem
  BY <1>1 DEF NodesTyped
<1>4. /\ a \in Nat \ {0} /\ b \in Nat \ {0} /\ g \in Nat \ {0} /\ h \in Nat \ {0}
      /\ b < 2 ^ h
  BY <1>1, <1>3 DEF NodesTyped
<1>5. a = 2 ^ g - 1 /\ h <= g
  BY <1>1, <1>2 DEF Balanced, is_full
<1> HIDE DEF a, b, g, h
<1>6. g - 1 \in Nat /\ (g - 1) + 1 = g
  BY <1>4
<1> DEFINE e == g - 1
<1>7. 2 ^ (e + 1) = 2 * 2 ^ e /\ 2 ^ e \in Nat /\ e \in Nat /\ e + 1 = g
  <2>1. e \in Nat /\ e + 1 = g
    BY <1>6
  <2> HIDE DEF e
  <2> QED
    BY <2>1, PowerDoubles
<1> HIDE DEF e
<1>8. a + 1 = 2 * 2 ^ e
  <2> DEFINE p == 2 ^ e
             q == 2 ^ g
  <2>1. q = 2 * p /\ p \in Nat /\ a = q - 1
    BY <1>5, <1>7
  <2> HIDE DEF p, q
  <2>2. a + 1 = 2 * p
    BY <2>1
  <2> QED
    BY <2>2 DEF p
<1>9. b <= a
  <2> DEFINE p == 2 ^ h
             q == 2 ^ g
  <2>1. p \in Nat /\ q \in Nat
    BY <1>4, PowerDoubles
  <2>2. h < g => 2 * 2 ^ h <= 2 ^ g
    BY <1>4, PowerMonotonic
  <2>3. h < g \/ h = g
    BY <1>4, <1>5
  <2>4. h = g => p = q
    OBVIOUS
  <2>5. h < g => 2 * p <= q
    BY <2>2
  <2>6. b < p /\ a = q - 1
    BY <1>4, <1>5
  <2> HIDE DEF p, q
  <2> QED
    BY <1>4, <2>1, <2>3, <2>4, <2>5, <2>6
<1> QED
  BY <1>7, <1>8, <1>9 DEF a, b, l, r

LEMMA InnerValue ==
    ASSUME NEW t, NEW first, NEW all, NEW k, Shape(t, first, all, k), t.stack = <<>>,
           NEW s, Len(s) = Len(all), NEW f, RootFrom(s, f),
           NEW x \in DOMAIN t.mem, t.mem[x].left # Null, ~t.mem[x].dirty,
           HasValue(t.mem, first, t.mem[x].left, Len(all), f),
           HasValue(t.mem, first, t.mem[x].right, Len(all), f)
    PROVE  HasValue(t.mem, first, x, Len(all), f)
<1>1. /\ Len(all) \in Nat /\ NodesTyped(t.mem) /\ Balanced(t) /\ Current(t.mem)
      /\ Positions(t, first, all, k)
  BY ShapeFacts
<1>2. Stacked(t) = {}
  BY ShapeLower
<1> DEFINE l == t.mem[x].left
           r == t.mem[x].right
           N == Len(all)
<1>3. l \in DOMAIN t.mem /\ r \in DOMAIN t.mem
  BY <1>1 DEF NodesTyped
<1>4. PICK i \in 1 .. N : /\ 2 * i = t.mem[l].size + 1
                          /\ first[l] \in 1 .. N - i + 1
                          /\ t.mem[l].hash = f[i][first[l]]
  BY DEF HasValue
<1>5. PICK j \in 1 .. N : /\ 2 * j = t.mem[r].size + 1
                          /\ first[r] \in 1 .. N - j + 1
                          /\ t.mem[r].hash = f[j][first[r]]
  BY DEF HasValue
<1>6. t.mem[x].size = t.mem[l].size + t.mem[r].size + 1
  BY <1>1, <1>2 DEF Balanced
<1>7. first[l] = first[x] /\ 2 * first[r] = 2 * first[x] + t.mem[l].size + 1
  BY <1>1, <1>2 DEF Positions
<1>8. t.mem[x].hash = HASH_FUNCTION(t.mem[l].hash, t.mem[r].hash)
  BY <1>1 DEF Current
<1>9. PICK e \in Nat : t.mem[l].size + 1 = 2 * 2 ^ e
  BY LeftSize
<1>10. t.mem[r].size <= t.mem[l].size
  BY LeftSize
<1>11. /\ t.mem[l].size \in Nat /\ t.mem[r].size \in Nat /\ t.mem[x].size \in Nat
       /\ first[x] \in Nat /\ first[r] \in Nat
  BY <1>1, <1>3 DEF NodesTyped, Positions
<1>12. 2 ^ e \in Nat
  BY PowerDoubles
<1> DEFINE a == t.mem[l].size
           b == t.mem[r].size
           c == t.mem[x].size
           p == 2 ^ e
           fx == first[x]
           fr == first[r]
           n == i + j
<1>13. /\ a \in Nat /\ b \in Nat /\ c \in Nat /\ p \in Nat /\ fx \in Nat /\ fr \in Nat /\ N \in Nat
       /\ 2 * i = a + 1 /\ 2 * j = b + 1 /\ c = a + b + 1 /\ 2 * fr = 2 * fx + a + 1
       /\ a + 1 = 2 * p /\ b <= a
       /\ fx \in 1 .. N - i + 1 /\ fr \in 1 .. N - j + 1
  BY <1>1, <1>4, <1>5, <1>6, <1>7, <1>9, <1>10, <1>11, <1>12
<1> HIDE DEF a, b, c, p, fx, fr, N
<1>14. i = p /\ fr = fx + i /\ j <= i /\ 2 * n = c + 1
  <2>1. i \in Nat /\ j \in Nat
    BY <1>13
  <2>2. i = p
    BY <1>13, <2>1
  <2>3. fr = fx + i
    BY <1>13, <2>1
  <2>4. j <= i
    BY <1>13, <2>1
  <2>5. 2 * n = c + 1
    BY <1>13, <2>1
  <2> QED
    BY <2>2, <2>3, <2>4, <2>5
<1>15. n \in 1 .. N /\ fx \in 1 .. N - n + 1
  BY <1>13, <1>14
<1>16. n \in Nat /\ n # 1 /\ i \in 1 .. n - 1 /\ n <= 2 * i /\ n - i = j
  BY <1>13, <1>14
<1>17. LeftLeaves(n) = i
  <2>1. i = 2 ^ e
    BY <1>14 DEF p
  <2> HIDE DEF n
  <2> QED
    BY <1>16, <2>1, LeftLeavesIs
<1>18. f[n][fx] = HASH_FUNCTION(f[i][fx], f[j][fx + i])
  <2> HIDE DEF n
  <2>1. Len(s) = N
    BY DEF N
  <2>2. f[n][fx] = IF n = 1 THEN s[fx]
                   ELSE HASH_FUNCTION(f[LeftLeaves(n)][fx], f[n - LeftLeaves(n)][fx + LeftLeaves(n)])
    BY <1>15, <2>1 DEF RootFrom
  <2> QED
    BY <1>16, <1>17, <2>2
<1>19. t.mem[l].hash = f[i][fx] /\ t.mem[r].hash = f[j][fx + i]
  BY <1>4, <1>5, <1>7, <1>14 DEF fx, fr
<1>20. t.mem[x].hash = f[n][fx]
  <2> HIDE DEF n
  <2> QED
    BY <1>8, <1>18, <1>19
<1>21. n \in 1 .. N /\ 2 * n = t.mem[x].size + 1 /\ first[x] \in 1 .. N - n + 1
       /\ t.mem[x].hash = f[n][first[x]]
  BY <1>14, <1>15, <1>20 DEF c, fx
<1> HIDE DEF n
<1>22. HasValue(t.mem, first, x, N, f)
  BY <1>21 DEF HasValue
<1> QED
  BY <1>22 DEF N

LEMMA NodeValue ==
    ASSUME NEW t, NEW first, NEW all, NEW k, Shape(t, first, all, k), t.stack = <<>>,
           NEW s, Len(s) = Len(all), \A i \in 1 .. Len(all) : s[i] = t.mem[all[i]].hash,
           NEW f, RootFrom(s, f),
           NEW x \in DOMAIN t.mem, ~t.mem[x].dirty
    PROVE  HasValue(t.mem, first, x, Len(all), f)
<1> DEFINE V(y) == HasValue(t.mem, first, y, Len(all), f)
           T == {h \in Nat : \A y \in DOMAIN t.mem : ~t.mem[y].dirty /\ t.mem[y].height <= h => V(y)}
<1>1. NodesTyped(t.mem) /\ LowerChildren(t.mem) /\ Current(t.mem)
  BY ShapeFacts, ShapeLower
<1>2. \A y \in DOMAIN t.mem : t.mem[y].height \in Nat \ {0}
  BY <1>1 DEF NodesTyped
<1>3. 0 \in T
  <2>1. \A y \in DOMAIN t.mem : ~ (t.mem[y].height <= 0)
    BY <1>2
  <2> QED
    BY <2>1
<1>4. ASSUME NEW h \in Nat, h \in T PROVE h + 1 \in T
  <2> SUFFICES ASSUME NEW y \in DOMAIN t.mem, ~t.mem[y].dirty, t.mem[y].height <= h + 1
               PROVE  V(y)
    <3> HIDE DEF V
    <3>1. h + 1 \in Nat
      OBVIOUS
    <3> QED
      BY <3>1
  <2>1. \A z \in DOMAIN t.mem : ~t.mem[z].dirty /\ t.mem[z].height <= h => V(z)
    <3> HIDE DEF V
    <3> QED
      BY <1>4
  <2> HIDE DEF V, T
  <2>2. CASE t.mem[y].left = Null
    BY <2>2, LeafValue DEF V
  <2>3. CASE t.mem[y].left # Null
    <3> DEFINE l == t.mem[y].left
               r == t.mem[y].right
    <3>1. l \in DOMAIN t.mem /\ r \in DOMAIN t.mem
      BY <1>1, <2>3 DEF NodesTyped
    <3>2. ~t.mem[l].dirty /\ ~t.mem[r].dirty
      BY <1>1, <2>3 DEF Current
    <3>3. t.mem[l].height < t.mem[y].height /\ t.mem[r].height < t.mem[y].height
      BY <1>1, <2>3 DEF LowerChildren
    <3>4. t.mem[l].height <= h /\ t.mem[r].height <= h
      <4> DEFINE a == t.mem[y].height
                 b == t.mem[l].height
                 c == t.mem[r].height
      <4>1. a \in Nat /\ b \in Nat /\ c \in Nat /\ b < a /\ c < a /\ a <= h + 1
        BY <1>2, <3>1, <3>3
      <4> HIDE DEF a, b, c
      <4>2. b <= h /\ c <= h
        BY <4>1
      <4> QED
        BY <4>2 DEF b, c
    <3>5. V(l) /\ V(r)
      <4> HIDE DEF l, r
      <4> QED
        BY <2>1, <3>1, <3>2, <3>4
    <3> QED
      BY <2>3, <3>5, InnerValue DEF V
  <2> QED
    BY <2>2, <2>3
<1>5. t.mem[x].height \in T
  <2> HIDE DEF T
  <2>1. t.mem[x].height \in Nat
    BY <1>2
  <2> QED
    BY <1>3, <1>4, <2>1, SetInduction
<1>6. V(x)
  <2> HIDE DEF V
  <2>1. t.mem[x].height <= t.mem[x].height
    BY <1>2
  <2> QED
    BY <1>5, <2>1
<1> QED
  BY <1>6

-----------------------------------------------------------------------------
(* The leaves' hashes, and what the operations do to them.                 *)

\* The sequence s is that of the hashes of the leaves all.
HashesOf(m, all, S, s) ==
    s \in Seq(S) /\ Len(s) = Len(all) /\ \A i \in 1 .. Len(all) : s[i] = m[all[i]].hash

LEMMA FunctionIsSeq ==
    ASSUME NEW n \in Nat, NEW S, NEW s \in [1 .. n -> S]
    PROVE  s \in Seq(S) /\ Len(s) = n
<1>1. s \in Seq(S) /\ DOMAIN s = 1 .. n
  BY SeqDef
<1>2. DOMAIN s = 1 .. Len(s) /\ Len(s) \in Nat
  BY <1>1, LenProperties
<1> PICK a \in Nat : a = Len(s)
  BY <1>2
<1>3. \A i : i \in 1 .. n <=> i \in 1 .. a
  BY <1>1, <1>2
<1>4. (n # 0 => n \in 1 .. n) /\ (a # 0 => a \in 1 .. a)
  OBVIOUS
<1>5. (n # 0 => n \in 1 .. a) /\ (a # 0 => a \in 1 .. n)
  BY <1>3, <1>4
<1>6. n <= a /\ a <= n
  BY <1>5
<1>7. a = n
  BY <1>6
<1> QED
  BY <1>1, <1>7

LEMMA LeafHashesAre ==
    ASSUME NEW t, NEW all \in Seq(Nat), t.leaf_nodes \o t.uninserted = all,
           NEW S, \A i \in 1 .. Len(all) : t.mem[all[i]].hash \in S
    PROVE  HashesOf(t.mem, all, S, LeafHashes(t))
<1>1. DOMAIN all = 1 .. Len(all) /\ Len(all) \in Nat
  BY LenProperties
<1>2. LeafHashes(t) = [i \in 1 .. Len(all) |-> t.mem[all[i]].hash]
  BY <1>1 DEF LeafHashes
<1> PICK n \in Nat : n = Len(all)
  BY <1>1
<1> DEFINE s == [i \in 1 .. n |-> t.mem[all[i]].hash]
<1>3. s \in [1 .. n -> S]
  OBVIOUS
<1>4. s \in Seq(S) /\ Len(s) = n
  <2> HIDE DEF s
  <2> QED
    BY <1>3, FunctionIsSeq
<1>5. \A i \in 1 .. n : s[i] = t.mem[all[i]].hash
  OBVIOUS
<1> HIDE DEF s
<1>6. LeafHashes(t) = s
  BY <1>2 DEF s
<1> QED
  BY <1>4, <1>5, <1>6 DEF HashesOf

\* The leaves of two trees are the same, and have the same hashes.
LEMMA SameLeafHashes ==
    ASSUME NEW t, NEW r, NEW all \in Seq(Nat), t.leaf_nodes \o t.uninserted = all,
           r.leaf_nodes \o r.uninserted = all,
           \A i \in 1 .. Len(all) : r.mem[all[i]].hash = t.mem[all[i]].hash
    PROVE  LeafHashes(r) = LeafHashes(t)
<1> DEFINE S == {t.mem[all[i]].hash : i \in 1 .. Len(all)}
<1>1. /\ \A i \in 1 .. Len(all) : t.mem[all[i]].hash \in S
      /\ \A i \in 1 .. Len(all) : r.mem[all[i]].hash \in S
  OBVIOUS
<1> HIDE DEF S
<1>2. HashesOf(t.mem, all, S, LeafHashes(t)) /\ HashesOf(r.mem, all, S, LeafHashes(r))
  BY <1>1, LeafHashesAre
<1> QED
  BY <1>2, SeqEqual DEF HashesOf

LEMMA LeafHashesAppended ==
    ASSUME NEW t, NEW first, Good(t, first), NEW h, NEW r, NEW g, Inserted(t, h, r, g)
    PROVE  LeafHashes(r) = Append(LeafHashes(t), h)
<1> DEFINE all == t.leaf_nodes \o t.uninserted
           new == Fresh(t.mem)
           node == LeafNode(h)
           more == Append(all, new)
           S == {t.mem[all[i]].hash : i \in 1 .. Len(all)} \cup {h}
           k == Len(t.leaf_nodes)
<1>1. /\ r.leaf_nodes \o r.uninserted = more /\ new \notin DOMAIN t.mem
      /\ r.mem = New(t.mem, node) /\ Good(r, g)
  BY DEF Inserted
<1>2. all \in Seq(Nat) /\ more \in Seq(Nat)
  <2>1. Shape(t, first, all, k) /\ Shape(r, g, more, Len(r.leaf_nodes))
    BY <1>1 DEF Good
  <2> HIDE DEF all, more, k
  <2> QED
    BY <2>1 DEF Shape, Memory
<1>3. \A i \in 1 .. Len(all) : all[i] \in DOMAIN t.mem
  <2>1. Positions(t, first, all, k)
    BY DEF Good, Shape
  <2> HIDE DEF all, k
  <2> QED
    BY <2>1 DEF Positions
<1>4. node.hash = h
  BY DEF LeafNode
<1>5. h \in S /\ \A i \in 1 .. Len(all) : t.mem[all[i]].hash \in S
  OBVIOUS
<1>6. t.leaf_nodes \o t.uninserted = all /\ more = Append(all, new) /\ new = Fresh(t.mem)
  OBVIOUS
<1> HIDE DEF all, new, node, more, S, k
<1>7. /\ Len(all) \in Nat /\ Len(more) = Len(all) + 1 /\ more[Len(all) + 1] = new
      /\ \A i \in 1 .. Len(all) : more[i] = all[i]
  <2>1. new \in Nat /\ more = Append(all, new)
    BY <1>6 DEF Inserted
  <2> QED
    BY <1>2, <2>1, AppendProperties
<1>8. /\ \A x \in DOMAIN t.mem : r.mem[x] = t.mem[x]
      /\ r.mem[new] = node
  <2>1. /\ \A x \in DOMAIN t.mem : New(t.mem, node)[x] = t.mem[x]
        /\ Fresh(t.mem) \notin DOMAIN t.mem => New(t.mem, node)[Fresh(t.mem)] = node
    BY NewNode
  <2> QED
    BY <1>1, <1>6, <2>1
<1>9. /\ \A i \in 1 .. Len(all) : r.mem[more[i]].hash = t.mem[all[i]].hash
      /\ r.mem[more[Len(all) + 1]].hash = h
  BY <1>3, <1>4, <1>7, <1>8
<1>10. \A i \in 1 .. Len(more) : r.mem[more[i]].hash \in S
  <2> TAKE i \in 1 .. Len(more)
  <2>1. i = Len(all) + 1 \/ i \in 1 .. Len(all)
    BY <1>7
  <2> QED
    BY <1>5, <1>9, <2>1
<1>11. HashesOf(t.mem, all, S, LeafHashes(t)) /\ HashesOf(r.mem, more, S, LeafHashes(r))
  BY <1>1, <1>2, <1>5, <1>6, <1>10, LeafHashesAre
<1> DEFINE u == LeafHashes(t)
           v == LeafHashes(r)
           w == Append(u, h)
<1>12. /\ u \in Seq(S) /\ Len(u) = Len(all) /\ v \in Seq(S) /\ Len(v) = Len(all) + 1
       /\ \A i \in 1 .. Len(all) : u[i] = t.mem[all[i]].hash
       /\ \A i \in 1 .. Len(more) : v[i] = r.mem[more[i]].hash
  BY <1>7, <1>11 DEF HashesOf
<1>13. w = Append(u, h)
  OBVIOUS
<1> HIDE DEF u, v, w
<1>14. /\ w \in Seq(S) /\ Len(w) = Len(all) + 1 /\ w[Len(all) + 1] = h
       /\ \A i \in 1 .. Len(all) : w[i] = u[i]
  BY <1>5, <1>12, <1>13, AppendProperties
<1>15. \A i \in 1 .. Len(v) : v[i] = w[i]
  <2> TAKE i \in 1 .. Len(v)
  <2>1. i = Len(all) + 1 \/ i \in 1 .. Len(all)
    BY <1>7, <1>12
  <2>2. v[i] = r.mem[more[i]].hash
    BY <1>7, <1>12
  <2> QED
    BY <1>9, <1>12, <1>14, <2>1, <2>2
<1>16. v = w
  BY <1>12, <1>14, <1>15, SeqEqual
<1> QED
  BY <1>13, <1>16 DEF u, v

\* All leaves of a tree.
LEMMA GoodLeaves ==
    ASSUME NEW t, NEW first, Good(t, first)
    PROVE  LET all == t.leaf_nodes \o t.uninserted
           IN  /\ all \in Seq(Nat) /\ Len(all) = num_leaves(t)
               /\ \A i \in 1 .. Len(all) : all[i] \in DOMAIN t.mem
<1> DEFINE a == t.leaf_nodes
           b == t.uninserted
           all == a \o b
<1>1. a \in Seq(Nat) /\ b \in Seq(Nat) /\ t.num_flushed = 0 /\ Shape(t, first, all, Len(a))
  BY DEF Good
<1>2. num_leaves(t) = 0 + Len(a) + Len(b)
  BY <1>1 DEF num_leaves
<1>3. Positions(t, first, all, Len(a))
  BY <1>1 DEF Shape
<1> HIDE DEF a, b
<1>4. Len(all) = Len(a) + Len(b) /\ all \in Seq(Nat) /\ Len(a) \in Nat /\ Len(b) \in Nat
  BY <1>1, ConcatParts
<1> HIDE DEF all
<1>5. \A i \in 1 .. Len(all) : all[i] \in DOMAIN t.mem
  BY <1>3 DEF Positions
<1>6. Len(all) = num_leaves(t)
  BY <1>2, <1>4
<1> QED
  BY <1>4, <1>5, <1>6 DEF a, b, all

LEMMA SizeSame ==
    ASSUME NEW t, NEW first, Good(t, first), NEW r, r = insert_leaves(t, FALSE)
    PROVE  /\ \E g : Good(r, g)
           /\ LeafHashes(r) = LeafHashes(t) /\ num_leaves(r) = num_leaves(t)
<1> DEFINE no == FALSE
           all == t.leaf_nodes \o t.uninserted
<1>1. no \in BOOLEAN /\ r = insert_leaves(t, no) /\ all = t.leaf_nodes \o t.uninserted
  OBVIOUS
<1>2. /\ all \in Seq(Nat) /\ Len(all) = num_leaves(t)
      /\ \A i \in 1 .. Len(all) : all[i] \in DOMAIN t.mem
  BY GoodLeaves
<1> HIDE DEF no, all
<1>3. PICK g : Settled(r, g, all) /\ Rehashed(t, r)
  <2>1. \E g : Settled(r, g, all) /\ Rehashed(t, r) /\ (no => r.stack = <<>>)
    BY <1>1, InsertLeaves
  <2> QED
    BY <2>1
<1>4. Good(r, g) /\ r.leaf_nodes \o r.uninserted = all
  BY <1>2, <1>3, SettledGood
<1>5. \A i \in 1 .. Len(all) : r.mem[all[i]].hash = t.mem[all[i]].hash
  BY <1>2, <1>3 DEF Rehashed
<1>6. LeafHashes(r) = LeafHashes(t)
  BY <1>1, <1>2, <1>4, <1>5, SameLeafHashes
<1>7. num_leaves(r) = Len(all)
  BY <1>4, GoodLeaves
<1> QED
  BY <1>2, <1>4, <1>6, <1>7

LEMMA QuerySame ==
    ASSUME NEW t, NEW first, Good(t, first), num_leaves(t) > 0, NEW r, r = compute_root(t)
    PROVE  /\ \E g : Rooted(t, r, g, t.leaf_nodes \o t.uninserted) /\ Good(r, g)
           /\ r.leaf_nodes \o r.uninserted = t.leaf_nodes \o t.uninserted
           /\ LeafHashes(r) = LeafHashes(t) /\ num_leaves(r) = num_leaves(t)
<1> DEFINE all == t.leaf_nodes \o t.uninserted
<1>1. all = t.leaf_nodes \o t.uninserted
  OBVIOUS
<1>2. all \in Seq(Nat) /\ Len(all) = num_leaves(t)
  BY GoodLeaves
<1> HIDE DEF all
<1>3. Len(all) # 0
  BY <1>2
<1>4. PICK g : Rooted(t, r, g, all)
  BY <1>1, <1>3, RootComputed
<1>5. Good(r, g) /\ r.leaf_nodes \o r.uninserted = all
  BY <1>2, <1>4, SettledGood DEF Rooted
<1>6. \A i \in 1 .. Len(all) : r.mem[all[i]].hash = t.mem[all[i]].hash
  BY <1>4 DEF Rooted
<1>7. LeafHashes(r) = LeafHashes(t)
  BY <1>1, <1>2, <1>5, <1>6, SameLeafHashes
<1>8. num_leaves(r) = Len(all)
  BY <1>5, GoodLeaves
<1> QED
  BY <1>1, <1>2, <1>4, <1>5, <1>7, <1>8

LEMMA InsertMore ==
    ASSUME NEW t, NEW first, Good(t, first), NEW h, NEW r, r = insert(t, h)
    PROVE  /\ \E g : Good(r, g)
           /\ LeafHashes(r) = Append(LeafHashes(t), h) /\ num_leaves(r) = num_leaves(t) + 1
<1>1. PICK g : Inserted(t, h, r, g)
  BY InsertGood
<1> DEFINE all == t.leaf_nodes \o t.uninserted
           new == Fresh(t.mem)
<1>2. Good(r, g) /\ r.leaf_nodes \o r.uninserted = Append(all, new)
  BY <1>1 DEF Inserted
<1>3. all \in Seq(Nat) /\ Len(all) = num_leaves(t)
  BY GoodLeaves
<1>4. Len(Append(all, new)) = num_leaves(r) /\ Append(all, new) \in Seq(Nat)
  BY <1>2, GoodLeaves
<1>5. LeafHashes(r) = Append(LeafHashes(t), h)
  BY <1>1, LeafHashesAppended
<1> HIDE DEF all, new
<1>6. Len(Append(all, new)) = Len(all) + 1
  BY <1>3
<1> QED
  BY <1>2, <1>3, <1>4, <1>5, <1>6

-----------------------------------------------------------------------------
(* The inductive invariant, and what follows of it.                        *)

GrowInv == (\E first : Good(tree, first)) /\ num_leaves(tree) \in 0 .. MaxLeaves

LEMMA InitGrow == Init => GrowInv /\ LeafHashes(tree) = <<>>
<1> SUFFICES ASSUME Init PROVE GrowInv /\ LeafHashes(tree) = <<>>
  OBVIOUS
<1>1. tree = EmptyTree
  BY DEF Init
<1>2. Good(tree, [x \in {} |-> 0])
  BY <1>1, EmptyGood
<1>3. tree.leaf_nodes = <<>> /\ tree.uninserted = <<>> /\ tree.num_flushed = 0
  BY <1>1 DEF EmptyTree
<1>4. num_leaves(tree) = 0
  BY <1>3 DEF num_leaves
<1>5. <<>> \in Seq(Nat) /\ Len(<<>>) = 0 /\ <<>> \o <<>> = <<>>
  OBVIOUS
<1>6. LeafHashes(tree) = <<>>
  <2>1. HashesOf(tree.mem, <<>>, {}, LeafHashes(tree))
    <3>1. tree.leaf_nodes \o tree.uninserted = <<>>
      BY <1>3, <1>5
    <3>2. \A i \in 1 .. Len(<<>>) : tree.mem[<<>>[i]].hash \in {}
      BY <1>5
    <3> QED
      BY <1>5, <3>1, <3>2, LeafHashesAre
  <2>2. LeafHashes(tree) \in Seq({}) /\ Len(LeafHashes(tree)) = 0
    BY <1>5, <2>1 DEF HashesOf
  <2> QED
    BY <2>2, EmptySeq
<1>7. 0 \in 0 .. MaxLeaves
  BY MaxLeavesAssumption
<1> QED
  BY <1>2, <1>4, <1>6, <1>7 DEF GrowInv

\* What a step does to the leaves.
Grows(t, r) ==
    LeafHashes(r) = LeafHashes(t) \/ \E h \in Hashes : LeafHashes(r) = Append(LeafHashes(t), h)

LEMMA GrowStep == GrowInv /\ Grow => GrowInv' /\ Grows(tree, tree')
<1> SUFFICES ASSUME GrowInv, Grow PROVE GrowInv' /\ Grows(tree, tree')
  OBVIOUS
<1>1. PICK first : Good(tree, first)
  BY DEF GrowInv
<1>2. num_leaves(tree) \in 0 .. MaxLeaves /\ MaxLeaves \in Nat
  BY MaxLeavesAssumption DEF GrowInv
<1>3. CASE Size
  <2>1. tree' = insert_leaves(tree, FALSE)
    BY <1>3 DEF Size
  <2>2. /\ \E g : Good(tree', g)
        /\ LeafHashes(tree') = LeafHashes(tree) /\ num_leaves(tree') = num_leaves(tree)
    BY <1>1, <2>1, SizeSame
  <2> QED
    BY <1>2, <2>2 DEF GrowInv, Grows
<1>4. CASE Query
  <2>1. tree' = compute_root(tree) /\ num_leaves(tree) > 0
    BY <1>4 DEF Query
  <2> DEFINE all == tree.leaf_nodes \o tree.uninserted
  <2>2. /\ \E g : Rooted(tree, tree', g, all) /\ Good(tree', g)
        /\ LeafHashes(tree') = LeafHashes(tree) /\ num_leaves(tree') = num_leaves(tree)
    BY <1>1, <2>1, QuerySame
  <2> HIDE DEF all
  <2> QED
    BY <1>2, <2>2 DEF GrowInv, Grows
<1>5. ASSUME NEW h \in Hashes, Insert(h) PROVE GrowInv' /\ Grows(tree, tree')
  <2>1. tree' = insert(tree, h) /\ num_leaves(tree) < MaxLeaves
    BY <1>5 DEF Insert
  <2>2. /\ \E g : Good(tree', g)
        /\ LeafHashes(tree') = Append(LeafHashes(tree), h)
        /\ num_leaves(tree') = num_leaves(tree) + 1
    BY <1>1, <2>1, InsertMore
  <2>3. num_leaves(tree') \in 0 .. MaxLeaves
    BY <1>2, <2>1, <2>2
  <2> QED
    BY <2>2, <2>3 DEF GrowInv, Grows
<1> QED
  BY <1>3, <1>4, <1>5 DEF Grow

\* A growing tree is whole after every operation, or its insertion can be taken
\* up where it was left.
THEOREM GrowingInvariant == Growing => []GrowInv
<1>1. Init => GrowInv
  BY InitGrow
<1>2. GrowInv /\ [Grow]_tree => GrowInv'
  <2>1. CASE Grow
    BY <2>1, GrowStep
  <2>2. CASE UNCHANGED tree
    BY <2>2 DEF GrowInv
  <2> QED
    BY <2>1, <2>2
<1> QED
  BY <1>1, <1>2, PTL DEF Growing

LEMMA GoodTypes == GrowInv => TypeOK
<1> SUFFICES ASSUME GrowInv PROVE TypeOK
  OBVIOUS
<1>1. PICK first : Good(tree, first)
  BY DEF GrowInv
<1>2. num_leaves(tree) \in 0 .. MaxLeaves /\ MaxLeaves \in Nat
  BY MaxLeavesAssumption DEF GrowInv
<1> DEFINE a == tree.leaf_nodes
           b == tree.uninserted
           all == a \o b
           k == Len(a)
<1>3. a \in Seq(Nat) /\ b \in Seq(Nat) /\ Shape(tree, first, all, k)
  BY <1>1 DEF Good
<1>4. Len(all) = num_leaves(tree) /\ \A i \in 1 .. Len(all) : all[i] \in DOMAIN tree.mem
  BY <1>1, GoodLeaves
<1>5. ToSet(a) \cup ToSet(b) \subseteq DOMAIN tree.mem
  <2> HIDE DEF a, b
  <2>1. /\ Len(all) = Len(a) + Len(b) /\ Len(a) \in Nat /\ Len(b) \in Nat
        /\ \A i \in 1 .. Len(a) : all[i] = a[i]
        /\ \A i \in 1 .. Len(b) : all[Len(a) + i] = b[i]
    BY <1>3, ConcatParts
  <2> HIDE DEF all
  <2>2. \A i \in 1 .. Len(a) : a[i] \in DOMAIN tree.mem
    <3> TAKE i \in 1 .. Len(a)
    <3>1. i \in 1 .. Len(all)
      BY <2>1
    <3> QED
      BY <1>4, <2>1, <3>1
  <2>3. \A i \in 1 .. Len(b) : b[i] \in DOMAIN tree.mem
    <3> TAKE i \in 1 .. Len(b)
    <3>1. Len(a) + i \in 1 .. Len(all)
      BY <2>1
    <3> QED
      BY <1>4, <2>1, <3>1
  <2>4. DOMAIN a = 1 .. Len(a) /\ DOMAIN b = 1 .. Len(b)
    BY <1>3, LenProperties
  <2> QED
    BY <2>2, <2>3, <2>4 DEF ToSet
<1> HIDE DEF a, b, all, k
<1>6. /\ Memory(tree, all, k) /\ NodesTyped(tree.mem) /\ Whole(tree, first, k)
      /\ Len(all) \in Nat /\ k \in Nat /\ k <= Len(all)
  BY <1>3, ShapeFacts
<1>7. DOMAIN tree.mem \subseteq 1 .. 2 * MaxLeaves
  <2>1. DOMAIN tree.mem = 1 .. (IF k = 0 THEN Len(all) ELSE Len(all) + k - 1)
    BY <1>6 DEF Memory
  <2> PICK n \in Nat : n = Len(all)
    BY <1>6
  <2>2. n <= MaxLeaves
    BY <1>2, <1>4
  <2>3. (IF k = 0 THEN n ELSE n + k - 1) <= 2 * MaxLeaves
    BY <1>2, <1>6, <2>2
  <2> QED
    BY <1>2, <1>6, <2>1, <2>3
<1>8. tree.root \in DOMAIN tree.mem \cup {Null}
  BY <1>6 DEF Whole
<1>9. \A n \in DOMAIN tree.mem :
         /\ tree.mem[n].left \in DOMAIN tree.mem \cup {Null}
         /\ tree.mem[n].right \in DOMAIN tree.mem \cup {Null}
         /\ tree.mem[n].dirty \in BOOLEAN
  BY <1>6 DEF NodesTyped
<1>10. num_leaves(tree) <= MaxLeaves
  BY <1>2
<1> QED
  BY <1>5, <1>7, <1>8, <1>9, <1>10 DEF TypeOK, a, b

LEMMA GoodNodes == GrowInv => NodeInvariant
<1> SUFFICES ASSUME GrowInv PROVE NodeInvariant
  OBVIOUS
<1>1. PICK first : Good(tree, first)
  BY DEF GrowInv
<1> DEFINE all == tree.leaf_nodes \o tree.uninserted
           k == Len(tree.leaf_nodes)
           m == tree.mem
<1>2. Shape(tree, first, all, k)
  BY <1>1 DEF Good
<1> HIDE DEF all, k
<1>3. NodesTyped(m) /\ Balanced(tree)
  BY <1>2, ShapeFacts
<1> SUFFICES ASSUME NEW n \in DOMAIN m
             PROVE  /\ m[n].left = Null <=> m[n].right = Null
                    /\ m[n].size < 2 ^ m[n].height
                    /\ HasChildren(m, n) /\ tree.stack = <<>> =>
                         /\ m[n].size = update_sizes(m, n)[n].size
                         /\ m[n].height = update_sizes(m, n)[n].height
  BY DEF NodeInvariant
<1>4. (m[n].left = Null <=> m[n].right = Null) /\ m[n].size < 2 ^ m[n].height
  BY <1>3 DEF NodesTyped
<1>5. ASSUME HasChildren(m, n), tree.stack = <<>>
      PROVE  /\ m[n].size = update_sizes(m, n)[n].size
             /\ m[n].height = update_sizes(m, n)[n].height
  <2> DEFINE l == m[n].left
             r == m[n].right
             b == m[l].height
             c == m[r].height
  <2>1. l # Null
    BY <1>5 DEF HasChildren
  <2>2. l \in DOMAIN m /\ r \in DOMAIN m /\ DOMAIN m[n] = Fields
    BY <1>3, <2>1 DEF NodesTyped
  <2>3. Stacked(tree) = {}
    BY <1>2, <1>5, ShapeLower
  <2>4. m[n].height = b + 1 /\ c <= b /\ m[n].size = m[l].size + m[r].size + 1
    BY <1>3, <2>1, <2>3 DEF Balanced
  <2>5. b \in Nat /\ c \in Nat
    BY <1>3, <2>2 DEF NodesTyped
  <2>6. Max({b, c}) = b
    <3> HIDE DEF b, c
    <3> QED
      BY <2>4, <2>5, MaxOfTwo
  <2>7. update_sizes(m, n)[n] = [m[n] EXCEPT !.size = m[l].size + m[r].size + 1,
                                             !.height = Max({b, c}) + 1]
    <3> HIDE DEF m
    <3> QED
      BY <1>5 DEF update_sizes, Put
  <2> HIDE DEF l, r, b, c
  <2>8. /\ update_sizes(m, n)[n].size = m[l].size + m[r].size + 1
        /\ update_sizes(m, n)[n].height = Max({b, c}) + 1
    <3> DEFINE d == Max({b, c}) + 1
               e == m[l].size + m[r].size + 1
    <3>1. update_sizes(m, n)[n] = [m[n] EXCEPT !.size = e, !.height = d]
      BY <2>7
    <3> HIDE DEF d, e
    <3>2. update_sizes(m, n)[n].size = e /\ update_sizes(m, n)[n].height = d
      BY <2>2, <3>1 DEF Fields
    <3> QED
      BY <3>2 DEF d, e
  <2> QED
    BY <2>4, <2>6, <2>8
<1> QED
  BY <1>4, <1>5

LEMMA GoodHashes == GrowInv => CleanIsCurrent
<1> SUFFICES ASSUME GrowInv PROVE CleanIsCurrent
  OBVIOUS
<1>1. PICK first : Good(tree, first)
  BY DEF GrowInv
<1>2. Current(tree.mem)
  BY <1>1 DEF Good, Shape
<1> QED
  BY <1>2 DEF CleanIsCurrent, Current, HasChildren

LEMMA GoodRoot == GrowInv => RootIsReference
<1> SUFFICES ASSUME GrowInv, num_leaves(tree) > 0
             PROVE  LET t == compute_root(tree)
                    IN  t.mem[t.root].hash = ReferenceRoot(LeafHashes(tree))
  BY DEF RootIsReference
<1>1. PICK first : Good(tree, first)
  BY DEF GrowInv
<1> DEFINE r == compute_root(tree)
           all == tree.leaf_nodes \o tree.uninserted
           s == LeafHashes(tree)
<1>2. /\ \E g : Rooted(tree, r, g, all) /\ Good(r, g)
      /\ r.leaf_nodes \o r.uninserted = all /\ LeafHashes(r) = s
  BY <1>1, QuerySame
<1>3. all \in Seq(Nat) /\ Len(all) = num_leaves(tree)
  BY <1>1, GoodLeaves
<1> HIDE DEF r, all, s
<1>4. PICK g : Rooted(tree, r, g, all)
  BY <1>2
<1>5. /\ Shape(r, g, all, Len(all)) /\ r.stack = <<>>
      /\ r.root \in DOMAIN r.mem /\ ~r.mem[r.root].dirty
  BY <1>4 DEF Rooted, Settled
<1>6. HashesOf(r.mem, all, {r.mem[all[i]].hash : i \in 1 .. Len(all)}, s)
  <2> DEFINE S == {r.mem[all[i]].hash : i \in 1 .. Len(all)}
  <2>1. \A i \in 1 .. Len(all) : r.mem[all[i]].hash \in S
    OBVIOUS
  <2> HIDE DEF S
  <2>2. HashesOf(r.mem, all, S, LeafHashes(r))
    BY <1>2, <1>3, <2>1, LeafHashesAre
  <2> QED
    BY <1>2, <2>2 DEF S
<1>7. Len(s) = Len(all) /\ \A i \in 1 .. Len(all) : s[i] = r.mem[all[i]].hash
  BY <1>6 DEF HashesOf
<1>8. Len(all) \in Nat
  BY <1>3, LenProperties
<1>9. PICK f : RootFrom(s, f) /\ ReferenceRoot(s) = f[Len(s)][1]
  BY <1>7, <1>8, RootUnfolds
<1>10. HasValue(r.mem, g, r.root, Len(all), f)
  BY <1>5, <1>7, <1>9, NodeValue
<1>11. PICK n \in 1 .. Len(all) : /\ 2 * n = r.mem[r.root].size + 1
                                  /\ r.mem[r.root].hash = f[n][g[r.root]]
  BY <1>10 DEF HasValue
<1>12. Len(all) # 0
  BY <1>3
<1>13. 2 * g[r.root] + r.mem[r.root].size = 2 * Len(all) + 1 /\ g[r.root] = 1
  <2>1. Whole(r, g, Len(all))
    BY <1>5, ShapeFacts
  <2>2. Below(r, 0) = r.root
    BY <1>5 DEF Below
  <2> QED
    BY <1>12, <2>1, <2>2 DEF Whole
<1>14. r.mem[r.root].size \in Nat
  BY <1>5 DEF Shape, NodesTyped
<1>15. n = Len(all)
  <2> PICK N \in Nat : N = Len(all)
    BY <1>8
  <2> PICK c \in Nat : c = r.mem[r.root].size
    BY <1>14
  <2>1. 2 * n = c + 1 /\ 2 * 1 + c = 2 * N + 1 /\ n \in Nat
    BY <1>11, <1>13
  <2>2. n = N
    BY <2>1
  <2> QED
    BY <2>2
<1>16. r.mem[r.root].hash = ReferenceRoot(s)
  BY <1>7, <1>9, <1>11, <1>13, <1>15
<1> QED
  BY <1>16 DEF r, s

\* However many leaves were inserted, and however far, the children, the root and
\* the leaves are in memory, with at most two nodes to a leaf.
THEOREM GrowingTypeCorrect == Growing => []TypeOK
BY GrowingInvariant, GoodTypes, PTL

\* update_sizes is called wherever a child changes: a node's size and height are
\* those of its children whenever no insertion is under way, and no subtree is
\* larger than its height allows.
THEOREM GrowingNodes == Growing => []NodeInvariant
BY GrowingInvariant, GoodNodes, PTL

\* Every node on the way of an insertion is made dirty, so that hash may stop at
\* a node that is not.
THEOREM GrowingClean == Growing => []CleanIsCurrent
BY GrowingInvariant, GoodHashes, PTL

\* The root a registry compares is that of all its leaves in the order inserted,
\* whichever of them were inserted into the tree when, and in however many parts.
THEOREM GrowingRoot == Growing => []RootIsReference
BY GrowingInvariant, GoodRoot, PTL

\* The tree with its nodes, its stack and its waiting leaves is a sequence of
\* hashes, to which insert appends and which the others leave alone.
THEOREM GrowingImplementsSequence == Growing => ImplementsGrowingSequence
<1>1. Init => Sequence!Init
  BY InitGrow DEF Sequence!Init
<1>2. GrowInv /\ [Grow]_tree => [Sequence!Next]_<<LeafHashes(tree), 0>>
  <2> SUFFICES ASSUME GrowInv, [Grow]_tree
               PROVE  [Sequence!Next]_<<LeafHashes(tree), 0>>
    OBVIOUS
  <2>1. CASE Grow
    <3>1. Grows(tree, tree')
      BY <2>1, GrowStep
    <3>2. CASE LeafHashes(tree') = LeafHashes(tree)
      BY <3>2
    <3>3. ASSUME NEW h \in Hashes, LeafHashes(tree') = Append(LeafHashes(tree), h)
          PROVE  Sequence!Next
      <4>1. Sequence!Insert(h)
        BY <3>3 DEF Sequence!Insert
      <4> QED
        BY <4>1 DEF Sequence!Next
    <3> QED
      BY <3>1, <3>2, <3>3 DEF Grows
  <2>2. CASE UNCHANGED tree
    BY <2>2
  <2> QED
    BY <2>1, <2>2
<1> QED
  BY <1>1, <1>2, GrowingInvariant, PTL DEF Growing, ImplementsGrowingSequence, Sequence!Spec

-----------------------------------------------------------------------------
(* The leaves a root stands for.                                           *)

\* The n leaves of s from i on are those of u from j on.
Part(s, i, u, j, n) == \A d \in 0 .. n - 1 : s[i + d] = u[j + d]

LEMMA PartsJoin ==
    ASSUME NEW s, NEW u, NEW i \in Nat, NEW j \in Nat, NEW a \in Nat, NEW b \in Nat,
           Part(s, i, u, j, a), Part(s, i + a, u, j + a, b)
    PROVE  Part(s, i, u, j, a + b)
<1> SUFFICES ASSUME NEW d \in 0 .. (a + b) - 1 PROVE s[i + d] = u[j + d]
  BY DEF Part
<1>1. CASE d < a
  <2>1. d \in 0 .. a - 1
    BY <1>1
  <2> QED
    BY <2>1 DEF Part
<1>2. CASE ~ (d < a)
  <2>1. d - a \in 0 .. b - 1 /\ (i + a) + (d - a) = i + d /\ (j + a) + (d - a) = j + d
    BY <1>2
  <2>2. s[(i + a) + (d - a)] = u[(j + a) + (d - a)]
    BY <2>1 DEF Part
  <2> QED
    BY <2>1, <2>2
<1> QED
  BY <1>1, <1>2

\* The places of the roots of parts of a sequence.
Place(s, n, i) == n \in 1 .. Len(s) /\ i \in 1 .. Len(s) - n + 1

LEMMA RootHalves ==
    ASSUME NEW S, NEW s \in Seq(S), NEW f, RootFrom(s, f), NEW n, NEW i, Place(s, n, i)
    PROVE  /\ n = 1 => f[n][i] = s[i] /\ s[i] \in S
           /\ n # 1 => \E k \in 1 .. n - 1 :
                          /\ k = LeftLeaves(n) /\ n - k \in 1 .. n - 1
                          /\ Place(s, k, i) /\ Place(s, n - k, i + k)
                          /\ f[n][i] = HASH_FUNCTION(f[k][i], f[n - k][i + k])
<1>1. n \in 1 .. Len(s) /\ i \in 1 .. Len(s) - n + 1 /\ Len(s) \in Nat
  BY LenProperties DEF Place
<1>2. f[n][i] = IF n = 1 THEN s[i]
                ELSE HASH_FUNCTION(f[LeftLeaves(n)][i], f[n - LeftLeaves(n)][i + LeftLeaves(n)])
  BY <1>1 DEF RootFrom
<1>3. n = 1 => s[i] \in S
  <2> HAVE n = 1
  <2>1. i \in 1 .. Len(s)
    BY <1>1
  <2> QED
    BY <2>1, ElementOfSeq
<1>4. ASSUME n # 1
      PROVE  \E k \in 1 .. n - 1 :
                /\ k = LeftLeaves(n) /\ n - k \in 1 .. n - 1
                /\ Place(s, k, i) /\ Place(s, n - k, i + k)
                /\ f[n][i] = HASH_FUNCTION(f[k][i], f[n - k][i + k])
  <2>1. n \in Nat /\ n > 1
    BY <1>1, <1>4
  <2>2. LeftLeaves(n) \in 1 .. n - 1 /\ n - LeftLeaves(n) \in 1 .. n - 1
    BY <2>1, LeftLeavesType
  <2>3. PICK k \in 1 .. n - 1 : k = LeftLeaves(n)
    BY <2>2
  <2>4. n - k \in 1 .. n - 1
    BY <2>1
  <2>5. Place(s, k, i) /\ Place(s, n - k, i + k)
    <3> PICK N \in Nat : N = Len(s)
      BY <1>1
    <3>1. n \in 1 .. N /\ i \in 1 .. N - n + 1
      BY <1>1
    <3>2. k \in 1 .. N /\ i \in 1 .. N - k + 1
      BY <3>1
    <3>3. n - k \in 1 .. N /\ i + k \in 1 .. N - (n - k) + 1
      BY <3>1
    <3> QED
      BY <3>2, <3>3 DEF Place
  <2> QED
    BY <1>2, <1>4, <2>3, <2>4, <2>5
<1> QED
  BY <1>2, <1>3, <1>4

\* Equal roots are those of equally many leaves, which are the same.
SameParts(s, f, u, g, n, m, i, j) ==
    Place(s, n, i) /\ Place(u, m, j) /\ f[n][i] = g[m][j] => n = m /\ Part(s, i, u, j, n)

LEMMA RootsAgree ==
    ASSUME NEW s \in Seq(Hashes), NEW f, RootFrom(s, f),
           NEW u \in Seq(Hashes), NEW g, RootFrom(u, g),
           NEW h \in Nat
    PROVE  \A n \in 1 .. h : \A m, i, j : SameParts(s, f, u, g, n, m, i, j)
<1> DEFINE Goal(n, m, i, j) == SameParts(s, f, u, g, n, m, i, j)
           T == {l \in Nat : \A n \in 1 .. l : \A m, i, j : Goal(n, m, i, j)}
<1>1. 0 \in T
  OBVIOUS
<1>2. ASSUME NEW l \in Nat, l \in T PROVE l + 1 \in T
  <2> SUFFICES ASSUME NEW n \in 1 .. l + 1, NEW m, NEW i, NEW j,
                      Place(s, n, i), Place(u, m, j), f[n][i] = g[m][j]
               PROVE  n = m /\ Part(s, i, u, j, n)
    BY DEF SameParts
  <2>1. \A a \in 1 .. l : \A b, c, d : Goal(a, b, c, d)
    <3> HIDE DEF Goal
    <3> QED
      BY <1>2
  <2> HIDE DEF T
  <2>2. m \in Nat /\ i \in Nat /\ j \in Nat
    BY LenProperties DEF Place
  <2>3. \A x \in Hashes : Len(x) = 1
    BY HashesAssumption
  <2>4. \A x, y : Len(HASH_FUNCTION(x, y)) = 2
    BY DEF HASH_FUNCTION
  <2>5. CASE n = 1 /\ m = 1
    <3>1. f[n][i] = s[i] /\ g[m][j] = u[j]
      BY <2>5, RootHalves
    <3>2. \A d \in 0 .. n - 1 : s[i + d] = u[j + d]
      BY <2>2, <2>5, <3>1
    <3> QED
      BY <2>5, <3>2 DEF Part
  <2>6. CASE n = 1 /\ m # 1
    <3>1. f[n][i] \in Hashes
      BY <2>6, RootHalves
    <3>2. \E x, y : g[m][j] = HASH_FUNCTION(x, y)
      BY <2>6, RootHalves
    <3> QED
      BY <2>3, <2>4, <3>1, <3>2
  <2>7. CASE n # 1 /\ m = 1
    <3>1. g[m][j] \in Hashes
      BY <2>7, RootHalves
    <3>2. \E x, y : f[n][i] = HASH_FUNCTION(x, y)
      BY <2>7, RootHalves
    <3> QED
      BY <2>3, <2>4, <3>1, <3>2
  <2>8. CASE n # 1 /\ m # 1
    <3>1. PICK a \in 1 .. n - 1 :
             /\ n - a \in 1 .. n - 1
             /\ Place(s, a, i) /\ Place(s, n - a, i + a)
             /\ f[n][i] = HASH_FUNCTION(f[a][i], f[n - a][i + a])
      BY <2>8, RootHalves
    <3>2. PICK b \in 1 .. m - 1 :
             /\ m - b \in 1 .. m - 1
             /\ Place(u, b, j) /\ Place(u, m - b, j + b)
             /\ g[m][j] = HASH_FUNCTION(g[b][j], g[m - b][j + b])
      BY <2>8, RootHalves
    <3>3. f[a][i] = g[b][j] /\ f[n - a][i + a] = g[m - b][j + b]
      <4> HIDE DEF Goal
      <4> DEFINE v == f[a][i]
                 w == f[n - a][i + a]
                 x == g[b][j]
                 y == g[m - b][j + b]
      <4>1. HASH_FUNCTION(v, w) = HASH_FUNCTION(x, y)
        BY <3>1, <3>2
      <4> HIDE DEF v, w, x, y
      <4>2. v = x /\ w = y
        BY <4>1 DEF HASH_FUNCTION
      <4> QED
        BY <4>2 DEF v, w, x, y
    <3>4. a \in 1 .. l /\ n - a \in 1 .. l
      BY <3>1
    <3>5. Goal(a, b, i, j) /\ Goal(n - a, m - b, i + a, j + b)
      <4> HIDE DEF Goal
      <4> QED
        BY <2>1, <3>4
    <3>6. a = b /\ Part(s, i, u, j, a)
      BY <3>1, <3>2, <3>3, <3>5 DEF SameParts
    <3>7. n - a = m - b /\ Part(s, i + a, u, j + b, n - a)
      BY <3>1, <3>2, <3>3, <3>5 DEF SameParts
    <3> HIDE DEF Goal
    <3>8. n = m
      BY <2>2, <3>6, <3>7
    <3>9. Part(s, i, u, j, a + (n - a))
      <4>1. a \in Nat /\ n - a \in Nat /\ Part(s, i + a, u, j + a, n - a)
        BY <3>4, <3>6, <3>7
      <4> QED
        BY <2>2, <3>6, <4>1, PartsJoin
    <3>10. a + (n - a) = n
      OBVIOUS
    <3> QED
      BY <3>8, <3>9, <3>10
  <2> QED
    BY <2>5, <2>6, <2>7, <2>8
<1>3. h \in T
  <2> HIDE DEF T
  <2> QED
    BY <1>1, <1>2, SetInduction
<1> QED
  BY <1>3

\* compareAndSyncTree compares no leaves where the roots are the same: then the
\* leaves are the same, in the same order and as many.
THEOREM RootsDetermineLeaves ==
    ASSUME NEW s \in Seq(Hashes), NEW u \in Seq(Hashes), s # <<>>, u # <<>>,
           ReferenceRoot(s) = ReferenceRoot(u)
    PROVE  s = u
<1>1. Len(s) \in Nat \ {0} /\ Len(u) \in Nat \ {0}
  BY EmptySeq
<1>2. PICK f : RootFrom(s, f) /\ ReferenceRoot(s) = f[Len(s)][1]
  BY <1>1, RootUnfolds
<1>3. PICK g : RootFrom(u, g) /\ ReferenceRoot(u) = g[Len(u)][1]
  BY <1>1, RootUnfolds
<1>4. PICK n \in Nat \ {0} : n = Len(s)
  BY <1>1
<1>5. PICK m \in Nat \ {0} : m = Len(u)
  BY <1>1
<1>6. Place(s, n, 1) /\ Place(u, m, 1)
  <2>1. n \in 1 .. n /\ m \in 1 .. m /\ 1 \in 1 .. n - n + 1 /\ 1 \in 1 .. m - m + 1
    OBVIOUS
  <2> QED
    BY <1>4, <1>5, <2>1 DEF Place
<1>7. f[n][1] = g[m][1]
  BY <1>2, <1>3, <1>4, <1>5
<1>8. n = m /\ Part(s, 1, u, 1, n)
  <2>1. n \in 1 .. n
    OBVIOUS
  <2>2. \A k \in 1 .. n : \A l, i, j : SameParts(s, f, u, g, k, l, i, j)
    BY <1>2, <1>3, RootsAgree
  <2>3. SameParts(s, f, u, g, n, m, 1, 1)
    BY <2>1, <2>2
  <2> QED
    BY <1>6, <1>7, <2>3 DEF SameParts
<1>9. \A i \in 1 .. Len(s) : s[i] = u[i]
  <2> TAKE i \in 1 .. Len(s)
  <2>1. i - 1 \in 0 .. n - 1 /\ 1 + (i - 1) = i
    BY <1>4
  <2>2. s[1 + (i - 1)] = u[1 + (i - 1)]
    BY <1>8, <2>1 DEF Part
  <2> QED
    BY <2>1, <2>2
<1> QED
  BY <1>4, <1>5, <1>8, <1>9, SeqEqual
=============================================================================

----------------------------- MODULE SubtreeProof -----------------------------
(***************************************************************************)
(* The Merkle tree of a storage commitment, replication/commitment.rs, and *)
(* the proof of one contiguous subtree of it that a random nonce selects,  *)
(* replication/subtree.rs.                                                 *)
(*                                                                         *)
(* A tree commits to a sequence of keys in ascending order.  A hash is the *)
(* term it is of: <<k>> for the leaf of key k and <<l, r>> for a node, so  *)
(* that no two different inputs have the same hash.  A nonce is a sequence *)
(* of bits, one for each level of the tree at least.                       *)
(***************************************************************************)
EXTENDS Integers, Sequences, FiniteSets

CONSTANTS
    SMALL_TREE_FULL_AUDIT_FLOOR,
    MaxKeyCount               \* bound on the size of the trees checked

ASSUME SubtreeAssumption ==
    SMALL_TREE_FULL_AUDIT_FLOOR \in Nat /\ MaxKeyCount \in Nat \ {0}

Smaller(a, b) == IF a < b THEN a ELSE b

\* tree_depth: the next power of two of a key count in 1..MAX_COMMITMENT_KEY_COUNT
TreeDepth(keyCount) == CHOOSE d \in 0..keyCount : 2^d >= keyCount /\ (d > 0 => 2^(d - 1) < keyCount)

-----------------------------------------------------------------------------
(* The tree *)

\* build_next_level: the last node of an odd level is its own sibling.
BuildNextLevel(cur) ==
    [i \in 1..((Len(cur) + 1) \div 2) |->
        <<cur[2 * i - 1], IF 2 * i <= Len(cur) THEN cur[2 * i] ELSE cur[2 * i - 1]>>]

\* The levels above a level, that one being level 0.
LevelsAbove(level, levels) ==
    LET above[l \in 0..levels] == IF l = 0 THEN level ELSE BuildNextLevel(above[l - 1])
    IN  above

\* MerkleTree::build
Tree(ks) == LevelsAbove([i \in 1..Len(ks) |-> <<ks[i]>>], TreeDepth(Len(ks)))

Root(tree, keyCount) == tree[TreeDepth(keyCount)][1]

-----------------------------------------------------------------------------
(* The selection *)

\* real_leaves_under
RealLeavesUnder(depth, slot, keyCount) ==
    LET span == 2^(TreeDepth(keyCount) - depth)
    IN  Smaller((slot + 1) * span, keyCount) - Smaller(slot * span, keyCount)

\* sqrt_floor, the root rounded up, by Newton's method
SqrtFloor(n) ==
    LET newton[x \in 1..n] ==
            LET y == (x + n \div x) \div 2 IN IF y < x THEN newton[y] ELSE x
        root == newton[(n + 1) \div 2]
    IN  IF n <= 1 THEN 1 ELSE IF root * root = n THEN root ELSE root + 1

\* The slot that the bits of the nonce lead to at a depth: left for a 1.
Slot(bits, depth) ==
    LET slot[d \in 0..depth] ==
            IF d = 0 THEN 0 ELSE 2 * slot[d - 1] + IF bits[d] = 1 THEN 0 ELSE 1
    IN  slot[depth]

\* Defect: the walk goes into a branch as long as there is a leaf in it.
ChildKeptDeep(bits, depth, keyCount) ==
    /\ depth < TreeDepth(keyCount)
    /\ RealLeavesUnder(depth + 1, Slot(bits, depth + 1), keyCount) >= 1

\* The walk goes on into the child: it has enough leaves.
ChildKept(bits, depth, keyCount) ==
    /\ depth < TreeDepth(keyCount)
    /\ RealLeavesUnder(depth + 1, Slot(bits, depth + 1), keyCount) >= SqrtFloor(keyCount)

\* select_subtree_path
SelectSubtreePath(bits, keyCount) ==
    LET depth == IF keyCount <= SMALL_TREE_FULL_AUDIT_FLOOR THEN 0
                 ELSE CHOOSE d \in 0..TreeDepth(keyCount) :
                        /\ ~ChildKept(bits, d, keyCount)
                        /\ \A e \in 0..(d - 1) : ChildKept(bits, e, keyCount)
        slot == Slot(bits, depth)
        span == 2^(TreeDepth(keyCount) - depth)
    IN  [depth |-> depth, slot |-> slot,
         start |-> Smaller(slot * span, keyCount),
         end |-> Smaller((slot + 1) * span, keyCount)]

-----------------------------------------------------------------------------
(* The proof *)

\* subtree_plan: the keys of the subtree, and on the way to it the sibling of each
\* node, root first; the last node of an odd level is its own sibling.
SubtreePlan(ks, bits) ==
    LET n == Len(ks)
        tree == Tree(ks)
        path == SelectSubtreePath(bits, n)
        cut(d) == LET level == tree[TreeDepth(n) - d]
                      child == Slot(bits, d)
                      sibling == IF child % 2 = 0 THEN child + 1 ELSE child - 1
                  IN  IF sibling < Len(level) THEN level[sibling + 1] ELSE level[child + 1]
    IN  [leaves |-> SubSeq(ks, path.start + 1, path.end),
         cuts |-> [d \in 1..path.depth |-> cut(d)]]

\* Defect: the block is folded until one node is left.
FoldLevelsShort(level, levels) ==
    LET above == LevelsAbove(level, levels)
    IN  above[CHOOSE l \in 0..levels : Len(above[l]) = 1 /\ \A m \in 0..(l - 1) : Len(above[m]) > 1][1]

\* fold_levels
FoldLevels(level, levels) == LevelsAbove(level, levels)[levels][1]

\* verify_subtree_proof: the shape, the order of the keys, and the root.
VerifySubtreeProof(proof, bits, keyCount, root) ==
    LET path == SelectSubtreePath(bits, keyCount)
        block == [i \in 1..Len(proof.leaves) |-> <<proof.leaves[i]>>]
        climb[d \in 0..path.depth] ==
            IF d = path.depth THEN FoldLevels(block, TreeDepth(keyCount) - path.depth)
            ELSE IF (path.slot \div 2^(path.depth - d - 1)) % 2 = 0
                 THEN <<climb[d + 1], proof.cuts[d + 1]>>
                 ELSE <<proof.cuts[d + 1], climb[d + 1]>>
    IN  /\ Len(proof.leaves) = path.end - path.start
        /\ Len(proof.cuts) = path.depth
        /\ \A i \in 1..(Len(proof.leaves) - 1) : proof.leaves[i] < proof.leaves[i + 1]
        /\ climb[0] = root

-----------------------------------------------------------------------------
(* The audits of a tree that grows by a key at a time, each with a new nonce *)

VARIABLES
    keys,       \* the keys committed to
    nonce       \* the nonce of the challenge, as far as the tree uses it

treeVars == <<keys, nonce>>

\* The keys of a tree, with room between two of them.
KeysOf(keyCount) == [i \in 1..keyCount |-> 2 * i]
Nonces(keyCount) == [1..TreeDepth(keyCount) -> {0, 1}]

SubtreeInit == keys = KeysOf(1) /\ nonce \in Nonces(1)

\* The largest tree is followed by the smallest.
Challenge ==
    /\ keys' = KeysOf((Len(keys) % MaxKeyCount) + 1)
    /\ nonce' \in Nonces(Len(keys'))

SubtreeSpec == SubtreeInit /\ [][Challenge]_treeVars

-----------------------------------------------------------------------------
(* Properties *)

\* Whatever the shape of the tree and the nonce, the selection is a block of at
\* least ceil(sqrt(n)) real leaves ("never covers zero real leaves", subtree.rs:80),
\* and some nonce selects each key, so that there is none a node may lose safely.
SelectionCovers ==
    LET n == Len(keys)
        path == SelectSubtreePath(nonce, n)
        selected == path.end - path.start
    IN  /\ 0 <= path.start /\ path.end <= n
        /\ selected > 0 /\ selected * selected >= n
        /\ \A i \in 0..(n - 1) : \E other \in Nonces(n) :
             LET p == SelectSubtreePath(other, n) IN p.start <= i /\ i < p.end

\* Proofs that do not show what the tree commits to: with another key in the place
\* of one, or with a key left out.
Forgeries(proof) ==
    {[proof EXCEPT !.leaves[i] = @ + 1] : i \in 1..Len(proof.leaves)}
      \cup {[proof EXCEPT !.leaves = SubSeq(proof.leaves, 1, Len(proof.leaves) - 1)]}

\* What the responder builds from its tree the auditor accepts, with nothing but the
\* root and the key count, for every shape of the tree, and it accepts nothing that
\* differs in a leaf: the two geometries, one from the bits of the nonce and one
\* from the parity of the index of the node (subtree.rs:353), are the same.
ProofsExact ==
    LET n == Len(keys)
        root == Root(Tree(keys), n)
        proof == SubtreePlan(keys, nonce)
    IN  /\ VerifySubtreeProof(proof, nonce, n, root)
        /\ \A forged \in Forgeries(proof) : ~VerifySubtreeProof(forged, nonce, n, root)

=============================================================================

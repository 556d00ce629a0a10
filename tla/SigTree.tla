------------------------------- MODULE SigTree -------------------------------
(***************************************************************************)
(* gblsminsig/internal/sigtree: the keys of the validators are the leaves  *)
(* of a binary tree in an array, padded to a power of two; every inner     *)
(* node has the aggregate of the keys below it.  A signature of a node is  *)
(* the aggregate of the signatures of its leaves.                          *)
(*                                                                         *)
(* A point of the curve is abstracted to the number of times each key or   *)
(* signature was added into it, so that counting one twice is visible.     *)
(***************************************************************************)
EXTENDS Integers, SequencesExt

CONSTANT NKeys   \* number of validators

\* A key ID is a big endian uint16.  With twice as many nodes as padded keys,
\* the IDs of all nodes are distinct up to 2^15 keys: the code checks no bound,
\* and says that it is not intended to support 32k public keys.
KeyIDBits == 16

ASSUME KeysAssumption == NKeys \in 1..2^(KeyIDBits - 1)

Leaf == 0..(NKeys - 1)

ZeroPoint == [k \in Leaf |-> 0]
Add(a, b) == [k \in Leaf |-> a[k] + b[k]]
Unit(k)   == [ZeroPoint EXCEPT ![k] = 1]

Depth == CHOOSE d \in 0..16 : 2^d >= NKeys /\ (d = 0 \/ 2^(d - 1) < NKeys)
LeavesWidth == 2^Depth
NNodes == 2 * LeavesWidth - 1
Node   == 0..(NNodes - 1)
Root   == NNodes - 1

\* Layers from the leaves (0) up; each starts after the one below.
LayerStart(l) == 2 * LeavesWidth - 2 * (LeavesWidth \div 2^l)
Layer == [i \in Node |->
            CHOOSE l \in 0..Depth : LayerStart(l) <= i /\ i < LayerStart(l + 1)]
Offset(i)   == i - LayerStart(Layer[i])
Parent(i)   == LayerStart(Layer[i] + 1) + Offset(i) \div 2
Neighbor(i) == IF i % 2 = 0 THEN i + 1 ELSE i - 1

\* Padded keys are to the right, so only b is looked at.
aggregateKeys(a, b) == IF b = ZeroPoint THEN a ELSE Add(a, b)

\* New: the keys of all nodes, layer by layer.
keys ==
    LET key[l \in 0..Depth] ==
          IF l = 0
          THEN [j \in 0..(LeavesWidth - 1) |-> IF j \in Leaf THEN Unit(j) ELSE ZeroPoint]
          ELSE [j \in 0..(LeavesWidth \div 2^l - 1) |->
                  aggregateKeys(key[l - 1][2 * j], key[l - 1][2 * j + 1])]
    IN [i \in Node |-> key[Layer[i]][Offset(i)]]

\* The validators below a node.
LeavesOf(i) ==
    LET n == 2^Layer[i]
    IN {k \in Leaf : Offset(i) * n <= k /\ k < Offset(i) * n + n}

EmptyTree == [sigs |-> [i \in Node |-> ZeroPoint], bits |-> {}]

Has(t, i) == t.sigs[i] # ZeroPoint

\* One round of the loop of AddSignature: store, then climb to the parent if
\* it has no signature and the neighbor has one or has no key.
Climb(a, l) ==
    LET t == [a.tree EXCEPT !.sigs[a.at] = a.sig]
        p == Parent(a.at)
        n == Neighbor(a.at)
    IN CASE a.stop -> a
         [] ~a.stop /\ a.at = Root -> [a EXCEPT !.tree = [t EXCEPT !.bits = Leaf], !.stop = TRUE]
         [] ~a.stop /\ a.at # Root ->
              IF t.sigs[p] # ZeroPoint \/ (keys[n] # ZeroPoint /\ t.sigs[n] = ZeroPoint)
              THEN [a EXCEPT !.tree = t, !.stop = TRUE]
              ELSE [a EXCEPT !.tree = t, !.at = p, !.sig = Add(@, t.sigs[n])]

AddSignature(t, i, sig) ==
    FoldLeft(Climb,
             [tree |-> [t EXCEPT !.bits = @ \cup LeavesOf(i)],
              at |-> i, sig |-> sig, stop |-> FALSE],
             [l \in 1..(Depth + 1 - Layer[i]) |-> l]).tree

\* Nodes with a signature that have no ancestor with one, from the top.
Ancestor(a, i) ==
    Layer[a] > Layer[i] /\ Offset(a) = Offset(i) \div 2^(Layer[a] - Layer[i])

\* Takes the leaves only.
SparseIndicesLeaves(t) == SetToSortSeq({i \in Leaf : Has(t, i)}, <)

SparseIndices(t) ==
    SetToSortSeq({i \in Node : /\ Has(t, i)
                               /\ ~\E a \in Node : Ancestor(a, i) /\ Has(t, a)},
                 LAMBDA i, j : Layer[i] > Layer[j] \/ (Layer[i] = Layer[j] /\ i < j))
=============================================================================

------------------------------- MODULE LocHeap -------------------------------
(***************************************************************************)
(* LocHeap.cpp: a binary tree of nodes that swap their data so that every  *)
(* node outranks its subtrees.  Nodes never move: a push goes down into    *)
(* the smaller subtree, a pop pulls data up along the higher ranking one.  *)
(* A node is the way to it from the top, a sequence of sides; the calls    *)
(* that the code nests go along the way to one node, where the last ends.  *)
(***************************************************************************)
EXTENDS Pointers, Integers, Sequences, FiniteSets

CONSTANTS Items, Rank
ASSUME HeapAssumption == Null \notin Items /\ Rank \in [Items -> Int]

VARIABLES
  mTree,      \* the nodes' data and sizes
  heapOut     \* what the last call returned

heapVars == <<mTree, heapOut>>
HeapInit == mTree = <<>> /\ heapOut = Null

outRanks(d, e) == Rank[d] > Rank[e]
Node(d) == [data |-> d, size |-> 1]

Sides == {"left", "right"}
\* The node at a depth on the way to q, and whether q is p or in its subtrees.
Above(q, depth) == SubSeq(q, 1, depth)
Under(p, q) == Len(p) <= Len(q) /\ Above(q, Len(p)) = p

TreeData(t) == {t[p].data : p \in DOMAIN t}
Free(t) ==
  IF DOMAIN t = {} THEN {<<>>} ELSE {Append(p, side) : p \in DOMAIN t, side \in Sides} \ DOMAIN t
Leaves(t) == {q \in DOMAIN t : \A side \in Sides : Append(q, side) \notin DOMAIN t}

\* LocHeapNode::push: the new node goes where a child is missing, or into the smaller
\* subtree; the lower ranking of two data is carried down.
PushSide(t, p) ==
  LET l == Append(p, "left")
      r == Append(p, "right")
  IN IF l \in DOMAIN t /\ (r \notin DOMAIN t \/ t[l].size > t[r].size) THEN "right" ELSE "left"
PushEnds(t) == {q \in Free(t) : \A k \in 0 .. Len(q) - 1 : q[k + 1] = PushSide(t, Above(q, k))}
Lower(d, e) == IF outRanks(d, e) THEN e ELSE d
Higher(d, e) == IF outRanks(d, e) THEN d ELSE e
CarriedDown(t, d, q) ==
  {carried \in [0 .. Len(q) -> Items] :
     /\ carried[0] = d
     /\ \A k \in 0 .. Len(q) - 1 : carried[k + 1] = Lower(carried[k], t[Above(q, k)].data)}
PushNode(t, q, carried) ==
  [p \in DOMAIN t \cup {q} |->
     IF p = q THEN Node(carried[Len(q)])
     ELSE IF Under(p, q) THEN [data |-> Higher(carried[Len(p)], t[p].data), size |-> t[p].size + 1]
     ELSE t[p]]

\* LocHeapNode::pop from p: the leaf that goes is at the end of the higher ranking
\* children, whose data move up.  What loses a node in its subtrees counts it.
PopSide(t, p) ==
  LET l == Append(p, "left")
      r == Append(p, "right")
  IN IF l \in DOMAIN t /\ (r \notin DOMAIN t \/ outRanks(t[l].data, t[r].data)) THEN "left" ELSE "right"
PopEnds(t, p) ==
  {q \in Leaves(t) : Under(p, q) /\ \A k \in Len(p) .. Len(q) - 1 : q[k + 1] = PopSide(t, Above(q, k))}
PulledUp(t, p, q, x) == IF Under(p, x) /\ Under(x, q) THEN t[Above(q, Len(x) + 1)].data ELSE t[x].data
PopNode(t, p, q) ==
  [x \in DOMAIN t \ {q} |->
     [data |-> PulledUp(t, p, q, x), size |-> IF Under(x, q) THEN t[x].size - 1 ELSE t[x].size]]

\* LocHeapNode::remove, which gives a subtree up when the datum outranks its top:
\* the node it finds, if any.
FoundEager(t, d) ==
  {p \in DOMAIN t : t[p].data = d /\ \A k \in 0 .. Len(p) - 1 : outRanks(t[Above(p, k)].data, d)}
Found(t, d) ==
  {p \in DOMAIN t : t[p].data = d /\ \A k \in 0 .. Len(p) - 1 : ~outRanks(d, t[Above(p, k)].data)}

push(d) ==
  /\ d \notin TreeData(mTree)
  /\ \E q \in PushEnds(mTree) : \E carried \in CarriedDown(mTree, d, q) :
       mTree' = PushNode(mTree, q, carried)
  /\ UNCHANGED heapOut
pop ==
  \/ DOMAIN mTree = {} /\ heapOut' = Null /\ UNCHANGED mTree
  \/ /\ DOMAIN mTree # {} /\ heapOut' = mTree[<<>>].data
     /\ \E q \in PopEnds(mTree, <<>>) : mTree' = PopNode(mTree, <<>>, q)
remove(d) ==
  \/ Found(mTree, d) = {} /\ heapOut' = Null /\ UNCHANGED mTree
  \/ /\ heapOut' = d
     /\ \E p \in Found(mTree, d) : \E q \in PopEnds(mTree, p) : mTree' = PopNode(mTree, p, q)

HeapNext == pop \/ \E d \in Items : push(d) \/ remove(d)
HeapSpec == HeapInit /\ [][HeapNext]_heapVars

-----------------------------------------------------------------------------
(* Properties.                                                             *)

Bag == INSTANCE PriorityBag WITH
  Nothing <- Null, members <- TreeData(mTree), got <- heapOut

\* Through any sequence of pushes, pops and removals from the middle, with equal
\* ranks among them, pop takes the timer that is due first and remove finds
\* every timer it is asked for, although it prunes its search by rank.
HeapIsPriorityBag == Bag!Spec

\* What the unit test asserts of every node (checkNodes in LocHeap.cpp): no child
\* outranks it, and mSize, by which push balances the tree, counts its subtree.
checkNode(p) ==
  /\ \A side \in Sides :
       Append(p, side) \in DOMAIN mTree => ~outRanks(mTree[Append(p, side)].data, mTree[p].data)
  /\ mTree[p].size = Cardinality({x \in DOMAIN mTree : Under(p, x)})
HeapConsistent == \A p \in DOMAIN mTree : checkNode(p)
=============================================================================

----------------------------- MODULE UtilProofs -----------------------------
(***************************************************************************)
(* Proofs about the utilities under the message queues and the timers:     *)
(* that the doubly linked list (LinkedList) implements a queue (Fifo), for *)
(* any number of cells and data; that timers (LocTimer) are alive in the   *)
(* heap and end once, for any number of timers, starts and delays; and that*)
(* the heap (LocHeap) implements a bag with priorities (PriorityBag), for  *)
(* any items and ranks.                                                    *)
(***************************************************************************)
EXTENDS LinkedList, LocHeap, LocTimer, FiniteSetTheorems, SequenceTheorems, WellFoundedInduction, TLAPS

-----------------------------------------------------------------------------
(* The walk along a link.                                                  *)

\* Every set of naturals that is not empty has a least element.
LEMMA LeastNatural ==
  ASSUME NEW S \in SUBSET Nat, S # {}
  PROVE  \E x \in S : \A y \in S : x <= y
  <1>1. PICK x \in S : \A y \in S : ~ (<<y, x>> \in OpToRel(<, Nat))
    BY NatLessThanWellFounded, WFMin, Zenon
  <1>2. \A y \in S : ~(y < x)
    BY <1>1 DEF OpToRel
  <1> QED
    BY <1>2

\* The cells s follow one another along link from from, and the last leads nowhere.
Follows(s, link, from) ==
  /\ from = IF s = <<>> THEN Null ELSE s[1]
  /\ \A i \in DOMAIN s : link[s[i]] = IF i = Len(s) THEN Null ELSE s[i + 1]

\* The walk meets the cells of the chain in turn, then Null for good.
LEMMA WalkFollows ==
  ASSUME NEW s \in Seq(Cells), NEW link, NEW from, Follows(s, link, from)
  PROVE  \A i \in Nat : Walk(link, from)[i] = IF i < Len(s) THEN s[i + 1] ELSE Null
  <1>1. PICK n \in Nat : /\ n = Len(s) /\ DOMAIN s = 1 .. n /\ (s = <<>> <=> n = 0)
                         /\ \A i \in 1 .. n : s[i] \in Cells /\ s[i] # Null
    BY ListAssumption
  <1> DEFINE g == [i \in Nat |-> IF i < n THEN s[i + 1] ELSE Null]
             Body(f) == [i \in Nat |-> IF i = 0 THEN from
                                       ELSE IF f[i - 1] = Null THEN Null ELSE link[f[i - 1]]]
             w == Walk(link, from)
  <1>a. \A i \in Nat : g[i] = IF i < n THEN s[i + 1] ELSE Null
    OBVIOUS
  <1>b. g = [i \in Nat |-> g[i]]
    OBVIOUS
  <1>c. /\ from = IF n = 0 THEN Null ELSE s[1]
        /\ \A i \in 1 .. n : link[s[i]] = IF i = n THEN Null ELSE s[i + 1]
    BY <1>1 DEF Follows
  <1> HIDE DEF g
  <1>2. \A i \in Nat : g[i] = IF i = 0 THEN from
                              ELSE IF g[i - 1] = Null THEN Null ELSE link[g[i - 1]]
    <2> SUFFICES ASSUME NEW i \in Nat
                 PROVE  g[i] = IF i = 0 THEN from
                               ELSE IF g[i - 1] = Null THEN Null ELSE link[g[i - 1]]
      OBVIOUS
    <2>1. CASE i = 0
      BY <1>a, <1>c, <2>1
    <2>2. CASE i # 0 /\ i < n
      <3>1. i \in 1 .. n /\ i # n /\ i - 1 \in Nat /\ i - 1 < n
        BY <2>2
      <3>2. g[i - 1] = s[i] /\ g[i] = s[i + 1]
        BY <1>a, <2>2, <3>1
      <3>3. link[s[i]] = s[i + 1] /\ s[i] # Null
        BY <1>1, <1>c, <3>1
      <3> QED
        BY <2>2, <3>2, <3>3
    <2>3. CASE i # 0 /\ i = n
      <3>1. i \in 1 .. n /\ i - 1 \in Nat /\ i - 1 < n /\ ~(i < n)
        BY <2>3
      <3>2. g[i - 1] = s[i] /\ g[i] = Null
        BY <1>a, <3>1
      <3>3. link[s[i]] = Null
        BY <1>c, <2>3, <3>1
      <3> QED
        BY <2>3, <3>2, <3>3
    <2>4. CASE i # 0 /\ i > n
      <3>1. i - 1 \in Nat /\ ~(i - 1 < n) /\ ~(i < n)
        BY <2>4
      <3>2. g[i - 1] = Null /\ g[i] = Null
        BY <1>a, <3>1
      <3> QED
        BY <2>4, <3>2
    <2>5. i < n \/ i = n \/ i > n
      OBVIOUS
    <2> QED
      BY <2>1, <2>2, <2>3, <2>4, <2>5
  <1>3. g = Body(g)
    BY <1>2, <1>b
  <1>4. w = CHOOSE f : f = Body(f)
    BY DEF Walk
  <1> HIDE DEF w
  <1>5. w = Body(w)
    <2> HIDE DEF Body
    <2> QED
      BY <1>3, <1>4
  <1>6. \A i \in Nat : w[i] = IF i = 0 THEN from
                              ELSE IF w[i - 1] = Null THEN Null ELSE link[w[i - 1]]
    BY <1>5
  <1>7. \A i \in Nat : w[i] = g[i]
    <2> DEFINE B == {i \in Nat : w[i] # g[i]}
    <2> SUFFICES ASSUME B # {} PROVE FALSE
      OBVIOUS
    <2>1. PICK x \in B : \A y \in B : x <= y
      <3>1. B \in SUBSET Nat
        OBVIOUS
      <3> QED
        BY <3>1, LeastNatural
    <2>2. x # 0
      BY <1>2, <1>6
    <2>3. x - 1 \in Nat /\ x - 1 \notin B
      BY <2>1, <2>2
    <2>4. w[x - 1] = g[x - 1]
      BY <2>3
    <2> QED
      BY <1>2, <1>6, <2>2, <2>4
  <1> QED
    BY <1>1, <1>a, <1>7 DEF w

Once(s) == \A i, j \in DOMAIN s : s[i] = s[j] => i = j

\* Read along the link, the chain is what it is.
LEMMA CellsFollow ==
  ASSUME NEW s \in Seq(Cells), Once(s), NEW link, NEW from, Follows(s, link, from)
  PROVE  CellsAlong(link, from) = s
  <1>1. PICK n \in Nat : /\ n = Len(s) /\ DOMAIN s = 1 .. n /\ s = [i \in 1 .. n |-> s[i]]
                         /\ \A i \in 1 .. n : s[i] \in Cells /\ s[i] # Null
    BY ListAssumption
  <1> DEFINE w == Walk(link, from)
             N == Cardinality(Cells)
             met == {i \in 0 .. N : w[i] # Null}
  <1>2. \A i \in Nat : w[i] = IF i < n THEN s[i + 1] ELSE Null
    BY <1>1, WalkFollows
  <1> HIDE DEF w
  <1>3. N \in Nat /\ n <= N
    <2>1. s \in Injection(1 .. n, Cells)
      BY <1>1 DEF Injection, IsInjective, Once
    <2>2. IsFiniteSet(Cells)
      BY ListAssumption
    <2>3. Cardinality(1 .. n) <= N
      BY <2>1, <2>2, FS_Injection
    <2>4. Cardinality(1 .. n) = n
      BY FS_Interval
    <2> QED
      BY <2>2, <2>3, <2>4, FS_CardinalityType
  <1> HIDE DEF N
  <1>4. met = 0 .. n - 1
    <2> SUFFICES ASSUME NEW i \in 0 .. N PROVE w[i] # Null <=> i < n
      BY <1>3
    <2>1. i \in Nat /\ (i < n => i + 1 \in 1 .. n)
      BY <1>3
    <2>2. w[i] = IF i < n THEN s[i + 1] ELSE Null
      BY <1>2, <2>1
    <2> QED
      BY <1>1, <2>1, <2>2
  <1>5. Cardinality(met) = n
    <2>1. 0 \in Int /\ n - 1 \in Int /\ (IF 0 > n - 1 THEN 0 ELSE n - 1 - 0 + 1) = n
      OBVIOUS
    <2>2. Cardinality(0 .. n - 1) = n
      BY <2>1, FS_Interval
    <2> QED
      BY <1>4, <2>2
  <1>6. CellsAlong(link, from) = [i \in 1 .. n |-> w[i - 1]]
    <2>1. CellsAlong(link, from) = [i \in 1 .. Cardinality(met) |-> w[i - 1]]
      BY DEF CellsAlong, w, N
    <2> HIDE DEF met
    <2> QED
      BY <1>5, <2>1
  <1>7. \A i \in 1 .. n : w[i - 1] = s[i]
    <2> SUFFICES ASSUME NEW i \in 1 .. n PROVE w[i - 1] = s[i]
      OBVIOUS
    <2>1. i - 1 \in Nat /\ i - 1 < n /\ i - 1 + 1 = i
      OBVIOUS
    <2> QED
      BY <1>2, <2>1
  <1> QED
    BY <1>1, <1>6, <1>7

-----------------------------------------------------------------------------
(* The list and the queue.                                                 *)

\* s holds the cells of the list from its tail to its head, linked both ways.
Links(s, back, tail, forth, head) ==
  /\ s \in Seq(Cells) /\ Once(s)
  /\ Follows(s, back, tail)
  /\ head = IF s = <<>> THEN Null ELSE s[Len(s)]
  /\ \A i \in DOMAIN s : forth[s[i]] = IF i = 1 THEN Null ELSE s[i - 1]
CellsOf(s) == {s[i] : i \in DOMAIN s}
DataOf(s, data) == [i \in DOMAIN s |-> data[s[i]]]

\* All that is allocated is in the list, and no datum is in it twice.
Holds(s, data) ==
  /\ data \in [Cells -> Data \cup {Null}]
  /\ \A c \in Cells : data[c] # Null <=> c \in CellsOf(s)
  /\ \A c, e \in CellsOf(s) : data[c] = data[e] => c = e

ListInv ==
  /\ next \in [Cells -> Cells \cup {Null}] /\ prev \in [Cells -> Cells \cup {Null}]
  /\ \E s : Links(s, prev, pTail, next, pHead) /\ Holds(s, dataPtr)

LEMMA SameQueue ==
  ASSUME NEW S, NEW s \in Seq(S), NEW t \in Seq(S), Len(s) = Len(t),
         \A i \in 1 .. Len(s) : s[i] = t[i]
  PROVE  s = t
  OBVIOUS

\* The data of the list are a queue of data, none of them free memory.
LEMMA DataOfType ==
  ASSUME NEW s \in Seq(Cells), NEW data, Holds(s, data)
  PROVE  /\ DataOf(s, data) \in Seq(Data) /\ Len(DataOf(s, data)) = Len(s)
         /\ \A i \in 1 .. Len(s) : DataOf(s, data)[i] = data[s[i]]
  <1>1. PICK n \in Nat : n = Len(s) /\ DOMAIN s = 1 .. n
    OBVIOUS
  <1>2. \A i \in 1 .. n : data[s[i]] \in Data
    BY <1>1 DEF Holds, CellsOf
  <1> DEFINE q == [i \in 1 .. n |-> data[s[i]]]
  <1>3. q \in [1 .. n -> Data] /\ \A i \in 1 .. n : q[i] = data[s[i]]
    BY <1>2
  <1>4. DataOf(s, data) = q
    BY <1>1 DEF DataOf
  <1> HIDE DEF q
  <1>5. q \in Seq(Data) /\ Len(q) = n
    BY <1>3
  <1> QED
    BY <1>1, <1>3, <1>4, <1>5

\* The queue the list stands for.
LEMMA QueuedIs ==
  ASSUME NEW s, NEW back, NEW tail, NEW forth, NEW head, NEW data,
         Links(s, back, tail, forth, head)
  PROVE  [i \in DOMAIN CellsAlong(back, tail) |-> data[CellsAlong(back, tail)[i]]] = DataOf(s, data)
  <1>1. CellsAlong(back, tail) = s
    BY CellsFollow DEF Links
  <1> QED
    BY <1>1 DEF DataOf

\* Backwards, the chain leads from the head along the other link.
Rev(s) == [i \in 1 .. Len(s) |-> s[Len(s) + 1 - i]]
LEMMA HeadFollows ==
  ASSUME NEW s, NEW back, NEW tail, NEW forth, NEW head, Links(s, back, tail, forth, head)
  PROVE  CellsAlong(forth, head) = Rev(s)
  <1>1. PICK n \in Nat : n = Len(s) /\ DOMAIN s = 1 .. n /\ (s = <<>> <=> n = 0)
                         /\ \A i \in 1 .. n : s[i] \in Cells
    BY DEF Links
  <1> DEFINE r == [i \in 1 .. n |-> s[n + 1 - i]]
  <1>2. \A i \in 1 .. n : n + 1 - i \in 1 .. n /\ r[i] = s[n + 1 - i]
    OBVIOUS
  <1>3. r \in [1 .. n -> Cells]
    BY <1>1, <1>2
  <1>4. Rev(s) = r
    BY <1>1 DEF Rev
  <1> HIDE DEF r
  <1>5. r \in Seq(Cells) /\ Len(r) = n /\ DOMAIN r = 1 .. n /\ (r = <<>> <=> n = 0)
    BY <1>3
  <1>6. Once(r)
    <2> SUFFICES ASSUME NEW i \in 1 .. n, NEW j \in 1 .. n, r[i] = r[j] PROVE i = j
      BY <1>5 DEF Once
    <2> DEFINE k == n + 1 - i
               m == n + 1 - j
    <2>1. k \in 1 .. n /\ m \in 1 .. n /\ s[k] = s[m]
      BY <1>2
    <2> HIDE DEF k, m
    <2>2. k = m
      BY <1>1, <2>1 DEF Links, Once
    <2>3. n + 1 - i = n + 1 - j
      BY <2>2 DEF k, m
    <2> QED
      BY <2>3
  <1>7. Follows(r, forth, head)
    <2>1. head = IF n = 0 THEN Null ELSE r[1]
      <3>1. n # 0 => 1 \in 1 .. n /\ n + 1 - 1 = n
        OBVIOUS
      <3> QED
        BY <1>1, <1>2, <3>1 DEF Links
    <2>2. ASSUME NEW i \in 1 .. n PROVE forth[r[i]] = IF i = n THEN Null ELSE r[i + 1]
      <3> DEFINE k == n + 1 - i
      <3>1. k \in 1 .. n /\ r[i] = s[k] /\ (k = 1 <=> i = n)
        BY <1>2
      <3>2. i # n => i + 1 \in 1 .. n /\ n + 1 - (i + 1) = k - 1
        OBVIOUS
      <3> HIDE DEF k
      <3>3. forth[s[k]] = IF k = 1 THEN Null ELSE s[k - 1]
        BY <1>1, <3>1 DEF Links
      <3>4. i # n => r[i + 1] = s[k - 1]
        BY <1>2, <3>2
      <3> QED
        BY <3>1, <3>3, <3>4
    <2> QED
      BY <1>5, <2>1, <2>2 DEF Follows
  <1> QED
    BY <1>4, <1>5, <1>6, <1>7, CellsFollow

LEMMA ListInvInit == linked_list_init => ListInv /\ Queue!Init
  <1> SUFFICES ASSUME linked_list_init PROVE ListInv /\ Queue!Init
    OBVIOUS
  <1> DEFINE e == <<>>
  <1>1. e \in Seq(Cells) /\ DOMAIN e = {} /\ e = <<>>
    OBVIOUS
  <1> HIDE DEF e
  <1>2. Links(e, prev, pTail, next, pHead)
    BY <1>1 DEF linked_list_init, Links, Once, Follows
  <1>3. Holds(e, dataPtr)
    BY <1>1 DEF linked_list_init, Holds, CellsOf
  <1>4. next \in [Cells -> Cells \cup {Null}] /\ prev \in [Cells -> Cells \cup {Null}]
    BY DEF linked_list_init
  <1>5. Queued = DataOf(e, dataPtr)
    BY <1>2, QueuedIs DEF Queued, FromTail
  <1>6. DataOf(e, dataPtr) = <<>>
    <2> DEFINE q == DataOf(e, dataPtr)
    <2>1. q \in Seq(Data) /\ Len(q) = Len(e)
      BY <1>1, <1>3, DataOfType
    <2> HIDE DEF q
    <2>2. Len(e) = 0
      BY <1>1
    <2>3. q = <<>>
      BY <2>1, <2>2
    <2> QED
      BY <2>3 DEF q
  <1> QED
    BY <1>2, <1>3, <1>4, <1>5, <1>6 DEF ListInv, Queue!Init, linked_list_init

\* What the links of a list of n cells are.
LinkedAt(s, n, back, tail, forth, head) ==
  /\ head = IF n = 0 THEN Null ELSE s[n]
  /\ tail = IF n = 0 THEN Null ELSE s[1]
  /\ \A i \in 1 .. n : back[s[i]] = IF i = n THEN Null ELSE s[i + 1]
  /\ \A i \in 1 .. n : forth[s[i]] = IF i = 1 THEN Null ELSE s[i - 1]
  /\ \A i, j \in 1 .. n : s[i] = s[j] => i = j
LEMMA LinksAt ==
  ASSUME NEW s, NEW back, NEW tail, NEW forth, NEW head, Links(s, back, tail, forth, head),
         NEW n \in Nat, n = Len(s), DOMAIN s = 1 .. n, s = <<>> <=> n = 0
  PROVE  LinkedAt(s, n, back, tail, forth, head)
  <1>1. head = IF n = 0 THEN Null ELSE s[n]
    BY DEF Links
  <1>2. tail = IF n = 0 THEN Null ELSE s[1]
    BY DEF Links, Follows
  <1>3. \A i \in 1 .. n : back[s[i]] = IF i = n THEN Null ELSE s[i + 1]
    BY DEF Links, Follows
  <1>4. \A i \in 1 .. n : forth[s[i]] = IF i = 1 THEN Null ELSE s[i - 1]
    BY DEF Links
  <1>5. \A i, j \in 1 .. n : s[i] = s[j] => i = j
    BY DEF Links, Once
  <1> QED
    BY <1>1, <1>2, <1>3, <1>4, <1>5 DEF LinkedAt

\* A new cell at the head is the youngest of the queue.
LEMMA AddStep ==
  ASSUME ListInv, NEW d \in FreshData, linked_list_add(d)
  PROVE  ListInv' /\ Queue!Put(d)
  <1>1. PICK s : Links(s, prev, pTail, next, pHead) /\ Holds(s, dataPtr)
    BY DEF ListInv
  <1>2. PICK n \in Nat : n = Len(s) /\ DOMAIN s = 1 .. n /\ (s = <<>> <=> n = 0)
                         /\ s \in Seq(Cells) /\ \A i \in 1 .. n : s[i] \in Cells
    BY <1>1 DEF Links
  <1>3. PICK c \in Cells \ Allocated :
          /\ dataPtr' = [dataPtr EXCEPT ![c] = d]
          /\ next' = [next EXCEPT ![c] = pHead]
          /\ prev' = [k \in Cells |-> IF k = c THEN Null ELSE IF k = pHead THEN c ELSE prev[k]]
          /\ pHead' = c
          /\ pTail' = IF pHead = Null THEN c ELSE pTail
          /\ UNCHANGED <<dataOut, deallocated>>
    BY DEF linked_list_add
  <1>4. c \in Cells /\ c # Null /\ dataPtr[c] = Null /\ c \notin CellsOf(s)
    BY <1>1, <1>3, ListAssumption DEF Allocated, Holds
  <1>5. d \in Data /\ d # Null /\ \A k \in Cells : dataPtr[k] # d
    BY ListAssumption DEF FreshData
  <1>6. /\ pHead = IF n = 0 THEN Null ELSE s[n]
        /\ pTail = IF n = 0 THEN Null ELSE s[1]
        /\ \A i \in 1 .. n : prev[s[i]] = IF i = n THEN Null ELSE s[i + 1]
        /\ \A i \in 1 .. n : next[s[i]] = IF i = 1 THEN Null ELSE s[i - 1]
        /\ \A i, j \in 1 .. n : s[i] = s[j] => i = j
    <2>1. LinkedAt(s, n, prev, pTail, next, pHead)
      BY <1>1, <1>2, LinksAt
    <2> QED
      BY <2>1 DEF LinkedAt
  <1> DEFINE t == Append(s, c)
  <1>7. /\ t \in Seq(Cells) /\ Len(t) = n + 1 /\ DOMAIN t = 1 .. n + 1 /\ t # <<>>
        /\ t[n + 1] = c /\ \A i \in 1 .. n : t[i] = s[i]
    BY <1>2, <1>4
  <1> HIDE DEF t
  <1>8. \A i \in 1 .. n : s[i] # c
    BY <1>2, <1>4 DEF CellsOf
  <1>9. \A i \in 1 .. n + 1 : i \in 1 .. n \/ i = n + 1
    OBVIOUS
  <1>10. Once(t)
    <2>1. SUFFICES ASSUME NEW i \in 1 .. n + 1, NEW j \in 1 .. n + 1, t[i] = t[j]
                   PROVE  i = j
      BY <1>7 DEF Once
    <2>2. CASE i \in 1 .. n /\ j \in 1 .. n
      <3>1. s[i] = s[j]
        BY <1>7, <2>1, <2>2
      <3> QED
        BY <1>6, <2>2, <3>1
    <2>3. ~(i \in 1 .. n /\ j = n + 1)
      BY <1>7, <1>8, <2>1
    <2>4. ~(i = n + 1 /\ j \in 1 .. n)
      BY <1>7, <1>8, <2>1
    <2> QED
      BY <1>9, <2>2, <2>3, <2>4
  <1>11. next' \in [Cells -> Cells \cup {Null}] /\ prev' \in [Cells -> Cells \cup {Null}]
    <2>1. pHead \in Cells \cup {Null}
      BY <1>2, <1>6
    <2> QED
      BY <1>3, <1>4, <2>1 DEF ListInv
  <1>12. Follows(t, prev', pTail')
    <2>1. pTail' = t[1]
      <3>1. CASE n = 0
        BY <1>3, <1>6, <1>7, <3>1
      <3>2. CASE n # 0
        <4>1. 1 \in 1 .. n /\ n \in 1 .. n
          BY <3>2
        <4>2. s[n] # Null
          BY <1>2, <4>1, ListAssumption
        <4> QED
          BY <1>3, <1>6, <1>7, <3>2, <4>1, <4>2
      <3> QED
        BY <3>1, <3>2
    <2>2. prev'[t[n + 1]] = Null
      BY <1>3, <1>4, <1>7
    <2>3. ASSUME NEW i \in 1 .. n PROVE prev'[t[i]] = t[i + 1] /\ i # n + 1
      <3>1. CASE i = n
        <4>1. t[i] = s[n] /\ s[n] = pHead /\ s[n] \in Cells /\ s[n] # c
          BY <1>2, <1>6, <1>7, <1>8, <3>1
        <4> QED
          BY <1>3, <1>7, <3>1, <4>1
      <3>2. CASE i # n
        <4>1. i + 1 \in 1 .. n /\ n \in 1 .. n /\ n # 0
          BY <3>2
        <4>2. s[i] # pHead /\ s[i] # c /\ s[i] \in Cells
          BY <1>2, <1>6, <1>8, <3>2, <4>1
        <4>3. prev'[s[i]] = s[i + 1]
          BY <1>3, <1>6, <3>2, <4>2
        <4> QED
          BY <1>7, <4>1, <4>3
      <3> QED
        BY <3>1, <3>2
    <2> QED
      BY <1>7, <1>9, <2>1, <2>2, <2>3 DEF Follows
  <1>13. \A i \in 1 .. n + 1 : next'[t[i]] = IF i = 1 THEN Null ELSE t[i - 1]
    <2>1. ASSUME NEW i \in 1 .. n PROVE next'[t[i]] = IF i = 1 THEN Null ELSE t[i - 1]
      <3>1. next'[s[i]] = next[s[i]] /\ t[i] = s[i]
        BY <1>2, <1>3, <1>7, <1>8 DEF ListInv
      <3>2. i # 1 => i - 1 \in 1 .. n
        OBVIOUS
      <3> QED
        BY <1>6, <1>7, <3>1, <3>2
    <2>2. next'[t[n + 1]] = IF n + 1 = 1 THEN Null ELSE t[n]
      <3>1. next'[c] = pHead
        BY <1>3, <1>4 DEF ListInv
      <3>2. n # 0 => n \in 1 .. n
        OBVIOUS
      <3> QED
        BY <1>6, <1>7, <3>1, <3>2
    <2>3. n + 1 - 1 = n
      OBVIOUS
    <2> QED
      BY <1>9, <2>1, <2>2, <2>3
  <1>14. Links(t, prev', pTail', next', pHead')
    BY <1>3, <1>7, <1>10, <1>12, <1>13 DEF Links
  <1>15. CellsOf(t) = CellsOf(s) \cup {c}
    BY <1>2, <1>7, <1>9 DEF CellsOf
  <1>16. Holds(t, dataPtr')
    <2>1. /\ dataPtr \in [Cells -> Data \cup {Null}]
          /\ \A k \in Cells : dataPtr[k] # Null <=> k \in CellsOf(s)
          /\ \A k, l \in CellsOf(s) : dataPtr[k] = dataPtr[l] => k = l
          /\ CellsOf(s) \subseteq Cells
      BY <1>1, <1>2 DEF Holds, CellsOf
    <2>2. /\ dataPtr' \in [Cells -> Data \cup {Null}]
          /\ dataPtr'[c] = d /\ \A k \in Cells : k # c => dataPtr'[k] = dataPtr[k]
      BY <1>3, <1>4, <1>5, <2>1
    <2>3. \A k \in Cells : dataPtr'[k] # Null <=> k \in CellsOf(t)
      BY <1>4, <1>5, <1>15, <2>1, <2>2
    <2>4. \A k, l \in CellsOf(t) : dataPtr'[k] = dataPtr'[l] => k = l
      BY <1>4, <1>5, <1>15, <2>1, <2>2
    <2> QED
      BY <2>2, <2>3, <2>4 DEF Holds
  <1>17. Queued = DataOf(s, dataPtr) /\ Queued' = DataOf(t, dataPtr')
    <2>1. Queued = DataOf(s, dataPtr)
      BY <1>1, QueuedIs DEF Queued, FromTail
    <2>2. Queued' = DataOf(t, dataPtr')
      BY <1>14, QueuedIs DEF Queued, FromTail
    <2> QED
      BY <2>1, <2>2
  <1>18. DataOf(t, dataPtr') = Append(DataOf(s, dataPtr), d)
    <2> DEFINE p == DataOf(s, dataPtr)
               q == DataOf(t, dataPtr')
    <2>1. p \in Seq(Data) /\ Len(p) = n /\ \A i \in 1 .. n : p[i] = dataPtr[s[i]]
      BY <1>1, <1>2, DataOfType
    <2>2. q \in Seq(Data) /\ Len(q) = n + 1 /\ \A i \in 1 .. n + 1 : q[i] = dataPtr'[t[i]]
      BY <1>7, <1>16, DataOfType
    <2> HIDE DEF p, q
    <2>3. /\ Append(p, d) \in Seq(Data) /\ Len(Append(p, d)) = n + 1
          /\ Append(p, d)[n + 1] = d /\ \A i \in 1 .. n : Append(p, d)[i] = p[i]
      BY <1>5, <2>1
    <2>4. \A i \in 1 .. n : dataPtr'[t[i]] = dataPtr[s[i]]
      BY <1>1, <1>2, <1>3, <1>7, <1>8 DEF Holds
    <2>5. dataPtr'[t[n + 1]] = d
      BY <1>1, <1>3, <1>4, <1>7 DEF Holds
    <2>6. \A i \in 1 .. n + 1 : q[i] = Append(p, d)[i]
      BY <1>9, <2>1, <2>2, <2>3, <2>4, <2>5
    <2>7. q = Append(p, d)
      BY <2>2, <2>3, <2>6, SameQueue
    <2> QED
      BY <2>7 DEF p, q
  <1>19. ListInv'
    BY <1>11, <1>14, <1>16 DEF ListInv
  <1>20. Queue!Put(d)
    <2>1. Queued' = Append(Queued, d)
      BY <1>17, <1>18
    <2>2. UNCHANGED <<dataOut, deallocated>>
      BY <1>3
    <2> QED
      BY <2>1, <2>2 DEF Queue!Put
  <1> QED
    BY <1>19, <1>20

\* The oldest cell leaves at the tail, with the oldest datum.
LEMMA RemoveStep ==
  ASSUME ListInv, linked_list_remove
  PROVE  ListInv' /\ Queue!Take
  <1>1. PICK s : Links(s, prev, pTail, next, pHead) /\ Holds(s, dataPtr)
    BY DEF ListInv
  <1>2. PICK n \in Nat : n = Len(s) /\ DOMAIN s = 1 .. n /\ (s = <<>> <=> n = 0)
                         /\ s \in Seq(Cells) /\ \A i \in 1 .. n : s[i] \in Cells
    BY <1>1 DEF Links
  <1>3. /\ pTail # Null
        /\ pTail' = prev[pTail]
        /\ IF prev[pTail] # Null THEN next' = [next EXCEPT ![prev[pTail]] = Null] /\ UNCHANGED pHead
           ELSE pHead' = Null /\ UNCHANGED next
        /\ dataOut' = dataPtr[pTail]
        /\ dataPtr' = [dataPtr EXCEPT ![pTail] = Null]
        /\ UNCHANGED <<prev, deallocated>>
    BY DEF linked_list_remove
  <1>4. /\ pHead = IF n = 0 THEN Null ELSE s[n]
        /\ pTail = IF n = 0 THEN Null ELSE s[1]
        /\ \A i \in 1 .. n : prev[s[i]] = IF i = n THEN Null ELSE s[i + 1]
        /\ \A i \in 1 .. n : next[s[i]] = IF i = 1 THEN Null ELSE s[i - 1]
        /\ \A i, j \in 1 .. n : s[i] = s[j] => i = j
    <2>1. Links(s, prev, pTail, next, pHead)
      BY <1>1
    <2>2. n = Len(s) /\ DOMAIN s = 1 .. n /\ (s = <<>> <=> n = 0)
      BY <1>2
    <2>3. LinkedAt(s, n, prev, pTail, next, pHead)
      BY <2>1, <2>2, LinksAt
    <2> QED
      BY <2>3 DEF LinkedAt
  <1>5. n > 0 /\ 1 \in 1 .. n /\ pTail = s[1]
    BY <1>3, <1>4
  <1> DEFINE t == Tail(s)
             m == n - 1
  <1>6. /\ t \in Seq(Cells) /\ Len(t) = m /\ DOMAIN t = 1 .. m /\ (t = <<>> <=> m = 0)
        /\ \A i \in 1 .. m : t[i] = s[i + 1]
    <2>1. s \in Seq(Cells) /\ Len(s) = n /\ s # <<>> /\ m \in Nat
      BY <1>2, <1>5
    <2>2. t \in Seq(Cells) /\ Len(t) = m /\ DOMAIN t = 1 .. m
      BY <2>1
    <2>3. \A i \in 1 .. m : t[i] = s[i + 1]
      BY <2>1
    <2> HIDE DEF t
    <2>4. t = <<>> <=> m = 0
      BY <2>1, <2>2
    <2> QED
      BY <2>2, <2>3, <2>4
  <1>7. /\ m \in Nat /\ n = m + 1 /\ \A i \in 1 .. m : i + 1 \in 1 .. n /\ i + 1 # 1
        /\ \A i \in 1 .. n : i = 1 \/ i - 1 \in 1 .. m
    BY <1>5
  <1> HIDE DEF t, m
  <1>8. Once(t)
    <2> SUFFICES ASSUME NEW i \in 1 .. m, NEW j \in 1 .. m, t[i] = t[j] PROVE i = j
      BY <1>6 DEF Once
    <2>1. i + 1 \in 1 .. n /\ j + 1 \in 1 .. n /\ s[i + 1] = s[j + 1]
      BY <1>6, <1>7
    <2>2. i + 1 = j + 1
      BY <1>4, <2>1
    <2> QED
      BY <2>2
  <1>9. \A k \in Cells : k # Null
    BY ListAssumption
  <1>10. prev[s[1]] = IF m = 0 THEN Null ELSE s[2]
    BY <1>4, <1>5, <1>7
  <1>11. Follows(t, prev', pTail')
    <2>1. pTail' = IF m = 0 THEN Null ELSE t[1]
      BY <1>3, <1>5, <1>6, <1>7, <1>10
    <2>2. ASSUME NEW i \in 1 .. m PROVE prev'[t[i]] = IF i = m THEN Null ELSE t[i + 1]
      <3>1. prev'[t[i]] = IF i + 1 = n THEN Null ELSE s[i + 1 + 1]
        BY <1>3, <1>4, <1>6, <1>7
      <3>2. i # m => i + 1 \in 1 .. m
        BY <1>7
      <3>3. i + 1 = n <=> i = m
        BY <1>7
      <3> QED
        BY <1>6, <3>1, <3>2, <3>3
    <2> QED
      BY <1>6, <2>1, <2>2 DEF Follows
  <1>12. /\ pHead' = IF m = 0 THEN Null ELSE t[m]
         /\ next' = IF m = 0 THEN next ELSE [next EXCEPT ![s[2]] = Null]
    <2>1. CASE m = 0
      BY <1>3, <1>5, <1>10, <2>1
    <2>2. CASE m # 0
      <3>1. 2 \in 1 .. n /\ m \in 1 .. m
        BY <1>7, <2>2
      <3>2. s[2] # Null /\ t[m] = s[n]
        BY <1>2, <1>6, <1>7, <1>9, <3>1
      <3> QED
        BY <1>3, <1>4, <1>5, <1>10, <2>2, <3>2
    <2> QED
      BY <2>1, <2>2
  <1>13. \A i \in 1 .. m : next'[t[i]] = IF i = 1 THEN Null ELSE t[i - 1]
    <2> SUFFICES ASSUME NEW i \in 1 .. m PROVE next'[t[i]] = IF i = 1 THEN Null ELSE t[i - 1]
      OBVIOUS
    <2>1. t[i] = s[i + 1] /\ s[i + 1] \in Cells /\ m # 0
      BY <1>2, <1>6, <1>7
    <2>2. next' = [next EXCEPT ![s[2]] = Null] /\ next \in [Cells -> Cells \cup {Null}]
      BY <1>12, <2>1 DEF ListInv
    <2>3. CASE i = 1
      BY <2>1, <2>2, <2>3
    <2>4. CASE i # 1
      <3>1. i + 1 \in 1 .. n /\ 2 \in 1 .. n /\ i + 1 # 2 /\ i - 1 \in 1 .. m /\ i + 1 - 1 = i
        BY <1>7, <2>4
      <3>2. s[i + 1] # s[2]
        BY <1>4, <3>1
      <3>3. next[s[i + 1]] = s[i]
        BY <1>4, <2>4, <3>1
      <3>4. t[i - 1] = s[i]
        BY <1>6, <3>1
      <3> QED
        BY <2>1, <2>2, <2>4, <3>2, <3>3, <3>4
    <2> QED
      BY <2>3, <2>4
  <1>14. Links(t, prev', pTail', next', pHead')
    BY <1>6, <1>8, <1>11, <1>12, <1>13 DEF Links
  <1>15. CellsOf(t) = CellsOf(s) \ {s[1]}
    <2>1. ASSUME NEW k \in CellsOf(t) PROVE k \in CellsOf(s) \ {s[1]}
      <3>1. PICK i \in 1 .. m : k = t[i]
        BY <1>6 DEF CellsOf
      <3>2. k = s[i + 1] /\ i + 1 \in 1 .. n /\ i + 1 # 1
        BY <1>6, <1>7, <3>1
      <3>3. k # s[1]
        BY <1>4, <1>5, <3>2
      <3> QED
        BY <1>2, <3>2, <3>3 DEF CellsOf
    <2>2. ASSUME NEW k \in CellsOf(s), k # s[1] PROVE k \in CellsOf(t)
      <3>1. PICK i \in 1 .. n : k = s[i]
        BY <1>2 DEF CellsOf
      <3>2. i - 1 \in 1 .. m /\ i - 1 + 1 = i
        BY <1>7, <2>2, <3>1
      <3>3. t[i - 1] = k
        BY <1>6, <3>1, <3>2
      <3> QED
        BY <1>6, <3>2, <3>3 DEF CellsOf
    <2> QED
      BY <2>1, <2>2
  <1>16. /\ dataPtr \in [Cells -> Data \cup {Null}]
         /\ \A k \in Cells : dataPtr[k] # Null <=> k \in CellsOf(s)
         /\ \A k, l \in CellsOf(s) : dataPtr[k] = dataPtr[l] => k = l
         /\ CellsOf(s) \subseteq Cells /\ s[1] \in Cells
    BY <1>1, <1>2, <1>5 DEF Holds, CellsOf
  <1>17. /\ dataPtr' \in [Cells -> Data \cup {Null}]
         /\ dataPtr'[s[1]] = Null /\ \A k \in Cells : k # s[1] => dataPtr'[k] = dataPtr[k]
    BY <1>3, <1>5, <1>16
  <1>18. Holds(t, dataPtr')
    <2>1. \A k \in Cells : dataPtr'[k] # Null <=> k \in CellsOf(t)
      BY <1>15, <1>16, <1>17
    <2>2. \A k, l \in CellsOf(t) : dataPtr'[k] = dataPtr'[l] => k = l
      BY <1>15, <1>16, <1>17
    <2> QED
      BY <1>17, <2>1, <2>2 DEF Holds
  <1>19. next' \in [Cells -> Cells \cup {Null}] /\ prev' \in [Cells -> Cells \cup {Null}]
    BY <1>3, <1>12 DEF ListInv
  <1>20. ListInv'
    BY <1>14, <1>18, <1>19 DEF ListInv
  <1>21. Queued = DataOf(s, dataPtr) /\ Queued' = DataOf(t, dataPtr')
    <2>1. Queued = DataOf(s, dataPtr)
      BY <1>1, QueuedIs DEF Queued, FromTail
    <2>2. Queued' = DataOf(t, dataPtr')
      BY <1>14, QueuedIs DEF Queued, FromTail
    <2> QED
      BY <2>1, <2>2
  <1>22. Queue!Take
    <2> DEFINE p == DataOf(s, dataPtr)
               q == DataOf(t, dataPtr')
    <2>1. p \in Seq(Data) /\ Len(p) = n /\ \A i \in 1 .. n : p[i] = dataPtr[s[i]]
      BY <1>1, <1>2, DataOfType
    <2>2. q \in Seq(Data) /\ Len(q) = m /\ \A i \in 1 .. m : q[i] = dataPtr'[t[i]]
      BY <1>6, <1>18, DataOfType
    <2> HIDE DEF p, q
    <2>3. p # <<>> /\ Head(p) = dataPtr[s[1]]
      BY <1>5, <2>1
    <2>4. Tail(p) \in Seq(Data) /\ Len(Tail(p)) = m /\ \A i \in 1 .. m : Tail(p)[i] = p[i + 1]
      BY <1>7, <2>1, <2>3
    <2>5. ASSUME NEW i \in 1 .. m PROVE t[i] \in Cells /\ t[i] # s[1]
      <3>1. t[i] \in CellsOf(t)
        BY <1>6 DEF CellsOf
      <3> QED
        BY <1>15, <1>16, <3>1
    <2>6. \A i \in 1 .. m : q[i] = Tail(p)[i]
      BY <1>6, <1>7, <1>17, <2>1, <2>2, <2>4, <2>5
    <2>7. q = Tail(p)
      BY <2>2, <2>4, <2>6, SameQueue
    <2> QED
      BY <1>3, <1>5, <1>21, <2>3, <2>7 DEF p, q, Queue!Take
  <1> QED
    BY <1>20, <1>22

\* The walk from the head meets all the cells.
LEMMA MetIs ==
  ASSUME NEW s, Links(s, prev, pTail, next, pHead)
  PROVE  {FromHead[i] : i \in DOMAIN FromHead} = CellsOf(s)
  <1>1. FromHead = Rev(s)
    BY HeadFollows DEF FromHead
  <1>2. PICK n \in Nat : n = Len(s) /\ DOMAIN s = 1 .. n
    BY DEF Links
  <1>3. DOMAIN Rev(s) = 1 .. n /\ \A i \in 1 .. n : Rev(s)[i] = s[n + 1 - i]
    BY <1>2 DEF Rev
  <1>4. \A i \in 1 .. n : n + 1 - i \in 1 .. n /\ n + 1 - (n + 1 - i) = i
    OBVIOUS
  <1>5. ASSUME NEW k \in CellsOf(s) PROVE \E i \in 1 .. n : Rev(s)[i] = k
    <2>1. PICK j \in 1 .. n : k = s[j]
      BY <1>2 DEF CellsOf
    <2> DEFINE i == n + 1 - j
    <2>2. i \in 1 .. n /\ n + 1 - i = j
      BY <1>4
    <2> HIDE DEF i
    <2>3. Rev(s)[i] = k
      BY <1>3, <2>1, <2>2
    <2> QED
      BY <2>2, <2>3
  <1>6. ASSUME NEW i \in 1 .. n PROVE Rev(s)[i] \in CellsOf(s)
    BY <1>2, <1>3, <1>4 DEF CellsOf
  <1> QED
    BY <1>1, <1>3, <1>5, <1>6

\* A flush leaves no cell and frees every datum of the queue.
LEMMA FlushStep ==
  ASSUME ListInv, linked_list_flush
  PROVE  ListInv' /\ Queue!Flush
  <1>1. PICK s : Links(s, prev, pTail, next, pHead) /\ Holds(s, dataPtr)
    BY DEF ListInv
  <1>2. s \in Seq(Cells)
    BY <1>1 DEF Links
  <1>3. /\ deallocated' = deallocated \cup {dataPtr[c] : c \in CellsOf(s)}
        /\ dataPtr' = [c \in Cells |-> IF c \in CellsOf(s) THEN Null ELSE dataPtr[c]]
        /\ pHead' = Null /\ pTail' = Null
        /\ UNCHANGED <<next, prev, dataOut>>
    BY <1>1, MetIs DEF linked_list_flush
  <1> DEFINE e == <<>>
  <1>4. e \in Seq(Cells) /\ DOMAIN e = {} /\ e = <<>> /\ Len(e) = 0
    OBVIOUS
  <1> HIDE DEF e
  <1>5. Links(e, prev', pTail', next', pHead')
    BY <1>3, <1>4 DEF Links, Once, Follows
  <1>6. \A c \in Cells : dataPtr'[c] = Null
    BY <1>1, <1>3 DEF Holds
  <1>7. dataPtr' \in [Cells -> Data \cup {Null}]
    BY <1>3, <1>6
  <1>8. Holds(e, dataPtr')
    BY <1>4, <1>6, <1>7 DEF Holds, CellsOf
  <1>9. ListInv'
    BY <1>3, <1>5, <1>8 DEF ListInv
  <1>10. Queued = DataOf(s, dataPtr)
    BY <1>1, QueuedIs DEF Queued, FromTail
  <1>11. Queued' = <<>>
    <2> DEFINE q == DataOf(e, dataPtr')
    <2>1. Queued' = q
      BY <1>5, QueuedIs DEF Queued, FromTail
    <2>2. q \in Seq(Data) /\ Len(q) = Len(e)
      BY <1>4, <1>8, DataOfType
    <2> HIDE DEF q
    <2>3. q = <<>>
      BY <1>4, <2>2
    <2> QED
      BY <2>1, <2>3
  <1>12. Queue!Range(Queued) = {dataPtr[c] : c \in CellsOf(s)}
    BY <1>10 DEF Queue!Range, DataOf, CellsOf
  <1> QED
    BY <1>3, <1>9, <1>11, <1>12 DEF Queue!Flush

\* t is the sequence s without its k-th element.
Drops(t, s, k) ==
  /\ Len(t) = Len(s) - 1
  /\ \A i \in 1 .. Len(s) - 1 : t[i] = IF i < k THEN s[i] ELSE s[i + 1]
LEMMA RemoveAtIs ==
  ASSUME NEW S, NEW s \in Seq(S), NEW k \in 1 .. Len(s)
  PROVE  Queue!RemoveAt(s, k) \in Seq(S) /\ Drops(Queue!RemoveAt(s, k), s, k)
  <1>1. PICK n \in Nat : n = Len(s) /\ k \in 1 .. n
    OBVIOUS
  <1> DEFINE a == SubSeq(s, 1, k - 1)
             b == SubSeq(s, k + 1, n)
  <1>2. a \in Seq(S) /\ Len(a) = k - 1 /\ \A i \in 1 .. k - 1 : a[i] = s[i]
    BY <1>1
  <1>3. b \in Seq(S) /\ Len(b) = n - k /\ \A i \in 1 .. n - k : b[i] = s[k + i]
    BY <1>1
  <1>4. Queue!RemoveAt(s, k) = a \o b
    BY <1>1 DEF Queue!RemoveAt
  <1> HIDE DEF a, b
  <1>5. a \o b \in Seq(S) /\ Len(a \o b) = n - 1
    BY <1>1, <1>2, <1>3
  <1>6. ASSUME NEW i \in 1 .. n - 1 PROVE (a \o b)[i] = IF i < k THEN s[i] ELSE s[i + 1]
    <2>1. CASE i < k
      <3>1. i \in 1 .. k - 1
        BY <1>1, <2>1
      <3>2. (a \o b)[i] = a[i]
        BY <1>1, <1>2, <1>3, <3>1
      <3> QED
        BY <1>2, <2>1, <3>1, <3>2
    <2>2. CASE ~(i < k)
      <3>1. i - (k - 1) \in 1 .. n - k /\ k + (i - (k - 1)) = i + 1
        BY <1>1, <2>2
      <3>2. (a \o b)[i] = b[i - (k - 1)]
        BY <1>1, <1>2, <1>3, <2>2, <3>1
      <3> QED
        BY <1>3, <2>2, <3>1, <3>2
    <2> QED
      BY <2>1, <2>2
  <1> QED
    BY <1>1, <1>4, <1>5, <1>6 DEF Drops

\* Unlinking the k-th cell leaves the others linked in order.
LEMMA UnlinkLinks ==
  ASSUME next \in [Cells -> Cells \cup {Null}], prev \in [Cells -> Cells \cup {Null}],
         NEW s, Links(s, prev, pTail, next, pHead), NEW k \in 1 .. Len(s), Unlink(s[k])
  PROVE  \E t : Links(t, prev', pTail', next', pHead') /\ Drops(t, s, k)
  <1>1. PICK n \in Nat : n = Len(s) /\ DOMAIN s = 1 .. n /\ (s = <<>> <=> n = 0)
                         /\ s \in Seq(Cells) /\ \A i \in 1 .. n : s[i] \in Cells
    BY DEF Links
  <1>2. k \in 1 .. n /\ n # 0
    BY <1>1
  <1>3. LinkedAt(s, n, prev, pTail, next, pHead)
    BY <1>1, LinksAt
  <1>4. /\ pHead = s[n] /\ pTail = s[1]
        /\ \A i \in 1 .. n : prev[s[i]] = IF i = n THEN Null ELSE s[i + 1]
        /\ \A i \in 1 .. n : next[s[i]] = IF i = 1 THEN Null ELSE s[i - 1]
        /\ \A i, j \in 1 .. n : s[i] = s[j] => i = j
    BY <1>2, <1>3 DEF LinkedAt
  <1>5. PICK m \in Nat : m = n - 1
    BY <1>2
  <1> DEFINE t == Queue!RemoveAt(s, k)
             c == s[k]
  <1>a. t \in Seq(Cells) /\ Drops(t, s, k)
    BY <1>1, RemoveAtIs
  <1> HIDE DEF t
  <1>6. t \in Seq(Cells) /\ Len(t) = m /\ \A i \in 1 .. m : t[i] = IF i < k THEN s[i] ELSE s[i + 1]
    BY <1>1, <1>5, <1>a DEF Drops
  <1>7. DOMAIN t = 1 .. m /\ (t = <<>> <=> m = 0)
    BY <1>6
  <1>8. \A i \in Cells : i # Null
    BY ListAssumption
  <1>9. c \in Cells /\ prev[c] = (IF k = n THEN Null ELSE s[k + 1])
                    /\ next[c] = (IF k = 1 THEN Null ELSE s[k - 1])
    BY <1>1, <1>2, <1>4
  <1>10. /\ pHead' = IF prev[c] = Null THEN next[c] ELSE pHead
         /\ next' = [e \in Cells |-> IF e = c THEN Null
                                     ELSE IF e = prev[c] THEN next[c] ELSE next[e]]
         /\ pTail' = IF next[c] = Null THEN prev[c] ELSE pTail
         /\ prev' = [e \in Cells |-> IF e = c THEN Null
                                     ELSE IF e = next[c] THEN prev[c] ELSE prev[e]]
    BY DEF Unlink
  <1>11. k # n => k + 1 \in 1 .. n /\ s[k + 1] \in Cells
    <2>1. k # n => k + 1 \in 1 .. n
      BY <1>2
    <2> QED
      BY <1>1, <2>1
  <1>12. k # 1 => k - 1 \in 1 .. n /\ s[k - 1] \in Cells
    <2>1. k # 1 => k - 1 \in 1 .. n
      BY <1>2
    <2> QED
      BY <1>1, <2>1
  <1>13. prev[c] = Null <=> k = n
    BY <1>8, <1>9, <1>11
  <1>14. next[c] = Null <=> k = 1
    BY <1>8, <1>9, <1>12
  <1>15. ASSUME NEW i \in 1 .. n, i # k
         PROVE  /\ s[i] \in Cells
                /\ prev'[s[i]] = IF i = k - 1 THEN prev[c] ELSE prev[s[i]]
                /\ next'[s[i]] = IF i = k + 1 THEN next[c] ELSE next[s[i]]
    <2>1. s[i] \in Cells /\ s[i] # c
      BY <1>1, <1>2, <1>4, <1>15
    <2>2. s[i] = next[c] <=> i = k - 1
      <3>1. i = k - 1 => k # 1
        OBVIOUS
      <3>2. k # 1 /\ s[i] = s[k - 1] => i = k - 1
        BY <1>4, <1>12
      <3> QED
        BY <1>8, <1>9, <2>1, <3>1, <3>2
    <2>3. s[i] = prev[c] <=> i = k + 1
      <3>1. i = k + 1 => k # n
        BY <1>2
      <3>2. k # n /\ s[i] = s[k + 1] => i = k + 1
        BY <1>4, <1>11
      <3> QED
        BY <1>8, <1>9, <2>1, <3>1, <3>2
    <2>4. prev'[s[i]] = IF s[i] = next[c] THEN prev[c] ELSE prev[s[i]]
      BY <1>10, <2>1
    <2>5. next'[s[i]] = IF s[i] = prev[c] THEN next[c] ELSE next[s[i]]
      BY <1>10, <2>1
    <2> QED
      BY <2>1, <2>2, <2>3, <2>4, <2>5
  <1> HIDE DEF c
  <1>16. \A i \in 1 .. m : /\ i < k => t[i] = s[i] /\ i \in 1 .. n /\ i # k
                           /\ ~(i < k) => t[i] = s[i + 1] /\ i + 1 \in 1 .. n /\ i + 1 # k
    BY <1>2, <1>5, <1>6
  <1>17. Once(t)
    <2> SUFFICES ASSUME NEW i \in 1 .. m, NEW j \in 1 .. m, t[i] = t[j] PROVE i = j
      BY <1>7 DEF Once
    <2>1. CASE i < k /\ j < k
      BY <1>4, <1>16, <2>1
    <2>2. CASE i < k /\ ~(j < k)
      <3>1. i = j + 1
        BY <1>4, <1>16, <2>2
      <3> QED
        BY <1>2, <2>2, <3>1
    <2>3. CASE ~(i < k) /\ j < k
      <3>1. i + 1 = j
        BY <1>4, <1>16, <2>3
      <3> QED
        BY <1>2, <2>3, <3>1
    <2>4. CASE ~(i < k) /\ ~(j < k)
      <3>1. i + 1 = j + 1
        BY <1>4, <1>16, <2>4
      <3> QED
        BY <3>1
    <2> QED
      BY <2>1, <2>2, <2>3, <2>4
  <1>18. Follows(t, prev', pTail')
    <2>1. pTail' = IF m = 0 THEN Null ELSE t[1]
      <3>1. CASE k = 1
        <4>1. pTail' = IF n = 1 THEN Null ELSE s[2]
          BY <1>9, <1>10, <1>14, <3>1
        <4>2. m # 0 => 1 \in 1 .. m /\ ~(1 < k)
          BY <3>1
        <4>3. m # 0 => t[1] = s[2]
          BY <1>16, <4>2
        <4> QED
          BY <1>5, <4>1, <4>3
      <3>2. CASE k # 1
        <4>1. m # 0 /\ 1 \in 1 .. m /\ 1 < k
          BY <1>2, <1>5, <3>2
        <4>2. t[1] = s[1]
          BY <1>16, <4>1
        <4> QED
          BY <1>4, <1>10, <1>14, <3>2, <4>1, <4>2
      <3> QED
        BY <3>1, <3>2
    <2>2. ASSUME NEW i \in 1 .. m PROVE prev'[t[i]] = IF i = m THEN Null ELSE t[i + 1]
      <3>1. CASE i < k - 1
        <4>1. i < k /\ i # k - 1 /\ i # n /\ i # m /\ i + 1 \in 1 .. m /\ i + 1 < k
          BY <1>2, <1>5, <3>1
        <4>2. t[i] = s[i] /\ i \in 1 .. n /\ i # k /\ t[i + 1] = s[i + 1]
          BY <1>16, <4>1
        <4>3. prev'[s[i]] = s[i + 1]
          BY <1>4, <1>15, <4>1, <4>2
        <4> QED
          BY <4>1, <4>2, <4>3
      <3>2. CASE i = k - 1
        <4>1. i < k /\ (k = n <=> i = m) /\ (i # m => i + 1 \in 1 .. m) /\ i + 1 = k
          BY <1>2, <1>5, <3>2
        <4>2. t[i] = s[i] /\ i \in 1 .. n /\ i # k
          BY <1>16, <4>1
        <4>3. prev'[s[i]] = prev[c]
          BY <1>15, <3>2, <4>2
        <4>4. i # m => t[i + 1] = s[k + 1]
          <5>1. ~(i + 1 < k)
            BY <4>1
          <5> QED
            BY <1>16, <4>1, <5>1
        <4> QED
          BY <1>9, <4>1, <4>2, <4>3, <4>4
      <3>3. CASE i > k - 1
        <4>1. /\ ~(i < k) /\ (i + 1 = n <=> i = m) /\ (i # m => i + 1 \in 1 .. m)
              /\ ~(i + 1 < k) /\ i + 1 # k - 1
          BY <1>2, <1>5, <3>3
        <4>2. t[i] = s[i + 1] /\ i + 1 \in 1 .. n /\ i + 1 # k
          BY <1>16, <4>1
        <4>3. prev'[s[i + 1]] = prev[s[i + 1]]
          BY <1>15, <4>1, <4>2
        <4>4. prev[s[i + 1]] = IF i + 1 = n THEN Null ELSE s[i + 1 + 1]
          BY <1>4, <4>2
        <4>5. i # m => t[i + 1] = s[i + 1 + 1]
          BY <1>16, <4>1
        <4> QED
          BY <4>1, <4>2, <4>3, <4>4, <4>5
      <3> QED
        BY <3>1, <3>2, <3>3, <1>2
    <2> QED
      BY <1>6, <1>7, <2>1, <2>2 DEF Follows
  <1>19. pHead' = IF m = 0 THEN Null ELSE t[m]
    <2>1. CASE k = n
      <3>1. pHead' = IF n = 1 THEN Null ELSE s[n - 1]
        BY <1>9, <1>10, <1>13, <2>1
      <3>2. m # 0 => m \in 1 .. m /\ m < k
        BY <1>5, <2>1
      <3>3. m # 0 => t[m] = s[m]
        BY <1>16, <3>2
      <3> QED
        BY <1>5, <3>1, <3>3
    <2>2. CASE k # n
      <3>1. m # 0 /\ m \in 1 .. m /\ ~(m < k) /\ m + 1 = n
        BY <1>2, <1>5, <2>2
      <3>2. t[m] = s[n]
        BY <1>16, <3>1
      <3> QED
        BY <1>4, <1>10, <1>13, <2>2, <3>1, <3>2
    <2> QED
      BY <2>1, <2>2
  <1>20. ASSUME NEW i \in 1 .. m PROVE next'[t[i]] = IF i = 1 THEN Null ELSE t[i - 1]
    <2>1. CASE i < k
      <3>1. i # k + 1 /\ (i # 1 => i - 1 \in 1 .. m /\ i - 1 < k)
        BY <1>2, <2>1
      <3>2. t[i] = s[i] /\ i \in 1 .. n /\ i # k
        BY <1>16, <2>1
      <3>3. next'[s[i]] = next[s[i]]
        BY <1>15, <3>1, <3>2
      <3>4. next[s[i]] = IF i = 1 THEN Null ELSE s[i - 1]
        BY <1>4, <3>2
      <3>5. i # 1 => t[i - 1] = s[i - 1]
        BY <1>16, <3>1
      <3> QED
        BY <3>2, <3>3, <3>4, <3>5
    <2>2. CASE i = k
      <3>1. ~(i < k) /\ i + 1 = k + 1 /\ (i # 1 => i - 1 \in 1 .. m /\ i - 1 < k)
        BY <1>2, <2>2
      <3>2. t[i] = s[k + 1] /\ k + 1 \in 1 .. n /\ k + 1 # k
        BY <1>16, <2>2, <3>1
      <3>3. next'[s[k + 1]] = next[c]
        BY <1>15, <3>2
      <3>4. i # 1 => t[i - 1] = s[k - 1]
        BY <1>16, <2>2, <3>1
      <3> QED
        BY <1>9, <2>2, <3>2, <3>3, <3>4
    <2>3. CASE i > k
      <3>1. /\ ~(i < k) /\ i + 1 # k + 1 /\ i + 1 # 1 /\ i + 1 - 1 = i
            /\ i # 1 /\ i - 1 \in 1 .. m /\ ~(i - 1 < k) /\ i - 1 + 1 = i
        BY <1>2, <2>3
      <3>2. t[i] = s[i + 1] /\ i + 1 \in 1 .. n /\ i + 1 # k
        BY <1>16, <3>1
      <3>3. next'[s[i + 1]] = next[s[i + 1]]
        BY <1>15, <3>1, <3>2
      <3>4. next[s[i + 1]] = s[i]
        BY <1>4, <3>1, <3>2
      <3>5. t[i - 1] = s[i]
        BY <1>16, <3>1
      <3> QED
        BY <3>1, <3>2, <3>3, <3>4, <3>5
    <2> QED
      BY <1>2, <2>1, <2>2, <2>3
  <1>21. Links(t, prev', pTail', next', pHead')
    BY <1>6, <1>7, <1>17, <1>18, <1>19, <1>20 DEF Links
  <1> QED
    BY <1>a, <1>21

\* The data of the list without its k-th.
Freed(left, data, c) == left = [data EXCEPT ![c] = Null]
LEMMA HoldsWithout ==
  ASSUME NEW s \in Seq(Cells), Once(s), NEW k \in 1 .. Len(s), NEW t \in Seq(Cells),
         Drops(t, s, k),
         NEW data, Holds(s, data), NEW left, Freed(left, data, s[k])
  PROVE  Holds(t, left) /\ DataOf(t, left) = Queue!RemoveAt(DataOf(s, data), k)
  <1>1. PICK n \in Nat : n = Len(s) /\ DOMAIN s = 1 .. n /\ \A i \in 1 .. n : s[i] \in Cells
    OBVIOUS
  <1>2. k \in 1 .. n /\ \A i, j \in 1 .. n : s[i] = s[j] => i = j
    BY <1>1 DEF Once
  <1>3. PICK m \in Nat : m = n - 1
    BY <1>2
  <1>4. /\ Len(t) = m /\ DOMAIN t = 1 .. m
        /\ \A i \in 1 .. m : t[i] = IF i < k THEN s[i] ELSE s[i + 1]
    BY <1>1, <1>3 DEF Drops
  <1>5. \A i \in 1 .. m : /\ i < k => t[i] = s[i] /\ i \in 1 .. n /\ i # k
                          /\ ~(i < k) => t[i] = s[i + 1] /\ i + 1 \in 1 .. n /\ i + 1 # k
    BY <1>2, <1>3, <1>4
  <1>6. CellsOf(t) = CellsOf(s) \ {s[k]}
    <2>1. ASSUME NEW e \in CellsOf(t) PROVE e \in CellsOf(s) \ {s[k]}
      <3>1. PICK i \in 1 .. m : e = t[i]
        BY <1>4 DEF CellsOf
      <3>2. PICK j \in 1 .. n : e = s[j] /\ j # k
        BY <1>5, <3>1
      <3> QED
        BY <1>1, <1>2, <3>2 DEF CellsOf
    <2>2. ASSUME NEW e \in CellsOf(s), e # s[k] PROVE e \in CellsOf(t)
      <3>1. PICK j \in 1 .. n : e = s[j] /\ j # k
        BY <1>1, <2>2 DEF CellsOf
      <3>2. CASE j < k
        <4>1. j \in 1 .. m /\ t[j] = e
          BY <1>2, <1>3, <1>4, <3>1, <3>2
        <4> QED
          BY <1>4, <4>1 DEF CellsOf
      <3>3. CASE j > k
        <4>1. j - 1 \in 1 .. m /\ ~(j - 1 < k) /\ j - 1 + 1 = j
          BY <1>2, <1>3, <3>3
        <4>2. t[j - 1] = e
          BY <1>4, <3>1, <4>1
        <4> QED
          BY <1>4, <4>1, <4>2 DEF CellsOf
      <3> QED
        BY <1>2, <3>1, <3>2, <3>3
    <2> QED
      BY <2>1, <2>2
  <1>7. /\ data \in [Cells -> Data \cup {Null}]
        /\ \A e \in Cells : data[e] # Null <=> e \in CellsOf(s)
        /\ \A e, l \in CellsOf(s) : data[e] = data[l] => e = l
        /\ CellsOf(s) \subseteq Cells /\ s[k] \in Cells
    BY <1>1, <1>2 DEF Holds, CellsOf
  <1>8. /\ left \in [Cells -> Data \cup {Null}]
        /\ left[s[k]] = Null /\ \A e \in Cells : e # s[k] => left[e] = data[e]
    BY <1>7 DEF Freed
  <1>9. Holds(t, left)
    <2>1. \A e \in Cells : left[e] # Null <=> e \in CellsOf(t)
      BY <1>6, <1>7, <1>8
    <2>2. \A e, l \in CellsOf(t) : left[e] = left[l] => e = l
      BY <1>6, <1>7, <1>8
    <2> QED
      BY <1>8, <2>1, <2>2 DEF Holds
  <1> DEFINE p == DataOf(s, data)
             q == DataOf(t, left)
             r == Queue!RemoveAt(p, k)
  <1>10. p \in Seq(Data) /\ Len(p) = n /\ \A i \in 1 .. n : p[i] = data[s[i]]
    BY <1>1, DataOfType
  <1>11. q \in Seq(Data) /\ Len(q) = m /\ \A i \in 1 .. m : q[i] = left[t[i]]
    BY <1>4, <1>9, DataOfType
  <1> HIDE DEF p, q
  <1>12. /\ r \in Seq(Data) /\ Len(r) = m
         /\ \A i \in 1 .. m : r[i] = IF i < k THEN p[i] ELSE p[i + 1]
    <2>1. r \in Seq(Data) /\ Drops(r, p, k)
      BY <1>2, <1>10, RemoveAtIs
    <2> HIDE DEF r
    <2> QED
      BY <1>3, <1>10, <2>1 DEF Drops
  <1> HIDE DEF r
  <1>13. ASSUME NEW i \in 1 .. m PROVE q[i] = r[i]
    <2>1. t[i] \in Cells /\ t[i] # s[k]
      BY <1>1, <1>2, <1>5
    <2>2. q[i] = data[t[i]]
      BY <1>8, <1>11, <2>1
    <2>3. CASE i < k
      BY <1>5, <1>10, <1>12, <2>2, <2>3
    <2>4. CASE ~(i < k)
      <3>1. t[i] = s[i + 1] /\ i + 1 \in 1 .. n
        BY <1>5, <2>4
      <3>2. p[i + 1] = data[s[i + 1]]
        BY <1>10, <3>1
      <3>3. r[i] = p[i + 1]
        BY <1>12, <2>4
      <3> QED
        BY <2>2, <3>1, <3>2, <3>3
    <2> QED
      BY <2>3, <2>4
  <1>14. q = r
    BY <1>11, <1>12, <1>13, SameQueue
  <1> QED
    BY <1>9, <1>14 DEF p, q, r

\* A search finds the youngest match; what it removes leaves the rest in order.
LEMMA SearchStep ==
  ASSUME ListInv, NEW d \in Data, NEW handOut \in BOOLEAN, NEW rmIfFound \in BOOLEAN,
         linked_list_search(d, handOut, rmIfFound)
  PROVE  /\ ListInv'
         /\ \/ Queue!Find(d) \/ Queue!FindAndRemove(d, handOut)
            \/ UNCHANGED <<Queued, dataOut, deallocated>>
  <1>1. PICK s : Links(s, prev, pTail, next, pHead) /\ Holds(s, dataPtr)
    BY DEF ListInv
  <1>2. PICK n \in Nat : n = Len(s) /\ DOMAIN s = 1 .. n /\ Once(s)
                         /\ s \in Seq(Cells) /\ \A i \in 1 .. n : s[i] \in Cells
    BY <1>1 DEF Links
  <1>3. Queued = DataOf(s, dataPtr)
    BY <1>1, QueuedIs DEF Queued, FromTail
  <1>4. /\ DataOf(s, dataPtr) \in Seq(Data) /\ Len(DataOf(s, dataPtr)) = n
        /\ \A i \in 1 .. n : DataOf(s, dataPtr)[i] = dataPtr[s[i]]
    BY <1>1, <1>2, DataOfType
  <1>5. Queued \in Seq(Data) /\ DOMAIN Queued = 1 .. n /\ Len(Queued) = n
        /\ \A i \in 1 .. n : Queued[i] = dataPtr[s[i]]
    BY <1>3, <1>4
  <1>6. \A i, j \in 1 .. n : Queued[i] = Queued[j] => i = j
    <2> SUFFICES ASSUME NEW i \in 1 .. n, NEW j \in 1 .. n, Queued[i] = Queued[j] PROVE i = j
      OBVIOUS
    <2>1. s[i] \in CellsOf(s) /\ s[j] \in CellsOf(s)
      BY <1>2 DEF CellsOf
    <2>2. s[i] = s[j]
      BY <1>1, <1>5, <2>1 DEF Holds
    <2> QED
      BY <1>2, <2>2 DEF Once
  <1> DEFINE hits == {i \in DOMAIN FromHead : dataPtr[FromHead[i]] = d}
  <1>7. FromHead = Rev(s)
    BY <1>1, HeadFollows DEF FromHead
  <1>8. DOMAIN FromHead = 1 .. n /\ \A i \in 1 .. n : FromHead[i] = s[n + 1 - i] /\ n + 1 - i \in 1 .. n
    BY <1>2, <1>7 DEF Rev
  <1>9. CASE hits = {}
    <2>1. \A i \in 1 .. n : Queued[i] # d
      <3> SUFFICES ASSUME NEW i \in 1 .. n, Queued[i] = d PROVE FALSE
        OBVIOUS
      <3>1. n + 1 - i \in 1 .. n /\ n + 1 - (n + 1 - i) = i
        OBVIOUS
      <3>2. dataPtr[FromHead[n + 1 - i]] = d
        BY <1>5, <1>8, <3>1
      <3> QED
        BY <1>8, <1>9, <3>1, <3>2
    <2>2. d \notin Queue!Range(Queued)
      BY <1>5, <2>1 DEF Queue!Range
    <2>3. /\ dataOut' = IF handOut THEN Null ELSE dataOut
          /\ UNCHANGED <<pHead, pTail, next, prev, dataPtr, deallocated>>
      BY <1>9 DEF linked_list_search
    <2>4. ListInv' /\ Queued' = Queued
      BY <2>3 DEF ListInv, Queued, FromTail, CellsAlong
    <2> QED
      BY <2>2, <2>3, <2>4 DEF Queue!Find
  <1>10. CASE hits # {}
    <2> DEFINE h == CHOOSE i \in hits : \A j \in hits : i <= j
               k == n + 1 - h
    <2>1. h \in hits
      <3>1. hits \in SUBSET Nat
        BY <1>8
      <3>2. \E i \in hits : \A j \in hits : i <= j
        BY <1>10, <3>1, LeastNatural
      <3> QED
        BY <3>2
    <2>2. /\ dataOut' = IF handOut THEN d ELSE dataOut
          /\ IF rmIfFound
             THEN /\ Unlink(FromHead[h])
                  /\ dataPtr' = [dataPtr EXCEPT ![FromHead[h]] = Null]
                  /\ deallocated' = IF handOut THEN deallocated ELSE deallocated \cup {d}
             ELSE UNCHANGED <<pHead, pTail, next, prev, dataPtr, deallocated>>
      BY <1>10 DEF linked_list_search
    <2> HIDE DEF h
    <2>3. k \in 1 .. n /\ FromHead[h] = s[k] /\ dataPtr[s[k]] = d
      BY <1>8, <2>1
    <2> HIDE DEF hits, k
    <2>4. Queued[k] = d
      BY <1>5, <2>3
    <2>5. CASE ~rmIfFound
      <3>1. UNCHANGED <<pHead, pTail, next, prev, dataPtr, deallocated>>
        BY <2>2, <2>5
      <3>2. ListInv' /\ Queued' = Queued
        BY <3>1 DEF ListInv, Queued, FromTail, CellsAlong
      <3>3. d \in Queue!Range(Queued)
        BY <1>5, <2>3, <2>4 DEF Queue!Range
      <3> QED
        BY <2>2, <3>1, <3>2, <3>3 DEF Queue!Find
    <2>6. CASE rmIfFound
      <3>1. /\ Unlink(s[k])
            /\ dataPtr' = [dataPtr EXCEPT ![s[k]] = Null]
            /\ deallocated' = IF handOut THEN deallocated ELSE deallocated \cup {d}
        BY <2>2, <2>3, <2>6
      <3>2. PICK t : Links(t, prev', pTail', next', pHead') /\ Drops(t, s, k)
        BY <1>1, <1>2, <2>3, <3>1, UnlinkLinks DEF ListInv
      <3>3. t \in Seq(Cells)
        BY <3>2 DEF Links
      <3>4. Holds(t, dataPtr') /\ DataOf(t, dataPtr') = Queue!RemoveAt(DataOf(s, dataPtr), k)
        <4>1. s \in Seq(Cells) /\ Once(s) /\ k \in 1 .. Len(s) /\ Holds(s, dataPtr)
          BY <1>1, <1>2, <2>3
        <4>2. Freed(dataPtr', dataPtr, s[k])
          BY <3>1 DEF Freed
        <4> QED
          BY <3>2, <3>3, <4>1, <4>2, HoldsWithout
      <3>5. next' \in [Cells -> Cells \cup {Null}] /\ prev' \in [Cells -> Cells \cup {Null}]
        <4>1. /\ next \in [Cells -> Cells \cup {Null}] /\ prev \in [Cells -> Cells \cup {Null}]
              /\ s[k] \in Cells
          BY <1>2, <2>3 DEF ListInv
        <4>2. next[s[k]] \in Cells \cup {Null} /\ prev[s[k]] \in Cells \cup {Null}
          BY <4>1
        <4> QED
          BY <3>1, <4>1, <4>2 DEF Unlink
      <3>6. ListInv'
        BY <3>2, <3>4, <3>5 DEF ListInv
      <3>7. Queued' = DataOf(t, dataPtr')
        BY <3>2, QueuedIs DEF Queued, FromTail
      <3>8. Queued' = Queue!RemoveAt(Queued, k)
        BY <1>3, <3>4, <3>7
      <3>9. \A j \in k + 1 .. Len(Queued) : Queued[j] # d
        <4> SUFFICES ASSUME NEW j \in k + 1 .. n, Queued[j] = d PROVE FALSE
          BY <1>5
        <4>1. j \in 1 .. n /\ j # k
          BY <2>3
        <4> QED
          BY <1>6, <2>3, <2>4, <4>1
      <3>10. Queue!FindAndRemove(d, handOut)
        <4>1. \E i \in DOMAIN Queued :
                /\ Queued[i] = d /\ \A j \in i + 1 .. Len(Queued) : Queued[j] # d
                /\ Queued' = Queue!RemoveAt(Queued, i)
          BY <1>5, <2>3, <2>4, <3>8, <3>9
        <4>2. IF handOut THEN dataOut' = d /\ UNCHANGED deallocated
                         ELSE deallocated' = deallocated \cup {d} /\ UNCHANGED dataOut
          BY <2>2, <3>1
        <4> QED
          BY <4>1, <4>2 DEF Queue!FindAndRemove
      <3> QED
        BY <3>6, <3>10
    <2> QED
      BY <2>5, <2>6
  <1> QED
    BY <1>9, <1>10

\* Every step of the list is a step of the queue, or one it does not see.
LEMMA ListStep ==
  ListInv /\ [ListNext]_listVars =>
    ListInv' /\ [Queue!Next]_<<Queued, dataOut, deallocated>>
  <1> SUFFICES ASSUME ListInv, [ListNext]_listVars
               PROVE  ListInv' /\ [Queue!Next]_<<Queued, dataOut, deallocated>>
    OBVIOUS
  <1>1. CASE UNCHANGED listVars
    BY <1>1 DEF listVars, ListInv, Queued, FromTail, CellsAlong
  <1>2. CASE \E d \in FreshData : linked_list_add(d)
    <2>1. PICK d \in FreshData : linked_list_add(d)
      BY <1>2
    <2>2. ListInv' /\ Queue!Put(d) /\ d \in Data
      BY <2>1, AddStep DEF FreshData
    <2> QED
      BY <2>2 DEF Queue!Next
  <1>3. CASE linked_list_remove
    BY <1>3, RemoveStep DEF Queue!Next
  <1>4. CASE linked_list_flush
    BY <1>4, FlushStep DEF Queue!Next
  <1>5. CASE \E d \in Data, handOut, rmIfFound \in BOOLEAN : linked_list_search(d, handOut, rmIfFound)
    <2>1. PICK d \in Data, handOut \in BOOLEAN, rmIfFound \in BOOLEAN :
            linked_list_search(d, handOut, rmIfFound)
      BY <1>5
    <2>2. ListInv'
      BY <2>1, SearchStep
    <2>3. \/ Queue!Find(d) \/ Queue!FindAndRemove(d, handOut)
          \/ UNCHANGED <<Queued, dataOut, deallocated>>
      BY <2>1, SearchStep
    <2> QED
      BY <2>2, <2>3 DEF Queue!Next
  <1> QED
    BY <1>1, <1>2, <1>3, <1>4, <1>5 DEF ListNext

\* For any number of cells and data, the list of linked_list.c is the queue its users
\* take it for, whatever they add, remove, flush, find and unlink.
THEOREM ListRefinesFifo == ListSpec => ListIsFifo
  <1>1. linked_list_init => ListInv /\ Queue!Init
    BY ListInvInit
  <1>2. ListInv /\ [ListNext]_listVars =>
          ListInv' /\ [Queue!Next]_<<Queued, dataOut, deallocated>>
    BY ListStep
  <1> QED
    BY <1>1, <1>2, PTL DEF ListSpec, ListIsFifo, Queue!Spec

-----------------------------------------------------------------------------
(* Timers.                                                                 *)

Delegate == [client : Timers \cup {Null}, due : Nat, live : BOOLEAN]
TimerMsg == {"push", "remove", "expire"} \X (Nat \cup {Null})
Outcomes == {"ticking", "stopped", "called", "called early"}

TimerTypes ==
  /\ now \in Nat
  /\ delegates \in Seq(Delegate) /\ outcome \in Seq(Outcomes) /\ Len(outcome) = Len(delegates)
  /\ mTimer \in [Timers -> Delegates \cup {Null}]
  /\ timerQ \in Seq(TimerMsg) /\ heap \subseteq Delegates

\* A delegate in the queue is allocated; its removal is the last message about it, and
\* is sent once its client has let go of it.
QueueAlive ==
  \A i \in DOMAIN timerQ :
    /\ timerQ[i][1] # "expire" =>
         timerQ[i][2] \in Delegates /\ delegates[timerQ[i][2]].live
    /\ timerQ[i][1] = "remove" =>
         /\ delegates[timerQ[i][2]].client = Null
         /\ \A j \in DOMAIN timerQ :
              j > i /\ timerQ[j][1] # "expire" => timerQ[j][2] # timerQ[i][2]

\* While delegates are popped, the message that asked for it is still at the head of
\* the queue, so no removal is handled before the popped one has been looked at.
ExpiryAlive ==
  /\ expiring[1] # "idle" => timerQ # <<>> /\ Head(timerQ)[1] = "expire"
  /\ expiring[1] = "expire" => expiring[2] \in Delegates /\ delegates[expiring[2]].live
  /\ expiring[1] = "client" => expiring[2] \in Timers

\* A LocTimer that has a delegate is pointed at by it, and has not ended that start.
HoldersAlive ==
  /\ \A d \in heap : delegates[d].live
  /\ \A t \in Timers : mTimer[t] # Null =>
       /\ delegates[mTimer[t]].client = t /\ delegates[mTimer[t]].live
       /\ outcome[mTimer[t]] = "ticking"

TimerInv == TimerTypes /\ QueueAlive /\ ExpiryAlive /\ HoldersAlive

\* A start that has ended stays as it ended.
EndedStays == \A d \in Delegates : outcome[d] # "ticking" => outcome'[d] = outcome[d]

LEMMA Appended ==
  ASSUME NEW S, NEW q \in Seq(S), NEW m \in S, NEW r, r = Append(q, m)
  PROVE  /\ r \in Seq(S) /\ Len(r) = Len(q) + 1 /\ r # <<>> /\ (q # <<>> => Head(r) = Head(q))
         /\ DOMAIN q = 1 .. Len(q) /\ Len(q) \in Nat
         /\ Len(q) + 1 \in DOMAIN r /\ r[Len(q) + 1] = m
         /\ \A i \in DOMAIN q : i \in DOMAIN r /\ r[i] = q[i]
         /\ \A i \in DOMAIN r : i \in DOMAIN q \/ i = Len(q) + 1
  OBVIOUS

LEMMA Popped ==
  ASSUME NEW S, NEW q \in Seq(S), q # <<>>, NEW r, r = Tail(q)
  PROVE  /\ r \in Seq(S) /\ 1 \in DOMAIN q /\ Head(q) = q[1]
         /\ \A i \in DOMAIN r : i + 1 \in DOMAIN q /\ i + 1 > 1 /\ i \in Nat /\ r[i] = q[i + 1]
  OBVIOUS

\* Where nothing of the queue and the delegates changes.
timerState == <<now, delegates, outcome, mTimer, timerQ, heap>>

LEMMA TimerInvInit == TimerInit => TimerInv
  <1> SUFFICES ASSUME TimerInit PROVE TimerInv
    OBVIOUS
  <1>1. TimerTypes
    BY DEF TimerInit, TimerTypes, Delegates
  <1>2. QueueAlive
    BY DEF TimerInit, QueueAlive
  <1>3. ExpiryAlive
    BY DEF TimerInit, ExpiryAlive
  <1>4. HoldersAlive
    BY DEF TimerInit, HoldersAlive
  <1> QED
    BY <1>1, <1>2, <1>3, <1>4 DEF TimerInv

\* A start makes a delegate that nothing else knows, and queues its push.
LEMMA StartStep ==
  ASSUME TimerInv, NEW t \in Timers, NEW delay \in Delays, Start(t, delay)
  PROVE  TimerInv' /\ EndedStays
  <1> DEFINE n == Len(delegates)
             new == [client |-> t, due |-> now + delay, live |-> TRUE]
             message == <<"push", n + 1>>
  <1>1. /\ mTimer[t] = Null
        /\ delegates' = Append(delegates, new)
        /\ mTimer' = [mTimer EXCEPT ![t] = n + 1]
        /\ timerQ' = Append(timerQ, message)
        /\ outcome' = Append(outcome, "ticking")
        /\ UNCHANGED <<now, heap, fd, polled, poll, expiring>>
    BY DEF Start
  <1>2. TimerTypes /\ QueueAlive /\ ExpiryAlive /\ HoldersAlive
    BY DEF TimerInv
  <1>3. n \in Nat /\ n + 1 \in Nat /\ Delegates = 1 .. n /\ n + 1 \notin Delegates
    BY <1>2 DEF TimerTypes, Delegates
  <1>4. new \in Delegate /\ message \in TimerMsg
    <2>1. now + delay \in Nat
      BY <1>2, TimerAssumption DEF TimerTypes
    <2>2. new \in Delegate
      BY <2>1 DEF Delegate
    <2> QED
      BY <1>3, <2>2 DEF TimerMsg
  <1>5. new.client = t /\ new.live = TRUE
    OBVIOUS
  <1>6. message[1] = "push" /\ message[2] = n + 1
    OBVIOUS
  <1> HIDE DEF new, message
  <1>7. /\ delegates' \in Seq(Delegate) /\ Len(delegates') = n + 1 /\ delegates'[n + 1] = new
        /\ \A d \in 1 .. n : delegates'[d] = delegates[d]
    <2>1. delegates \in Seq(Delegate) /\ DOMAIN delegates = 1 .. n
      BY <1>2 DEF TimerTypes
    <2> QED
      BY <1>1, <1>4, <2>1, Appended
  <1>8. /\ outcome' \in Seq(Outcomes) /\ Len(outcome') = n + 1 /\ outcome'[n + 1] = "ticking"
        /\ \A d \in 1 .. n : outcome'[d] = outcome[d]
    <2>1. outcome \in Seq(Outcomes) /\ Len(outcome) = n /\ DOMAIN outcome = 1 .. n
      BY <1>2 DEF TimerTypes
    <2>2. "ticking" \in Outcomes
      BY DEF Outcomes
    <2> QED
      BY <1>1, <2>1, <2>2, Appended
  <1> HIDE DEF n
  <1>9. Delegates' = 1 .. n + 1 /\ Delegates \subseteq Delegates'
        /\ \A d \in Delegates' : d \in Delegates \/ d = n + 1
    BY <1>3, <1>7 DEF Delegates
  <1>10. /\ timerQ' \in Seq(TimerMsg) /\ timerQ' # <<>> /\ (timerQ # <<>> => Head(timerQ') = Head(timerQ))
         /\ \A i \in DOMAIN timerQ : i \in DOMAIN timerQ' /\ timerQ'[i] = timerQ[i]
         /\ \A i \in DOMAIN timerQ' : i \in DOMAIN timerQ \/ timerQ'[i] = message
    <2>1. timerQ \in Seq(TimerMsg)
      BY <1>2 DEF TimerTypes
    <2> QED
      BY <1>1, <1>4, <2>1, Appended
  <1>11. /\ mTimer' \in [Timers -> Delegates' \cup {Null}] /\ mTimer'[t] = n + 1
         /\ \A u \in Timers : u # t => mTimer'[u] = mTimer[u]
    <2>1. mTimer \in [Timers -> Delegates \cup {Null}]
      BY <1>2 DEF TimerTypes
    <2>2. n + 1 \in Delegates'
      BY <1>3, <1>9
    <2> QED
      BY <1>1, <1>9, <2>1, <2>2
  <1>12. TimerTypes'
    <2>1. heap' \subseteq Delegates' /\ now' \in Nat
      BY <1>1, <1>2, <1>9 DEF TimerTypes
    <2> QED
      BY <1>7, <1>8, <1>10, <1>11, <2>1 DEF TimerTypes
  <1>13. QueueAlive'
    <2> SUFFICES ASSUME NEW i \in DOMAIN timerQ'
                 PROVE  /\ timerQ'[i][1] # "expire" =>
                             timerQ'[i][2] \in Delegates' /\ delegates'[timerQ'[i][2]].live
                        /\ timerQ'[i][1] = "remove" =>
                             /\ delegates'[timerQ'[i][2]].client = Null
                             /\ \A j \in DOMAIN timerQ' :
                                  j > i /\ timerQ'[j][1] # "expire" => timerQ'[j][2] # timerQ'[i][2]
      BY DEF QueueAlive
    <2>1. CASE i \in DOMAIN timerQ
      <3>1. timerQ'[i] = timerQ[i]
        BY <1>10, <2>1
      <3>2. timerQ[i][1] # "expire" => /\ timerQ[i][2] \in Delegates /\ delegates[timerQ[i][2]].live
                                       /\ delegates'[timerQ[i][2]] = delegates[timerQ[i][2]]
        BY <1>2, <1>3, <1>7, <2>1 DEF QueueAlive
      <3>3. timerQ[i][1] = "remove" =>
              /\ timerQ[i][1] # "expire" /\ delegates[timerQ[i][2]].client = Null
              /\ \A j \in DOMAIN timerQ :
                   j > i /\ timerQ[j][1] # "expire" => timerQ[j][2] # timerQ[i][2]
        BY <1>2, <2>1 DEF QueueAlive
      <3>4. ASSUME timerQ[i][1] = "remove", NEW j \in DOMAIN timerQ', j > i, timerQ'[j][1] # "expire"
            PROVE  timerQ'[j][2] # timerQ[i][2]
        <4>1. CASE j \in DOMAIN timerQ
          BY <1>10, <3>3, <3>4, <4>1
        <4>2. CASE timerQ'[j] = message
          BY <1>3, <1>6, <3>2, <3>3, <3>4, <4>2
        <4> QED
          BY <1>10, <4>1, <4>2
      <3> QED
        BY <1>9, <3>1, <3>2, <3>3, <3>4
    <2>2. CASE timerQ'[i] = message
      <3>1. n + 1 \in Delegates' /\ delegates'[n + 1].live
        BY <1>3, <1>5, <1>7, <1>9
      <3> QED
        BY <1>6, <2>2, <3>1
    <2> QED
      BY <1>10, <2>1, <2>2
  <1>14. ExpiryAlive'
    <2>1. expiring[1] = "expire" => delegates'[expiring[2]] = delegates[expiring[2]]
      BY <1>2, <1>3, <1>7 DEF ExpiryAlive
    <2> QED
      BY <1>1, <1>2, <1>9, <1>10, <2>1 DEF ExpiryAlive
  <1>15. HoldersAlive'
    <2>1. \A d \in heap : delegates'[d] = delegates[d]
      BY <1>2, <1>3, <1>7 DEF TimerTypes
    <2>2. ASSUME NEW u \in Timers, mTimer'[u] # Null
          PROVE  /\ delegates'[mTimer'[u]].client = u /\ delegates'[mTimer'[u]].live
                 /\ outcome'[mTimer'[u]] = "ticking"
      <3>1. CASE u = t
        BY <1>5, <1>7, <1>8, <1>11, <3>1
      <3>2. CASE u # t
        <4>1. mTimer'[u] = mTimer[u] /\ mTimer[u] \in 1 .. n
          BY <1>2, <1>3, <1>11, <2>2, <3>2 DEF TimerTypes
        <4> QED
          BY <1>2, <1>7, <1>8, <2>2, <4>1 DEF HoldersAlive
      <3> QED
        BY <3>1, <3>2
    <2> QED
      BY <1>1, <1>2, <2>1, <2>2 DEF HoldersAlive
  <1>16. EndedStays
    BY <1>3, <1>8 DEF EndedStays
  <1> QED
    BY <1>12, <1>13, <1>14, <1>15, <1>16 DEF TimerInv

\* A stop lets go of the delegate and queues the last message about it.
LEMMA StopStep ==
  ASSUME TimerInv, NEW t \in Timers, mTimer[t] # Null, NEW why \in Outcomes, StopTicking(t, why),
         UNCHANGED <<now, heap>>,
         \/ expiring' = expiring
         \/ expiring[1] # "idle" /\ expiring' = <<"next", Null>>
  PROVE  TimerInv' /\ EndedStays
  <1> DEFINE d == mTimer[t]
             n == Len(delegates)
             message == <<"remove", d>>
  <1>1. /\ mTimer' = [mTimer EXCEPT ![t] = Null]
        /\ delegates' = [delegates EXCEPT ![d].client = Null]
        /\ timerQ' = Append(timerQ, message)
        /\ outcome' = [outcome EXCEPT ![d] = why]
    BY DEF StopTicking
  <1>2. TimerTypes /\ QueueAlive /\ ExpiryAlive /\ HoldersAlive
    BY DEF TimerInv
  <1>3. n \in Nat /\ Delegates = 1 .. n /\ d \in 1 .. n
    BY <1>2 DEF TimerTypes, Delegates
  <1>4. /\ delegates[d].client = t /\ delegates[d].live /\ outcome[d] = "ticking" /\ t # Null
        /\ \A u \in Timers : mTimer[u] # Null /\ u # t => mTimer[u] # d
    BY <1>2, TimerAssumption DEF HoldersAlive
  <1>5. message \in TimerMsg /\ message[1] = "remove" /\ message[2] = d
    BY <1>3 DEF TimerMsg
  <1>6. /\ delegates' \in Seq(Delegate) /\ Len(delegates') = n
        /\ delegates'[d].client = Null /\ delegates'[d].live = delegates[d].live
        /\ \A e \in 1 .. n : e # d => delegates'[e] = delegates[e]
    <2>1. delegates \in Seq(Delegate) /\ DOMAIN delegates = 1 .. n /\ delegates[d] \in Delegate
      BY <1>2, <1>3 DEF TimerTypes
    <2>2. [delegates[d] EXCEPT !.client = Null] \in Delegate
      BY <2>1 DEF Delegate
    <2>3. delegates' = [delegates EXCEPT ![d] = [delegates[d] EXCEPT !.client = Null]]
      BY <1>1
    <2>4. /\ [delegates[d] EXCEPT !.client = Null].client = Null
          /\ [delegates[d] EXCEPT !.client = Null].live = delegates[d].live
      BY <2>1 DEF Delegate
    <2> HIDE DEF d, n
    <2> QED
      BY <1>3, <2>1, <2>2, <2>3, <2>4
  <1>7. /\ outcome' \in Seq(Outcomes) /\ Len(outcome') = n
        /\ \A e \in 1 .. n : e # d => outcome'[e] = outcome[e]
    <2>1. outcome \in Seq(Outcomes) /\ DOMAIN outcome = 1 .. n /\ Len(outcome) = n
      BY <1>2 DEF TimerTypes
    <2> HIDE DEF d, n
    <2> QED
      BY <1>1, <1>3, <2>1
  <1>8. /\ timerQ' \in Seq(TimerMsg) /\ timerQ' # <<>> /\ (timerQ # <<>> => Head(timerQ') = Head(timerQ))
        /\ \A i \in DOMAIN timerQ : i \in DOMAIN timerQ' /\ timerQ'[i] = timerQ[i]
        /\ \A i \in DOMAIN timerQ' : /\ i \in DOMAIN timerQ \/ i = Len(timerQ) + 1
                                     /\ i <= Len(timerQ) + 1
        /\ timerQ'[Len(timerQ) + 1] = message
    <2>1. timerQ \in Seq(TimerMsg)
      BY <1>2 DEF TimerTypes
    <2> HIDE DEF message
    <2>2. \A i \in DOMAIN timerQ : i <= Len(timerQ) + 1
      BY <2>1
    <2> QED
      BY <1>1, <1>5, <2>1, <2>2, Appended
  <1> HIDE DEF d, n, message
  <1>9. Delegates' = Delegates
    BY <1>3, <1>6 DEF Delegates
  <1>10. /\ mTimer' \in [Timers -> Delegates' \cup {Null}] /\ mTimer'[t] = Null
         /\ \A u \in Timers : u # t => mTimer'[u] = mTimer[u]
    BY <1>1, <1>2, <1>9 DEF TimerTypes
  <1>11. \A e \in Delegates : delegates'[e].live = delegates[e].live
    BY <1>3, <1>6
  <1>12. TimerTypes'
    <2>1. heap' \subseteq Delegates' /\ now' \in Nat
      BY <1>2, <1>9 DEF TimerTypes
    <2> QED
      BY <1>6, <1>7, <1>8, <1>10, <2>1 DEF TimerTypes
  <1>13. QueueAlive'
    <2> SUFFICES ASSUME NEW i \in DOMAIN timerQ'
                 PROVE  /\ timerQ'[i][1] # "expire" =>
                             timerQ'[i][2] \in Delegates' /\ delegates'[timerQ'[i][2]].live
                        /\ timerQ'[i][1] = "remove" =>
                             /\ delegates'[timerQ'[i][2]].client = Null
                             /\ \A j \in DOMAIN timerQ' :
                                  j > i /\ timerQ'[j][1] # "expire" => timerQ'[j][2] # timerQ'[i][2]
      BY DEF QueueAlive
    <2>1. CASE i \in DOMAIN timerQ
      <3>1. timerQ'[i] = timerQ[i]
        BY <1>8, <2>1
      <3>2. timerQ[i][1] # "expire" => /\ timerQ[i][2] \in Delegates' /\ delegates'[timerQ[i][2]].live
        BY <1>2, <1>9, <1>11, <2>1 DEF QueueAlive
      <3>3. timerQ[i][1] = "remove" =>
              /\ timerQ[i][2] \in Delegates /\ delegates[timerQ[i][2]].client = Null
              /\ \A j \in DOMAIN timerQ :
                   j > i /\ timerQ[j][1] # "expire" => timerQ[j][2] # timerQ[i][2]
        BY <1>2, <2>1 DEF QueueAlive
      <3>4. timerQ[i][1] = "remove" => timerQ[i][2] # d
        BY <1>4, <3>3
      <3>5. timerQ[i][1] = "remove" => delegates'[timerQ[i][2]].client = Null
        BY <1>3, <1>6, <3>3, <3>4
      <3>6. ASSUME timerQ[i][1] = "remove", NEW j \in DOMAIN timerQ', j > i, timerQ'[j][1] # "expire"
            PROVE  timerQ'[j][2] # timerQ[i][2]
        <4>1. CASE j \in DOMAIN timerQ
          BY <1>8, <3>3, <3>6, <4>1
        <4>2. CASE j = Len(timerQ) + 1
          BY <1>5, <1>8, <3>4, <3>6, <4>2
        <4> QED
          BY <1>8, <4>1, <4>2
      <3> QED
        BY <3>1, <3>2, <3>5, <3>6
    <2>2. CASE i = Len(timerQ) + 1
      <3>1. timerQ'[i][1] = "remove" /\ timerQ'[i][2] = d
        BY <1>5, <1>8, <2>2
      <3>2. d \in Delegates' /\ delegates'[d].live /\ delegates'[d].client = Null
        BY <1>3, <1>4, <1>6, <1>9
      <3>3. \A j \in DOMAIN timerQ' : ~(j > i)
        <4> SUFFICES ASSUME NEW j \in DOMAIN timerQ', j > i PROVE FALSE
          OBVIOUS
        <4>1. j <= i /\ j \in Nat /\ i \in Nat
          BY <1>8, <2>2
        <4> QED
          BY <4>1
      <3> QED
        BY <3>1, <3>2, <3>3
    <2> QED
      BY <1>8, <2>1, <2>2
  <1>14. ExpiryAlive'
    <2>1. CASE expiring' = expiring
      BY <1>2, <1>8, <1>9, <1>11, <2>1 DEF ExpiryAlive
    <2>2. CASE expiring[1] # "idle" /\ expiring' = <<"next", Null>>
      BY <1>2, <1>8, <2>2 DEF ExpiryAlive
    <2> QED
      BY <2>1, <2>2
  <1>15. HoldersAlive'
    <2>1. \A e \in heap' : delegates'[e].live
      BY <1>2, <1>11 DEF HoldersAlive, TimerTypes
    <2>2. ASSUME NEW u \in Timers, mTimer'[u] # Null
          PROVE  /\ delegates'[mTimer'[u]].client = u /\ delegates'[mTimer'[u]].live
                 /\ outcome'[mTimer'[u]] = "ticking"
      <3>1. u # t /\ mTimer'[u] = mTimer[u]
        BY <1>10, <2>2
      <3>2. mTimer[u] \in 1 .. n /\ mTimer[u] # d
        BY <1>2, <1>3, <1>4, <2>2, <3>1 DEF TimerTypes
      <3> QED
        BY <1>2, <1>6, <1>7, <2>2, <3>1, <3>2 DEF HoldersAlive
    <2> QED
      BY <2>1, <2>2 DEF HoldersAlive
  <1>16. EndedStays
    BY <1>3, <1>4, <1>7 DEF EndedStays
  <1> QED
    BY <1>12, <1>13, <1>14, <1>15, <1>16 DEF TimerInv

\* The queue without its head is alive, if what the rest is about is as it was.
LEMMA PopKeeps ==
  ASSUME TimerTypes, QueueAlive, timerQ # <<>>, timerQ' = Tail(timerQ), Delegates' = Delegates,
         \A i \in DOMAIN timerQ : i > 1 /\ timerQ[i][1] # "expire" =>
           delegates'[timerQ[i][2]] = delegates[timerQ[i][2]]
  PROVE  QueueAlive' /\ timerQ' \in Seq(TimerMsg)
  <1>1. /\ timerQ' \in Seq(TimerMsg)
        /\ \A i \in DOMAIN timerQ' : /\ i + 1 \in DOMAIN timerQ /\ i + 1 > 1 /\ i \in Nat
                                     /\ timerQ'[i] = timerQ[i + 1]
    BY Popped DEF TimerTypes
  <1>2. ASSUME NEW i \in DOMAIN timerQ', timerQ'[i][1] # "expire"
        PROVE  timerQ'[i][2] \in Delegates' /\ delegates'[timerQ'[i][2]].live
    BY <1>1, <1>2 DEF QueueAlive
  <1>3. ASSUME NEW i \in DOMAIN timerQ', timerQ'[i][1] = "remove"
        PROVE  /\ delegates'[timerQ'[i][2]].client = Null
               /\ \A j \in DOMAIN timerQ' :
                    j > i /\ timerQ'[j][1] # "expire" => timerQ'[j][2] # timerQ'[i][2]
    <2>1. /\ i + 1 \in DOMAIN timerQ /\ i + 1 > 1 /\ i \in Nat /\ timerQ'[i] = timerQ[i + 1]
      BY <1>1
    <2>2. /\ delegates[timerQ[i + 1][2]].client = Null
          /\ \A j \in DOMAIN timerQ :
               j > i + 1 /\ timerQ[j][1] # "expire" => timerQ[j][2] # timerQ[i + 1][2]
      BY <1>3, <2>1 DEF QueueAlive
    <2>3. delegates'[timerQ'[i][2]].client = Null
      BY <1>3, <2>1, <2>2
    <2>4. ASSUME NEW j \in DOMAIN timerQ', j > i, timerQ'[j][1] # "expire"
          PROVE  timerQ'[j][2] # timerQ'[i][2]
      <3>1. j + 1 \in DOMAIN timerQ /\ timerQ'[j] = timerQ[j + 1] /\ j \in Nat
        BY <1>1
      <3>2. j + 1 > i + 1
        BY <2>1, <2>4, <3>1
      <3> QED
        BY <2>1, <2>2, <2>4, <3>1, <3>2
    <2> QED
      BY <2>3, <2>4
  <1> QED
    BY <1>1, <1>2, <1>3 DEF QueueAlive

\* A push is handled: its delegate is one of those in the heap.
LEMMA PushStep ==
  ASSUME TimerInv, ProcPush
  PROVE  TimerInv' /\ EndedStays
  <1>1. TimerTypes /\ QueueAlive /\ ExpiryAlive /\ HoldersAlive
    BY DEF TimerInv
  <1> DEFINE d == Head(timerQ)[2]
  <1>2. /\ expiring = <<"idle">> /\ timerQ # <<>> /\ Head(timerQ)[1] = "push"
        /\ heap' = heap \cup {d} /\ timerQ' = Tail(timerQ)
        /\ UNCHANGED <<now, delegates, mTimer, poll, expiring, outcome>>
    BY DEF ProcPush
  <1>3. Head(timerQ) = timerQ[1] /\ 1 \in DOMAIN timerQ
    BY <1>1, <1>2 DEF TimerTypes
  <1>4. d \in Delegates /\ delegates[d].live
    BY <1>1, <1>2, <1>3 DEF QueueAlive
  <1> HIDE DEF d
  <1>5. Delegates' = Delegates
    BY <1>2 DEF Delegates
  <1>6. QueueAlive' /\ timerQ' \in Seq(TimerMsg)
    BY <1>1, <1>2, <1>5, PopKeeps
  <1>7. TimerTypes'
    BY <1>1, <1>2, <1>4, <1>5, <1>6 DEF TimerTypes
  <1>8. ExpiryAlive'
    BY <1>2 DEF ExpiryAlive
  <1>9. HoldersAlive'
    BY <1>1, <1>2, <1>4 DEF HoldersAlive
  <1> QED
    BY <1>2, <1>6, <1>7, <1>8, <1>9 DEF TimerInv, EndedStays

\* A removal is handled: nothing knows its delegate any more when it is freed.
LEMMA FreeStep ==
  ASSUME TimerInv, ProcRemove
  PROVE  TimerInv' /\ EndedStays
  <1>1. TimerTypes /\ QueueAlive /\ ExpiryAlive /\ HoldersAlive
    BY DEF TimerInv
  <1> DEFINE d == Head(timerQ)[2]
             n == Len(delegates)
  <1>2. /\ expiring = <<"idle">> /\ timerQ # <<>> /\ Head(timerQ)[1] = "remove"
        /\ heap' = heap \ {d} /\ timerQ' = Tail(timerQ)
        /\ delegates' = [delegates EXCEPT ![d].live = FALSE]
        /\ UNCHANGED <<now, mTimer, poll, expiring, outcome>>
    BY DEF ProcRemove
  <1>3. Head(timerQ) = timerQ[1] /\ 1 \in DOMAIN timerQ
    BY <1>1, <1>2 DEF TimerTypes
  <1>4. n \in Nat /\ Delegates = 1 .. n
    BY <1>1 DEF TimerTypes, Delegates
  <1>5. /\ d \in Delegates /\ delegates[d].client = Null
        /\ \A i \in DOMAIN timerQ : i > 1 /\ timerQ[i][1] # "expire" =>
             timerQ[i][2] \in Delegates /\ timerQ[i][2] # d
    BY <1>1, <1>2, <1>3 DEF QueueAlive
  <1> HIDE DEF d, n
  <1>6. /\ delegates' \in Seq(Delegate) /\ Len(delegates') = n
        /\ \A e \in 1 .. n : e # d => delegates'[e] = delegates[e]
    <2>1. delegates \in Seq(Delegate) /\ DOMAIN delegates = 1 .. n /\ delegates[d] \in Delegate /\ Len(delegates) = n
      BY <1>1, <1>4, <1>5 DEF TimerTypes, n
    <2>2. [delegates[d] EXCEPT !.live = FALSE] \in Delegate
      BY <2>1 DEF Delegate
    <2>3. delegates' = [delegates EXCEPT ![d] = [delegates[d] EXCEPT !.live = FALSE]]
      BY <1>2
    <2> QED
      BY <1>4, <1>5, <2>1, <2>2, <2>3
  <1>7. Delegates' = Delegates
    BY <1>4, <1>6 DEF Delegates
  <1>8. QueueAlive' /\ timerQ' \in Seq(TimerMsg)
    <2>1. \A i \in DOMAIN timerQ : i > 1 /\ timerQ[i][1] # "expire" =>
            delegates'[timerQ[i][2]] = delegates[timerQ[i][2]]
      BY <1>4, <1>5, <1>6
    <2> QED
      BY <1>1, <1>2, <1>7, <2>1, PopKeeps
  <1>9. TimerTypes'
    <2>1. Len(outcome') = Len(delegates') /\ outcome' \in Seq(Outcomes)
      BY <1>1, <1>2, <1>6 DEF TimerTypes, n
    <2> QED
      BY <1>1, <1>2, <1>6, <1>7, <1>8, <2>1 DEF TimerTypes
  <1>10. ExpiryAlive'
    BY <1>2 DEF ExpiryAlive
  <1>11. HoldersAlive'
    <2>1. \A e \in heap' : delegates'[e].live
      BY <1>1, <1>2, <1>4, <1>6 DEF HoldersAlive, TimerTypes
    <2>2. ASSUME NEW u \in Timers, mTimer[u] # Null
          PROVE  delegates'[mTimer[u]] = delegates[mTimer[u]]
      <3>1. mTimer[u] \in 1 .. n /\ delegates[mTimer[u]].client = u /\ u # Null
        BY <1>1, <1>4, <2>2, TimerAssumption DEF HoldersAlive, TimerTypes
      <3>2. mTimer[u] # d
        BY <1>5, <3>1
      <3> QED
        BY <1>6, <3>1, <3>2
    <2>3. mTimer' = mTimer /\ outcome' = outcome
      BY <1>2
    <2>4. ASSUME NEW u \in Timers, mTimer[u] # Null
          PROVE  /\ delegates'[mTimer[u]].client = u /\ delegates'[mTimer[u]].live
                 /\ outcome[mTimer[u]] = "ticking"
      BY <1>1, <2>2, <2>4 DEF HoldersAlive
    <2> QED
      BY <2>1, <2>3, <2>4 DEF HoldersAlive
  <1> QED
    BY <1>2, <1>8, <1>9, <1>10, <1>11 DEF TimerInv, EndedStays

\* What is popped was in the heap, and a heap has a top if it is not empty.
LEMMA TopsIn == ASSUME NEW h, NEW d \in Tops(h) PROVE d \in h \/ d = Null
  BY DEF Tops

LEMMA ExpiryStep ==
  ASSUME TimerInv, PopFirst \/ popIfOutRanks \/ ReadClient
  PROVE  TimerInv' /\ EndedStays
  <1>1. TimerTypes /\ QueueAlive /\ ExpiryAlive /\ HoldersAlive
    BY DEF TimerInv
  <1>2. UNCHANGED <<now, delegates, mTimer, timerQ, outcome>>
    BY DEF PopFirst, popIfOutRanks, ReadClient
  <1>3. heap' \subseteq heap
    BY DEF PopFirst, popIfOutRanks, ReadClient
  <1>4. Delegates' = Delegates
    BY <1>2 DEF Delegates
  <1>5. TimerTypes' /\ QueueAlive' /\ HoldersAlive'
    <2>1. TimerTypes'
      BY <1>1, <1>2, <1>3, <1>4 DEF TimerTypes
    <2>2. QueueAlive'
      BY <1>1, <1>2, <1>4 DEF QueueAlive
    <2>3. HoldersAlive'
      BY <1>1, <1>2, <1>3 DEF HoldersAlive
    <2> QED
      BY <2>1, <2>2, <2>3
  <1>6. \A d \in heap : d \in Delegates /\ delegates[d].live
    BY <1>1 DEF TimerTypes, HoldersAlive
  <1>7. ExpiryAlive'
    <2>1. CASE PopFirst
      <3>1. PICK top \in Tops(heap) :
              expiring' = IF top = Null THEN <<"end", Null>> ELSE <<"expire", top>>
        BY <2>1 DEF PopFirst
      <3>2. timerQ # <<>> /\ Head(timerQ)[1] = "expire"
        BY <2>1 DEF PopFirst
      <3>3. top # Null => top \in heap
        BY TopsIn
      <3> QED
        BY <1>2, <1>4, <1>6, <3>1, <3>2, <3>3 DEF ExpiryAlive
    <2>2. CASE popIfOutRanks
      <3>1. PICK top \in Tops(heap) :
              \/ top # Null /\ expiring' = <<"expire", top>>
              \/ expiring' = <<"end", Null>>
        BY <2>2 DEF popIfOutRanks
      <3>2. timerQ # <<>> /\ Head(timerQ)[1] = "expire"
        BY <1>1, <2>2 DEF popIfOutRanks, ExpiryAlive
      <3>3. top # Null => top \in heap
        BY TopsIn
      <3> QED
        BY <1>2, <1>4, <1>6, <3>1, <3>2, <3>3 DEF ExpiryAlive
    <2>3. CASE ReadClient
      <3> DEFINE c == delegates[expiring[2]].client
      <3>1. expiring' = IF c = Null THEN <<"next", Null>> ELSE <<"client", c, expiring[2]>>
        BY <2>3 DEF ReadClient
      <3>2. timerQ # <<>> /\ Head(timerQ)[1] = "expire" /\ expiring[2] \in Delegates
        BY <1>1, <2>3 DEF ReadClient, ExpiryAlive
      <3>3. c \in Timers \cup {Null}
        <4>1. delegates[expiring[2]] \in Delegate
          BY <1>1, <3>2 DEF TimerTypes, Delegates
        <4> QED
          BY <4>1 DEF Delegate
      <3> HIDE DEF c
      <3> QED
        BY <1>2, <1>4, <3>1, <3>2, <3>3 DEF ExpiryAlive
    <2> QED
      BY <2>1, <2>2, <2>3
  <1> QED
    BY <1>2, <1>5, <1>7 DEF TimerInv, EndedStays

LEMMA CallStep ==
  ASSUME TimerInv, Call
  PROVE  TimerInv' /\ EndedStays
  <1>1. TimerTypes /\ QueueAlive /\ ExpiryAlive /\ HoldersAlive
    BY DEF TimerInv
  <1> DEFINE t == expiring[2]
             why == IF Due(mTimer[t]) <= now THEN "called" ELSE "called early"
  <1>2. /\ expiring[1] = "client" /\ expiring' = <<"next", Null>>
        /\ UNCHANGED <<now, heap>>
        /\ IF mTimer[t] # Null THEN StopTicking(t, why)
           ELSE UNCHANGED <<mTimer, delegates, timerQ, outcome>>
    BY DEF Call
  <1>3. t \in Timers /\ why \in Outcomes /\ expiring[1] # "idle"
    BY <1>1, <1>2 DEF ExpiryAlive, Outcomes
  <1> HIDE DEF t, why
  <1>4. CASE mTimer[t] # Null
    BY <1>2, <1>3, <1>4, StopStep
  <1>5. CASE mTimer[t] = Null
    <2>1. UNCHANGED timerState
      BY <1>2, <1>5 DEF timerState
    <2>2. TimerTypes' /\ QueueAlive' /\ HoldersAlive'
      BY <1>1, <2>1 DEF timerState, TimerTypes, QueueAlive, HoldersAlive, Delegates
    <2>3. ExpiryAlive'
      BY <1>1, <1>2, <2>1 DEF timerState, ExpiryAlive
    <2> QED
      BY <2>1, <2>2, <2>3 DEF TimerInv, EndedStays, timerState
  <1> QED
    BY <1>4, <1>5

\* The rest: the end of an expiry, the poll thread and time.
LEMMA OtherStep ==
  ASSUME TimerInv, ProcExpireEnds \/ PollTask \/ Tick \/ UNCHANGED timerVars
  PROVE  TimerInv' /\ EndedStays
  <1>1. TimerTypes /\ QueueAlive /\ ExpiryAlive /\ HoldersAlive
    BY DEF TimerInv
  <1>2. CASE ProcExpireEnds
    <2>1. /\ expiring[1] = "end" /\ expiring' = <<"idle">> /\ timerQ' = Tail(timerQ)
          /\ UNCHANGED <<now, delegates, mTimer, heap, outcome>>
      BY <1>2 DEF ProcExpireEnds
    <2>2. timerQ # <<>> /\ Delegates' = Delegates
      BY <1>1, <2>1 DEF ExpiryAlive, Delegates
    <2>3. QueueAlive' /\ timerQ' \in Seq(TimerMsg)
      BY <1>1, <2>1, <2>2, PopKeeps
    <2>4. TimerTypes'
      BY <1>1, <2>1, <2>2, <2>3 DEF TimerTypes
    <2>5. ExpiryAlive' /\ HoldersAlive'
      BY <1>1, <2>1 DEF ExpiryAlive, HoldersAlive
    <2> QED
      BY <2>1, <2>3, <2>4, <2>5 DEF TimerInv, EndedStays
  <1>3. CASE SendExpire
    <2> DEFINE m == <<"expire", Null>>
    <2>1. /\ timerQ' = Append(timerQ, m)
          /\ UNCHANGED <<now, delegates, mTimer, heap, expiring, outcome>>
      BY <1>3 DEF SendExpire
    <2>2. m \in TimerMsg /\ m[1] = "expire"
      BY DEF TimerMsg
    <2> HIDE DEF m
    <2>3. /\ timerQ' \in Seq(TimerMsg) /\ timerQ' # <<>> /\ (timerQ # <<>> => Head(timerQ') = Head(timerQ))
          /\ \A i \in DOMAIN timerQ : i \in DOMAIN timerQ' /\ timerQ'[i] = timerQ[i]
          /\ \A i \in DOMAIN timerQ' : i \in DOMAIN timerQ \/ timerQ'[i] = m
      <3>1. timerQ \in Seq(TimerMsg)
        BY <1>1 DEF TimerTypes
      <3> QED
        BY <2>1, <2>2, <3>1, Appended
    <2>4. Delegates' = Delegates
      BY <2>1 DEF Delegates
    <2>5. TimerTypes'
      BY <1>1, <2>1, <2>3, <2>4 DEF TimerTypes
    <2>6. QueueAlive'
      BY <1>1, <2>1, <2>2, <2>3, <2>4 DEF QueueAlive
    <2>7. ExpiryAlive' /\ HoldersAlive'
      BY <1>1, <2>1, <2>3, <2>4 DEF ExpiryAlive, HoldersAlive
    <2> QED
      BY <2>1, <2>5, <2>6, <2>7 DEF TimerInv, EndedStays
  <1>4. CASE EpollWait \/ Disarm \/ RemovePoll \/ Tick \/ UNCHANGED timerVars
    <2>1. UNCHANGED <<delegates, mTimer, timerQ, heap, expiring, outcome>>
      BY <1>4 DEF EpollWait, Disarm, RemovePoll, Tick, timerVars
    <2>2. now' \in Nat
      BY <1>1, <1>4 DEF EpollWait, Disarm, RemovePoll, Tick, timerVars, TimerTypes
    <2>3. Delegates' = Delegates
      BY <2>1 DEF Delegates
    <2>4. TimerTypes'
      BY <1>1, <2>1, <2>2, <2>3 DEF TimerTypes
    <2>5. QueueAlive' /\ ExpiryAlive' /\ HoldersAlive'
      BY <1>1, <2>1, <2>3 DEF QueueAlive, ExpiryAlive, HoldersAlive
    <2> QED
      BY <2>1, <2>4, <2>5 DEF TimerInv, EndedStays
  <1> QED
    BY <1>2, <1>3, <1>4 DEF PollTask

LEMMA TimerStep == TimerInv /\ [TimerNext]_timerVars => TimerInv' /\ EndedStays
  <1> SUFFICES ASSUME TimerInv, [TimerNext]_timerVars PROVE TimerInv' /\ EndedStays
    OBVIOUS
  <1>1. ASSUME NEW t \in Timers, Stop(t) PROVE TimerInv' /\ EndedStays
    <2>1. mTimer[t] # Null /\ StopTicking(t, "stopped") /\ UNCHANGED <<now, heap, expiring>>
      BY <1>1 DEF Stop
    <2>2. "stopped" \in Outcomes
      BY DEF Outcomes
    <2> QED
      BY <2>1, <2>2, StopStep
  <1>2. ASSUME NEW t \in Timers, NEW delay \in Delays, Start(t, delay) PROVE TimerInv' /\ EndedStays
    BY <1>2, StartStep
  <1>3. CASE ProcPush
    BY <1>3, PushStep
  <1>4. CASE ProcRemove
    BY <1>4, FreeStep
  <1>5. CASE PopFirst \/ popIfOutRanks \/ ReadClient
    BY <1>5, ExpiryStep
  <1>6. CASE Call
    BY <1>6, CallStep
  <1>7. CASE ProcExpireEnds \/ PollTask \/ Tick \/ UNCHANGED timerVars
    BY <1>7, OtherStep
  <1> QED
    BY <1>1, <1>2, <1>3, <1>4, <1>5, <1>6, <1>7 DEF TimerNext, Container

\* For any number of timers, starts and delays: the heap and the expiry only hold
\* delegates that are allocated, and a LocTimer and its delegate point at each other.
THEOREM TimersStayAlive == TimerSpec => []TimersAlive
  <1>1. TimerInv => TimersAlive
    BY DEF TimerInv, ExpiryAlive, HoldersAlive, TimersAlive
  <1> QED
    BY <1>1, TimerInvInit, TimerStep, PTL DEF TimerSpec

\* A start that was stopped is never called back, and one called back is never stopped.
THEOREM StartsEndOnce == TimerSpec => EndsOnce
  <1>1. TimerInv /\ [TimerNext]_timerVars =>
          [\A d \in Delegates : outcome[d] # "ticking" => outcome'[d] = outcome[d]]_timerVars
    BY TimerStep DEF EndedStays
  <1> QED
    BY <1>1, TimerInvInit, TimerStep, PTL DEF TimerSpec, EndsOnce

-----------------------------------------------------------------------------
(* The heap: ways through a tree.                                          *)

Paths == Seq(Sides)

LEMMA AboveIs ==
  ASSUME NEW q \in Paths, NEW k \in 0 .. Len(q)
  PROVE  Above(q, k) \in Paths /\ Len(Above(q, k)) = k /\ \A i \in 1 .. k : Above(q, k)[i] = q[i]
  BY DEF Paths, Above

\* Two ways are the same when they take the same sides.
LEMMA SameWay ==
  ASSUME NEW p \in Paths, NEW q \in Paths, Len(p) = Len(q), \A i \in 1 .. Len(p) : p[i] = q[i]
  PROVE  p = q
  BY DEF Paths

LEMMA AboveAbove ==
  ASSUME NEW q \in Paths, NEW j \in 0 .. Len(q), NEW k \in 0 .. j
  PROVE  Above(Above(q, j), k) = Above(q, k)
  <1>1. Above(q, j) \in Paths /\ Len(Above(q, j)) = j /\ \A i \in 1 .. j : Above(q, j)[i] = q[i]
    BY AboveIs
  <1>2. k \in 0 .. Len(q) /\ k \in 0 .. Len(Above(q, j)) /\ 1 .. k \subseteq 1 .. j
    BY <1>1
  <1>3. /\ Above(Above(q, j), k) \in Paths /\ Len(Above(Above(q, j), k)) = k
        /\ \A i \in 1 .. k : Above(Above(q, j), k)[i] = Above(q, j)[i]
    BY <1>1, <1>2, AboveIs
  <1>4. Above(q, k) \in Paths /\ Len(Above(q, k)) = k /\ \A i \in 1 .. k : Above(q, k)[i] = q[i]
    BY <1>2, AboveIs
  <1> QED
    BY <1>1, <1>2, <1>3, <1>4, SameWay

LEMMA AboveEnds ==
  ASSUME NEW q \in Paths
  PROVE  Above(q, Len(q)) = q /\ Above(q, 0) = <<>> /\ <<>> \in Paths /\ Len(q) \in Nat /\ Len(<<>>) = 0
  <1>1. Len(q) \in Nat /\ <<>> \in Paths /\ Len(<<>>) = 0
    BY DEF Paths
  <1>2. Above(q, Len(q)) = q
    BY <1>1, AboveIs, SameWay
  <1>3. Above(q, 0) = <<>>
    BY <1>1, AboveIs, SameWay
  <1> QED
    BY <1>1, <1>2, <1>3

LEMMA ChildIs ==
  ASSUME NEW p \in Paths, NEW side \in Sides
  PROVE  /\ Append(p, side) \in Paths /\ Len(Append(p, side)) = Len(p) + 1
         /\ Append(p, side)[Len(p) + 1] = side
         /\ \A k \in 0 .. Len(p) : Above(Append(p, side), k) = Above(p, k)
         /\ Above(Append(p, side), Len(p)) = p
  <1> DEFINE c == Append(p, side)
  <1>1. c \in Paths /\ Len(c) = Len(p) + 1 /\ c[Len(p) + 1] = side /\ \A i \in 1 .. Len(p) : c[i] = p[i]
    BY DEF Paths
  <1>2. Len(p) \in Nat
    BY AboveEnds
  <1> HIDE DEF c
  <1>3. ASSUME NEW k \in 0 .. Len(p) PROVE Above(c, k) = Above(p, k)
    <2>1. k \in 0 .. Len(c) /\ 1 .. k \subseteq 1 .. Len(p)
      BY <1>1, <1>2
    <2>2. Above(c, k) \in Paths /\ Len(Above(c, k)) = k /\ \A i \in 1 .. k : Above(c, k)[i] = c[i]
      BY <1>1, <2>1, AboveIs
    <2>3. Above(p, k) \in Paths /\ Len(Above(p, k)) = k /\ \A i \in 1 .. k : Above(p, k)[i] = p[i]
      BY AboveIs
    <2> QED
      BY <1>1, <2>1, <2>2, <2>3, SameWay
  <1>4. Above(c, Len(p)) = p
    BY <1>2, <1>3, AboveEnds
  <1> QED
    BY <1>1, <1>3, <1>4 DEF c

LEMMA StepDown ==
  ASSUME NEW q \in Paths, NEW k \in 0 .. Len(q) - 1
  PROVE  q[k + 1] \in Sides /\ Above(q, k + 1) = Append(Above(q, k), q[k + 1])
  <1>1. Len(q) \in Nat /\ k \in 0 .. Len(q) /\ k + 1 \in 0 .. Len(q) /\ k + 1 \in 1 .. Len(q)
    BY AboveEnds
  <1>2. q[k + 1] \in Sides
    BY <1>1 DEF Paths
  <1> DEFINE a == Above(q, k)
             b == Above(q, k + 1)
             c == Append(a, q[k + 1])
  <1>3. a \in Paths /\ Len(a) = k /\ \A i \in 1 .. k : a[i] = q[i]
    BY <1>1, AboveIs
  <1>4. b \in Paths /\ Len(b) = k + 1 /\ \A i \in 1 .. k + 1 : b[i] = q[i]
    BY <1>1, AboveIs
  <1>5. c \in Paths /\ Len(c) = k + 1 /\ c[k + 1] = q[k + 1] /\ \A i \in 1 .. k : c[i] = a[i]
    <2> HIDE DEF a
    <2> QED
      BY <1>2, <1>3 DEF Paths
  <1>6. \A i \in 1 .. k + 1 : c[i] = b[i]
    <2> HIDE DEF a, b, c
    <2> QED
      BY <1>1, <1>3, <1>4, <1>5
  <1>7. b = c
    <2> HIDE DEF a, b, c
    <2> QED
      BY <1>4, <1>5, <1>6, SameWay
  <1> QED
    BY <1>2, <1>7

LEMMA UnderFacts ==
  ASSUME NEW p \in Paths, NEW x \in Paths, NEW q \in Paths
  PROVE  /\ Under(p, p) /\ Under(<<>>, p)
         /\ Under(p, x) /\ Under(x, q) => Under(p, q)
         /\ Under(p, q) /\ Under(x, q) /\ Len(p) <= Len(x) => Under(p, x)
         /\ Under(p, x) /\ Under(x, p) => p = x
         /\ Under(p, x) => Len(p) <= Len(x) /\ (Len(p) = Len(x) => p = x)
  <1>1. /\ Len(p) \in Nat /\ Len(x) \in Nat /\ Len(q) \in Nat /\ Len(<<>>) = 0 /\ <<>> \in Paths
        /\ Above(p, Len(p)) = p /\ Above(p, 0) = <<>> /\ Above(x, Len(x)) = x
    BY AboveEnds
  <1>2. Under(p, x) => Len(p) <= Len(x) /\ (Len(p) = Len(x) => p = x)
    BY <1>1 DEF Under
  <1>3. Len(p) <= Len(x) /\ Len(x) <= Len(q) => Above(Above(q, Len(x)), Len(p)) = Above(q, Len(p))
    <2> SUFFICES ASSUME Len(p) <= Len(x), Len(x) <= Len(q)
                 PROVE  Above(Above(q, Len(x)), Len(p)) = Above(q, Len(p))
      OBVIOUS
    <2>1. Len(x) \in 0 .. Len(q) /\ Len(p) \in 0 .. Len(x)
      BY <1>1
    <2> QED
      BY <2>1, AboveAbove
  <1>4. Under(p, x) /\ Under(x, q) => Under(p, q)
    BY <1>1, <1>3 DEF Under
  <1>5. Under(p, q) /\ Under(x, q) /\ Len(p) <= Len(x) => Under(p, x)
    BY <1>1, <1>3 DEF Under
  <1>6. Under(p, x) /\ Under(x, p) => p = x
    BY <1>1, <1>2 DEF Under
  <1>7. Under(p, p) /\ Under(<<>>, p)
    BY <1>1 DEF Under
  <1> QED
    BY <1>2, <1>4, <1>5, <1>6, <1>7

LEMMA UnderAbove ==
  ASSUME NEW q \in Paths, NEW k \in 0 .. Len(q)
  PROVE  Under(Above(q, k), q) /\ \A p \in Paths : Under(p, q) => p = Above(q, Len(p)) /\ Len(p) \in 0 .. Len(q)
  <1>1. Above(q, k) \in Paths /\ Len(Above(q, k)) = k /\ Len(q) \in Nat
    BY AboveIs, AboveEnds
  <1>2. \A p \in Paths : Len(p) \in Nat
    BY AboveEnds
  <1> QED
    BY <1>1, <1>2 DEF Under

\* What is above a child is the child or is above its parent.
LEMMA UnderChild ==
  ASSUME NEW p \in Paths, NEW x \in Paths, NEW side \in Sides
  PROVE  Under(p, Append(x, side)) <=> p = Append(x, side) \/ Under(p, x)
  <1> DEFINE c == Append(x, side)
  <1>1. c \in Paths /\ Len(c) = Len(x) + 1 /\ \A k \in 0 .. Len(x) : Above(c, k) = Above(x, k)
    BY ChildIs
  <1>2. Len(p) \in Nat /\ Len(x) \in Nat /\ Above(c, Len(c)) = c
    BY <1>1, AboveEnds
  <1> HIDE DEF c
  <1>3. CASE Len(p) <= Len(x)
    <2>1. Len(p) \in 0 .. Len(x) /\ Len(p) # Len(c)
      BY <1>1, <1>2, <1>3
    <2> QED
      BY <1>1, <1>2, <1>3, <2>1 DEF Under, c
  <1>4. CASE Len(p) > Len(x)
    BY <1>1, <1>2, <1>4 DEF Under, c
  <1> QED
    BY <1>2, <1>3, <1>4

-----------------------------------------------------------------------------
(* The heap: the tree in order, counted, and without a datum twice.        *)

TreeOf(t) ==
  /\ IsFiniteSet(DOMAIN t) /\ DOMAIN t \subseteq Paths
  /\ \A p \in DOMAIN t : t[p].data \in Items /\ t[p].size \in Int
  /\ \A p \in DOMAIN t : \A k \in 0 .. Len(p) : Above(p, k) \in DOMAIN t
OrderedIn(t) ==
  \A p \in DOMAIN t, side \in Sides :
    Append(p, side) \in DOMAIN t => Rank[t[Append(p, side)].data] <= Rank[t[p].data]
CountedIn(t) == \A p \in DOMAIN t : t[p].size = Cardinality({x \in DOMAIN t : Under(p, x)})
DistinctIn(t) == \A p, x \in DOMAIN t : t[p].data = t[x].data => p = x
HeapOf(t) == TreeOf(t) /\ OrderedIn(t) /\ CountedIn(t) /\ DistinctIn(t)
HeapInv == HeapOf(mTree)

LEMMA Ranked ==
  ASSUME NEW d \in Items, NEW e \in Items
  PROVE  Rank[d] \in Int /\ Rank[e] \in Int /\ (outRanks(d, e) <=> Rank[d] > Rank[e])
         /\ (~outRanks(d, e) <=> Rank[d] <= Rank[e])
  BY HeapAssumption DEF outRanks

\* A set with 0 and with the successor of each of its numbers below n has all up to n.
LEMMA AllUpTo ==
  ASSUME NEW n \in Nat, NEW S, 0 \in S, \A i \in 0 .. n - 1 : i \in S => i + 1 \in S
  PROVE  \A i \in 0 .. n : i \in S
  <1> DEFINE Wrong == {i \in 0 .. n : i \notin S}
  <1> SUFFICES ASSUME Wrong # {} PROVE FALSE
    OBVIOUS
  <1>1. Wrong \in SUBSET Nat
    OBVIOUS
  <1>2. PICK i \in Wrong : \A j \in Wrong : i <= j
    <2> HIDE DEF Wrong
    <2> QED
      BY <1>1, LeastNatural
  <1>3. i # 0 /\ i \in 0 .. n /\ i \notin S
    BY <1>2
  <1>4. i - 1 \in 0 .. n - 1 /\ i - 1 \in 0 .. n /\ i - 1 + 1 = i
    BY <1>3
  <1>5. i - 1 \notin S
    BY <1>3, <1>4
  <1> QED
    BY <1>2, <1>3, <1>4, <1>5

\* No node is outranked by one under it: were it, the lowest such above it would be
\* outranked by the next.
LEMMA OrderedAll ==
  ASSUME NEW t, TreeOf(t), OrderedIn(t), NEW q \in DOMAIN t, NEW k \in 0 .. Len(q)
  PROVE  Above(q, k) \in DOMAIN t /\ Rank[t[q].data] <= Rank[t[Above(q, k)].data]
  <1>1. q \in Paths /\ Len(q) \in Nat /\ Above(q, Len(q)) = q
    BY AboveEnds DEF TreeOf
  <1>2. \A i \in 0 .. Len(q) : Above(q, i) \in DOMAIN t
    BY DEF TreeOf
  <1>3. \A p \in DOMAIN t : Rank[t[p].data] \in Int
    BY Ranked DEF TreeOf
  <1> DEFINE R(i) == Rank[t[Above(q, Len(q) - i)].data]
             Right == {i \in 0 .. Len(q) : Rank[t[q].data] <= R(i)}
  <1>4. \A i \in 0 .. Len(q) : R(i) \in Int
    <2> TAKE i \in 0 .. Len(q)
    <2>1. Len(q) - i \in 0 .. Len(q)
      BY <1>1
    <2> QED
      BY <1>2, <1>3, <2>1
  <1>5. R(0) = Rank[t[q].data]
    BY <1>1
  <1>6. \A i \in 0 .. Len(q) - 1 : R(i) <= R(i + 1)
    <2> TAKE i \in 0 .. Len(q) - 1
    <2> DEFINE j == Len(q) - (i + 1)
    <2>1. j \in 0 .. Len(q) - 1 /\ j \in 0 .. Len(q) /\ j + 1 = Len(q) - i /\ j + 1 \in 0 .. Len(q)
      BY <1>1
    <2>2. q[j + 1] \in Sides /\ Above(q, j + 1) = Append(Above(q, j), q[j + 1])
      BY <1>1, <2>1, StepDown
    <2>3. Above(q, j) \in DOMAIN t /\ Append(Above(q, j), q[j + 1]) \in DOMAIN t
      BY <1>2, <2>1, <2>2
    <2>4. Rank[t[Above(q, j + 1)].data] <= Rank[t[Above(q, j)].data]
      BY <2>2, <2>3 DEF OrderedIn
    <2> QED
      BY <2>1, <2>4
  <1>7. \A i \in 0 .. Len(q) : i \in Right
    <2> HIDE DEF R
    <2>1. 0 \in Right
      BY <1>1, <1>3, <1>5
    <2>2. \A i \in 0 .. Len(q) - 1 : i \in Right => i + 1 \in Right
      <3> TAKE i \in 0 .. Len(q) - 1
      <3>1. i \in 0 .. Len(q) /\ i + 1 \in 0 .. Len(q)
        BY <1>1
      <3> QED
        BY <1>3, <1>4, <1>6, <3>1
    <2> HIDE DEF Right
    <2> QED
      BY <1>1, <2>1, <2>2, AllUpTo
  <1>8. Len(q) - k \in 0 .. Len(q) /\ Len(q) - (Len(q) - k) = k
    BY <1>1
  <1>9. R(Len(q) - k) >= Rank[t[q].data]
    <2> HIDE DEF R
    <2> QED
      BY <1>3, <1>4, <1>7, <1>8
  <1> QED
    BY <1>2, <1>8, <1>9

\* Going along the children leads from p to what is under it.
LEMMA WayDown ==
  ASSUME NEW t, TreeOf(t), NEW q \in Paths, NEW k \in 0 .. Len(q) - 1, Above(q, k + 1) \in DOMAIN t
  PROVE  Above(q, k) \in DOMAIN t
  <1>1. Len(q) \in Nat /\ k \in 0 .. k + 1 /\ k + 1 \in 0 .. Len(q)
    BY AboveEnds
  <1>2. Len(Above(q, k + 1)) = k + 1 /\ Above(Above(q, k + 1), k) = Above(q, k)
    BY <1>1, AboveIs, AboveAbove
  <1> QED
    BY <1>1, <1>2 DEF TreeOf

-----------------------------------------------------------------------------
(* The heap: push.                                                         *)

\* t becomes u by the push of d, whose node goes to q.
Pushes(t, d, q, carried, u) ==
  /\ d \in Items /\ d \notin TreeData(t) /\ q \in PushEnds(t) /\ carried \in CarriedDown(t, d, q)
  /\ u = PushNode(t, q, carried)

LEMMA PushedNode ==
  ASSUME NEW t, NEW d, NEW q, NEW carried, NEW u, HeapOf(t), Pushes(t, d, q, carried, u)
  PROVE  /\ q \in Paths /\ q \notin DOMAIN t /\ Len(q) \in Nat
         /\ \A k \in 0 .. Len(q) - 1 : Above(q, k) \in DOMAIN t
         /\ \A x \in DOMAIN t : ~Under(q, x)
  <1>1. DOMAIN t \subseteq Paths /\ \A p \in DOMAIN t : \A k \in 0 .. Len(p) : Above(p, k) \in DOMAIN t
    BY DEF HeapOf, TreeOf
  <1>2. q \in Free(t)
    BY DEF Pushes, PushEnds
  <1>3. CASE DOMAIN t = {}
    <2>1. q = <<>> /\ q \in Paths
      BY <1>2, <1>3 DEF Free, Paths
    <2> QED
      BY <1>3, <2>1, AboveEnds
  <1>4. CASE DOMAIN t # {}
    <2>1. PICK p \in DOMAIN t, side \in Sides : q = Append(p, side)
      BY <1>2, <1>4 DEF Free
    <2>2. q \notin DOMAIN t
      BY <1>2, <1>4 DEF Free
    <2>3. p \in Paths /\ q \in Paths /\ Len(q) = Len(p) + 1 /\ \A k \in 0 .. Len(p) : Above(q, k) = Above(p, k)
      BY <1>1, <2>1, ChildIs
    <2>4. Len(p) \in Nat /\ Len(q) \in Nat
      BY <2>3, AboveEnds
    <2>5. \A k \in 0 .. Len(q) - 1 : Above(q, k) \in DOMAIN t
      <3> TAKE k \in 0 .. Len(q) - 1
      <3>1. k \in 0 .. Len(p)
        BY <2>3, <2>4
      <3> QED
        BY <1>1, <2>3, <3>1
    <2>6. \A x \in DOMAIN t : ~Under(q, x)
      <3> SUFFICES ASSUME NEW x \in DOMAIN t, Under(q, x) PROVE FALSE
        OBVIOUS
      <3>1. x \in Paths /\ q = Above(x, Len(q)) /\ Len(q) \in 0 .. Len(x)
        BY <1>1, <2>3, UnderAbove, AboveEnds DEF Under
      <3> QED
        BY <1>1, <2>2, <3>1
    <2> QED
      BY <2>2, <2>3, <2>4, <2>5, <2>6
  <1> QED
    BY <1>3, <1>4

\* What the push makes of each node.
Grown(t, d, q, carried, u) ==
  /\ DOMAIN u = DOMAIN t \cup {q}
  /\ u[q] = Node(carried[Len(q)])
  /\ \A k \in 0 .. Len(q) : carried[k] \in Items
  /\ carried[0] = d
  /\ \A k \in 0 .. Len(q) - 1 : carried[k + 1] = Lower(carried[k], t[Above(q, k)].data)
  /\ \A p \in DOMAIN t : Under(p, q) =>
       /\ u[p] = [data |-> Higher(carried[Len(p)], t[p].data), size |-> t[p].size + 1]
       /\ Len(p) \in 0 .. Len(q) - 1 /\ p = Above(q, Len(p))
       /\ t[p].data \in Items /\ carried[Len(p)] \in Items
  /\ \A p \in DOMAIN t : ~Under(p, q) => u[p] = t[p]

LEMMA PushedData ==
  ASSUME NEW t, NEW d, NEW q, NEW carried, NEW u, HeapOf(t), Pushes(t, d, q, carried, u)
  PROVE  Grown(t, d, q, carried, u)
  <1>1. /\ q \in Paths /\ q \notin DOMAIN t /\ Len(q) \in Nat /\ DOMAIN t \subseteq Paths
        /\ \A p \in DOMAIN t : t[p].data \in Items
    BY PushedNode DEF HeapOf, TreeOf
  <1>2. /\ DOMAIN u = DOMAIN t \cup {q} /\ u[q] = Node(carried[Len(q)])
        /\ \A p \in DOMAIN t : Under(p, q) =>
             u[p] = [data |-> Higher(carried[Len(p)], t[p].data), size |-> t[p].size + 1]
        /\ \A p \in DOMAIN t : ~Under(p, q) => u[p] = t[p]
    BY <1>1 DEF Pushes, PushNode
  <1>3. /\ \A k \in 0 .. Len(q) : carried[k] \in Items
        /\ carried[0] = d
        /\ \A k \in 0 .. Len(q) - 1 : carried[k + 1] = Lower(carried[k], t[Above(q, k)].data)
    BY DEF Pushes, CarriedDown
  <1>4. \A p \in DOMAIN t : Under(p, q) => Len(p) \in 0 .. Len(q) - 1 /\ p = Above(q, Len(p))
    <2> SUFFICES ASSUME NEW p \in DOMAIN t, Under(p, q)
                 PROVE  Len(p) \in 0 .. Len(q) - 1 /\ p = Above(q, Len(p))
      OBVIOUS
    <2>1. p \in Paths /\ p # q /\ Len(p) \in Nat
      BY <1>1, AboveEnds
    <2>2. Len(p) <= Len(q) /\ (Len(p) = Len(q) => p = q) /\ p = Above(q, Len(p))
      BY <1>1, <2>1, UnderFacts DEF Under
    <2> QED
      BY <1>1, <2>1, <2>2
  <1>5. \A p \in DOMAIN t : Under(p, q) => carried[Len(p)] \in Items
    BY <1>1, <1>3, <1>4
  <1> QED
    BY <1>1, <1>2, <1>3, <1>4, <1>5 DEF Grown

LEMMA HigherLower ==
  ASSUME NEW d \in Items, NEW e \in Items
  PROVE  /\ Higher(d, e) \in Items /\ Lower(d, e) \in Items
         /\ Rank[Lower(d, e)] <= Rank[Higher(d, e)] /\ Rank[d] <= Rank[Higher(d, e)] /\ Rank[e] <= Rank[Higher(d, e)]
         /\ {Higher(d, e), Lower(d, e)} = {d, e}
  BY Ranked DEF Higher, Lower

LEMMA PushTree ==
  ASSUME NEW t, NEW d, NEW q, NEW carried, NEW u, HeapOf(t), Pushes(t, d, q, carried, u)
  PROVE  TreeOf(u)
  <1>1. /\ IsFiniteSet(DOMAIN t) /\ DOMAIN t \subseteq Paths
        /\ \A p \in DOMAIN t : t[p].data \in Items /\ t[p].size \in Int
        /\ \A p \in DOMAIN t : \A k \in 0 .. Len(p) : Above(p, k) \in DOMAIN t
    BY DEF HeapOf, TreeOf
  <1>2. q \in Paths /\ Len(q) \in Nat /\ \A k \in 0 .. Len(q) - 1 : Above(q, k) \in DOMAIN t
    BY PushedNode
  <1>g. Grown(t, d, q, carried, u)
    BY PushedData
  <1>3. DOMAIN u = DOMAIN t \cup {q}
    BY <1>g DEF Grown
  <1>4. IsFiniteSet(DOMAIN u)
    BY <1>1, <1>3, FS_AddElement
  <1>5. \A p \in DOMAIN u : \A k \in 0 .. Len(p) : Above(p, k) \in DOMAIN u
    <2> SUFFICES ASSUME NEW p \in DOMAIN u, NEW k \in 0 .. Len(p) PROVE Above(p, k) \in DOMAIN u
      OBVIOUS
    <2>1. CASE p \in DOMAIN t
      BY <1>1, <1>3, <2>1
    <2>2. CASE p = q /\ k = Len(q)
      BY <1>2, <1>3, <2>2, AboveEnds
    <2>3. CASE p = q /\ k # Len(q)
      <3>1. k \in 0 .. Len(q) - 1
        BY <1>2, <2>3
      <3> QED
        BY <1>2, <1>3, <2>3, <3>1
    <2> QED
      BY <1>3, <2>1, <2>2, <2>3
  <1>6. \A p \in DOMAIN u : u[p].data \in Items /\ u[p].size \in Int
    <2> SUFFICES ASSUME NEW p \in DOMAIN u PROVE u[p].data \in Items /\ u[p].size \in Int
      OBVIOUS
    <2>1. CASE p = q
      <3>1. u[p] = Node(carried[Len(q)]) /\ carried[Len(q)] \in Items
        BY <1>2, <2>1, <1>g DEF Grown
      <3> QED
        BY <3>1 DEF Node
    <2>2. CASE p \in DOMAIN t /\ Under(p, q)
      <3>1. /\ u[p] = [data |-> Higher(carried[Len(p)], t[p].data), size |-> t[p].size + 1]
            /\ t[p].data \in Items /\ carried[Len(p)] \in Items
        BY <2>2, <1>g DEF Grown
      <3>2. Higher(carried[Len(p)], t[p].data) \in Items
        BY <3>1, HigherLower
      <3> QED
        BY <1>1, <2>2, <3>1, <3>2
    <2>3. CASE p \in DOMAIN t /\ ~Under(p, q)
      <3>1. u[p] = t[p]
        BY <2>3, <1>g DEF Grown
      <3> QED
        BY <1>1, <2>3, <3>1
    <2> QED
      BY <1>3, <2>1, <2>2, <2>3
  <1> QED
    BY <1>1, <1>2, <1>3, <1>4, <1>5, <1>6 DEF TreeOf

LEMMA PushCounted ==
  ASSUME NEW t, NEW d, NEW q, NEW carried, NEW u, HeapOf(t), Pushes(t, d, q, carried, u)
  PROVE  CountedIn(u)
  <1>1. /\ IsFiniteSet(DOMAIN t) /\ DOMAIN t \subseteq Paths
        /\ \A p \in DOMAIN t : t[p].size = Cardinality({x \in DOMAIN t : Under(p, x)})
    BY DEF HeapOf, TreeOf, CountedIn
  <1>2. q \in Paths /\ q \notin DOMAIN t /\ \A x \in DOMAIN t : ~Under(q, x)
    BY PushedNode
  <1>g. Grown(t, d, q, carried, u)
    BY PushedData
  <1>3. DOMAIN u = DOMAIN t \cup {q}
    BY <1>g DEF Grown
  <1> SUFFICES ASSUME NEW p \in DOMAIN u
               PROVE  u[p].size = Cardinality({x \in DOMAIN u : Under(p, x)})
    BY DEF CountedIn
  <1> DEFINE Was == {x \in DOMAIN t : Under(p, x)}
             Is == {x \in DOMAIN u : Under(p, x)}
  <1>4. IsFiniteSet(Was) /\ q \notin Was
    BY <1>1, <1>2, FS_Subset
  <1>5. CASE p = q
    <2>1. Is = {q}
      BY <1>2, <1>3, <1>5, UnderFacts
    <2>2. Cardinality(Is) = 1
      BY <2>1, FS_Singleton
    <2>3. u[p].size = 1
      BY <1>5, <1>g DEF Node, Grown
    <2> QED
      BY <2>2, <2>3
  <1>6. CASE p \in DOMAIN t /\ Under(p, q)
    <2>1. Is = Was \cup {q}
      BY <1>3, <1>6
    <2>2. Cardinality(Is) = Cardinality(Was) + 1
      <3> HIDE DEF Is, Was
      <3> QED
        BY <1>4, <2>1, FS_AddElement
    <2>3. u[p].size = t[p].size + 1
      BY <1>6, <1>g DEF Grown
    <2> QED
      BY <1>1, <1>6, <2>2, <2>3
  <1>7. CASE p \in DOMAIN t /\ ~Under(p, q)
    <2>1. Is = Was
      BY <1>3, <1>7
    <2>2. u[p] = t[p]
      BY <1>7, <1>g DEF Grown
    <2> QED
      BY <1>1, <1>7, <2>1, <2>2
  <1> QED
    BY <1>3, <1>5, <1>6, <1>7

LEMMA PushOrdered ==
  ASSUME NEW t, NEW d, NEW q, NEW carried, NEW u, HeapOf(t), Pushes(t, d, q, carried, u)
  PROVE  OrderedIn(u)
  <1>1. /\ DOMAIN t \subseteq Paths /\ \A p \in DOMAIN t : t[p].data \in Items
        /\ \A p \in DOMAIN t : \A k \in 0 .. Len(p) : Above(p, k) \in DOMAIN t
        /\ OrderedIn(t)
    BY DEF HeapOf, TreeOf
  <1>2. /\ q \in Paths /\ q \notin DOMAIN t /\ Len(q) \in Nat /\ \A x \in DOMAIN t : ~Under(q, x)
        /\ \A k \in 0 .. Len(q) - 1 : Above(q, k) \in DOMAIN t
    BY PushedNode
  <1>g. Grown(t, d, q, carried, u)
    BY PushedData
  <1> SUFFICES ASSUME NEW p \in DOMAIN u, NEW side \in Sides, Append(p, side) \in DOMAIN u
               PROVE  Rank[u[Append(p, side)].data] <= Rank[u[p].data]
    BY DEF OrderedIn
  <1> DEFINE c == Append(p, side)
             k == Len(p)
  <1>3. p \in Paths /\ c \in DOMAIN u /\ DOMAIN u = DOMAIN t \cup {q}
    BY <1>1, <1>2, <1>g DEF Grown
  <1>4. c \in Paths /\ Len(c) = k + 1 /\ Above(c, k) = p /\ k \in Nat /\ Under(p, c) /\ ~Under(c, p)
    <2>1. c \in Paths /\ Len(c) = k + 1 /\ Above(c, k) = p /\ k \in Nat
      BY <1>3, ChildIs, AboveEnds
    <2> HIDE DEF c
    <2> QED
      BY <1>3, <2>1 DEF Under
  <1> HIDE DEF c
  <1>5. p \in DOMAIN t
    <2>1. CASE c = q
      <3>1. k \in 0 .. Len(q) - 1
        BY <1>2, <1>4, <2>1
      <3> QED
        BY <1>2, <1>4, <2>1, <3>1
    <2>2. CASE c \in DOMAIN t
      BY <1>1, <1>4, <2>2
    <2> QED
      BY <1>3, <2>1, <2>2
  <1>6. t[p].data \in Items /\ (c \in DOMAIN t => t[c].data \in Items /\ Rank[t[c].data] <= Rank[t[p].data])
    BY <1>1, <1>5 DEF OrderedIn, c
  <1>7. CASE Under(p, q)
    <2>1. /\ u[p].data = Higher(carried[k], t[p].data) /\ k \in 0 .. Len(q) - 1 /\ p = Above(q, k)
          /\ carried[k] \in Items /\ carried[k + 1] = Lower(carried[k], t[p].data)
      BY <1>5, <1>7, <1>g DEF Grown
    <2>2. /\ Higher(carried[k], t[p].data) \in Items /\ carried[k + 1] \in Items
          /\ Rank[carried[k + 1]] <= Rank[u[p].data] /\ Rank[t[p].data] <= Rank[u[p].data]
      BY <1>6, <2>1, HigherLower
    <2>3. CASE c = q
      <3>1. u[c].data = carried[k + 1]
        BY <1>4, <2>3, <1>g DEF Grown, Node
      <3> QED
        BY <2>2, <3>1 DEF c
    <2>4. CASE c \in DOMAIN t /\ Under(c, q)
      <3>1. u[c].data = Higher(carried[k + 1], t[c].data)
        BY <1>4, <2>4, <1>g DEF Grown
      <3>2. Higher(carried[k + 1], t[c].data) \in {carried[k + 1], t[c].data}
        BY DEF Higher
      <3>3. Rank[t[c].data] <= Rank[u[p].data]
        <4>1. Rank[t[c].data] \in Int /\ Rank[t[p].data] \in Int /\ Rank[u[p].data] \in Int
          BY <1>6, <2>1, <2>2, <2>4, Ranked
        <4> QED
          BY <1>6, <2>2, <2>4, <4>1
      <3> QED
        BY <2>2, <3>1, <3>2, <3>3 DEF c
    <2>5. CASE c \in DOMAIN t /\ ~Under(c, q)
      <3>1. u[c] = t[c]
        BY <2>5, <1>g DEF Grown
      <3>2. Rank[t[c].data] \in Int /\ Rank[t[p].data] \in Int /\ Rank[u[p].data] \in Int
        BY <1>6, <2>1, <2>2, <2>5, Ranked
      <3> QED
        BY <1>6, <2>2, <2>5, <3>1, <3>2 DEF c
    <2> QED
      BY <1>3, <2>3, <2>4, <2>5
  <1>8. CASE ~Under(p, q)
    <2>1. ~Under(c, q) /\ c # q /\ c \in DOMAIN t
      BY <1>2, <1>3, <1>4, <1>8, UnderFacts
    <2>2. u[c] = t[c] /\ u[p] = t[p]
      BY <1>5, <1>8, <2>1, <1>g DEF Grown
    <2> QED
      BY <1>6, <2>1, <2>2 DEF c
  <1> QED
    BY <1>7, <1>8

\* The datum joins the others: the last node has what was carried down, and so what was
\* carried to any depth is in the tree.
LEMMA PushJoins ==
  ASSUME NEW t, NEW d, NEW q, NEW carried, NEW u, HeapOf(t), Pushes(t, d, q, carried, u)
  PROVE  TreeData(u) = TreeData(t) \cup {d}
  <1>1. DOMAIN t \subseteq Paths /\ \A p \in DOMAIN t : t[p].data \in Items
    BY DEF HeapOf, TreeOf
  <1>2. /\ q \in Paths /\ q \notin DOMAIN t /\ Len(q) \in Nat
        /\ \A k \in 0 .. Len(q) - 1 : Above(q, k) \in DOMAIN t
    BY PushedNode
  <1>g. Grown(t, d, q, carried, u)
    BY PushedData
  <1>3. ASSUME NEW k \in 0 .. Len(q) - 1
        PROVE  /\ Above(q, k) \in DOMAIN t /\ k \in 0 .. Len(q) /\ k + 1 \in 0 .. Len(q)
               /\ u[Above(q, k)].data = Higher(carried[k], t[Above(q, k)].data)
               /\ carried[k + 1] = Lower(carried[k], t[Above(q, k)].data)
               /\ {u[Above(q, k)].data, carried[k + 1]} = {carried[k], t[Above(q, k)].data}
    <2>1. k \in 0 .. Len(q) /\ k + 1 \in 0 .. Len(q) /\ Above(q, k) \in DOMAIN t
      BY <1>2
    <2>2. Len(Above(q, k)) = k /\ Under(Above(q, k), q)
      BY <1>2, <2>1, AboveIs, UnderAbove
    <2>3. /\ u[Above(q, k)].data = Higher(carried[k], t[Above(q, k)].data)
          /\ t[Above(q, k)].data \in Items /\ carried[k] \in Items
      BY <2>1, <2>2, <1>g DEF Grown
    <2>4. carried[k + 1] = Lower(carried[k], t[Above(q, k)].data)
      BY <1>g DEF Grown
    <2>5. {Higher(carried[k], t[Above(q, k)].data), Lower(carried[k], t[Above(q, k)].data)}
            = {carried[k], t[Above(q, k)].data}
      BY <2>3, HigherLower
    <2> QED
      BY <2>1, <2>3, <2>4, <2>5
  <1>4. \A k \in 0 .. Len(q) : carried[k] \in TreeData(t) \cup {d}
    <2> DEFINE From == {k \in Nat : carried[k] \in TreeData(t) \cup {d}}
    <2>1. 0 \in From
      BY <1>g DEF Grown
    <2>2. \A k \in 0 .. Len(q) - 1 : k \in From => k + 1 \in From
      <3> SUFFICES ASSUME NEW k \in 0 .. Len(q) - 1, k \in From PROVE k + 1 \in From
        OBVIOUS
      <3>1. carried[k + 1] \in {carried[k], t[Above(q, k)].data} /\ Above(q, k) \in DOMAIN t
        BY <1>3
      <3> QED
        BY <3>1 DEF TreeData
    <2> HIDE DEF From
    <2>3. \A k \in 0 .. Len(q) : k \in From
      BY <1>2, <2>1, <2>2, AllUpTo
    <2> QED
      BY <2>3 DEF From
  <1>5. \A k \in 0 .. Len(q) : carried[k] \in TreeData(u)
    <2> DEFINE n == Len(q)
               In == {i \in Nat : carried[n - i] \in TreeData(u)}
    <2>1. 0 \in In
      <3>1. u[q].data = carried[n] /\ q \in DOMAIN u
        BY <1>g DEF Grown, Node
      <3> QED
        BY <1>2, <3>1 DEF TreeData
    <2>2. \A i \in 0 .. n - 1 : i \in In => i + 1 \in In
      <3> SUFFICES ASSUME NEW i \in 0 .. n - 1, i \in In PROVE i + 1 \in In
        OBVIOUS
      <3> DEFINE k == n - (i + 1)
      <3>1. k \in 0 .. n - 1 /\ k + 1 = n - i /\ i + 1 \in Nat
        BY <1>2
      <3>2. {u[Above(q, k)].data, carried[k + 1]} = {carried[k], t[Above(q, k)].data} /\ Above(q, k) \in DOMAIN u
        <4> HIDE DEF k
        <4> QED
          BY <1>3, <3>1, <1>g DEF Grown
      <3>3. carried[k] \in TreeData(u)
        <4>1. carried[k + 1] \in TreeData(u) /\ u[Above(q, k)].data \in TreeData(u)
          BY <3>1, <3>2 DEF TreeData
        <4> HIDE DEF k
        <4> QED
          BY <3>2, <4>1
      <3> QED
        BY <3>1, <3>3
    <2> HIDE DEF In
    <2>3. \A i \in 0 .. n : i \in In
      BY <1>2, <2>1, <2>2, AllUpTo
    <2> SUFFICES ASSUME NEW k \in 0 .. n PROVE carried[k] \in TreeData(u)
      OBVIOUS
    <2>4. n - k \in 0 .. n /\ n - (n - k) = k
      BY <1>2
    <2>5. carried[n - (n - k)] \in TreeData(u)
      BY <2>3, <2>4 DEF In
    <2> QED
      BY <2>4, <2>5
  <1>6. ASSUME NEW p \in DOMAIN u PROVE u[p].data \in TreeData(t) \cup {d}
    <2>1. CASE p = q
      <3>1. Len(q) \in 0 .. Len(q) /\ u[p].data = carried[Len(q)]
        BY <1>2, <2>1, <1>g DEF Grown, Node
      <3> QED
        BY <1>4, <3>1
    <2>2. CASE p \in DOMAIN t /\ Under(p, q)
      <3>1. Len(p) \in 0 .. Len(q) - 1 /\ p = Above(q, Len(p))
        BY <2>2, <1>g DEF Grown
      <3>2. u[p].data \in {carried[Len(p)], t[p].data} /\ Len(p) \in 0 .. Len(q)
        BY <1>3, <3>1
      <3> QED
        BY <1>4, <2>2, <3>2 DEF TreeData
    <2>3. CASE p \in DOMAIN t /\ ~Under(p, q)
      <3>1. u[p] = t[p]
        BY <2>3, <1>g DEF Grown
      <3> QED
        BY <2>3, <3>1 DEF TreeData
    <2> QED
      BY <2>1, <2>2, <2>3, <1>g DEF Grown
  <1>7. ASSUME NEW p \in DOMAIN t PROVE t[p].data \in TreeData(u)
    <2>1. CASE Under(p, q)
      <3>1. Len(p) \in 0 .. Len(q) - 1 /\ p = Above(q, Len(p)) /\ p \in DOMAIN u
        BY <2>1, <1>g DEF Grown
      <3>2. t[p].data \in {u[p].data, carried[Len(p) + 1]} /\ Len(p) + 1 \in 0 .. Len(q)
        BY <1>3, <3>1
      <3> QED
        BY <1>5, <3>1, <3>2 DEF TreeData
    <2>2. CASE ~Under(p, q)
      <3>1. u[p] = t[p] /\ p \in DOMAIN u
        BY <2>2, <1>g DEF Grown
      <3> QED
        BY <3>1 DEF TreeData
    <2> QED
      BY <2>1, <2>2
  <1>8. d \in TreeData(u)
    <2>1. 0 \in 0 .. Len(q) /\ carried[0] = d
      BY <1>2, <1>g DEF Grown
    <2> QED
      BY <1>5, <2>1
  <1> QED
    BY <1>6, <1>7, <1>8 DEF TreeData

\* There are as many data as nodes.
LEMMA OnePerNode ==
  ASSUME NEW t, IsFiniteSet(DOMAIN t)
  PROVE  /\ IsFiniteSet(TreeData(t))
         /\ DistinctIn(t) <=> Cardinality(TreeData(t)) = Cardinality(DOMAIN t)
  <1> DEFINE f == [p \in DOMAIN t |-> t[p].data]
  <1>1. f \in Surjection(DOMAIN t, TreeData(t))
    BY DEF Surjection, TreeData
  <1>2. IsFiniteSet(TreeData(t))
    BY <1>1, FS_Surjection
  <1>3. DistinctIn(t) <=> f \in Injection(DOMAIN t, TreeData(t))
    BY <1>1 DEF Surjection, Injection, IsInjective, DistinctIn
  <1> HIDE DEF f
  <1>4. Cardinality(TreeData(t)) = Cardinality(DOMAIN t) <=> f \in Injection(DOMAIN t, TreeData(t))
    BY <1>1, FS_Surjection
  <1> QED
    BY <1>2, <1>3, <1>4

LEMMA PushHeap ==
  ASSUME NEW t, NEW d, NEW q, NEW carried, NEW u, HeapOf(t), Pushes(t, d, q, carried, u)
  PROVE  HeapOf(u) /\ TreeData(u) = TreeData(t) \cup {d}
  <1>1. TreeOf(u) /\ OrderedIn(u) /\ CountedIn(u) /\ TreeData(u) = TreeData(t) \cup {d}
    BY PushTree, PushOrdered, PushCounted, PushJoins
  <1>2. IsFiniteSet(DOMAIN t) /\ IsFiniteSet(DOMAIN u) /\ DistinctIn(t) /\ q \notin DOMAIN t
    BY <1>1, PushedNode DEF HeapOf, TreeOf
  <1>3. d \notin TreeData(t) /\ DOMAIN u = DOMAIN t \cup {q}
    <2>1. Grown(t, d, q, carried, u)
      BY PushedData
    <2> QED
      BY <2>1 DEF Pushes, Grown
  <1>4. IsFiniteSet(TreeData(t)) /\ Cardinality(TreeData(t)) = Cardinality(DOMAIN t)
    BY <1>2, OnePerNode
  <1>5. Cardinality(TreeData(u)) = Cardinality(TreeData(t)) + 1
    BY <1>1, <1>3, <1>4, FS_AddElement
  <1>6. Cardinality(DOMAIN u) = Cardinality(DOMAIN t) + 1
    BY <1>2, <1>3, FS_AddElement
  <1>7. DistinctIn(u)
    BY <1>2, <1>4, <1>5, <1>6, OnePerNode
  <1> QED
    BY <1>1, <1>7 DEF HeapOf

-----------------------------------------------------------------------------
(* The heap: pop, also from the middle.                                    *)

\* t becomes u by a pop from p, whose last node is q.
Pops(t, p, q, u) == p \in DOMAIN t /\ q \in PopEnds(t, p) /\ u = PopNode(t, p, q)
OnWay(p, q, x) == Under(p, x) /\ Under(x, q)
\* Where the datum of x comes from.
Source(p, q, x) == IF OnWay(p, q, x) THEN Above(q, Len(x) + 1) ELSE x

Shrunk(t, p, q, u) ==
  /\ p \in Paths /\ q \in Paths /\ p \in DOMAIN t /\ q \in DOMAIN t /\ Under(p, q)
  /\ \A x \in DOMAIN t : Under(q, x) => x = q
  /\ DOMAIN u = DOMAIN t \ {q}
  /\ \A x \in DOMAIN u :
       /\ x \in Paths /\ x \in DOMAIN t
       /\ u[x].data = t[Source(p, q, x)].data
       /\ u[x].size = IF Under(x, q) THEN t[x].size - 1 ELSE t[x].size
       /\ Source(p, q, x) \in DOMAIN t
       /\ OnWay(p, q, x) => /\ Len(x) \in 0 .. Len(q) - 1 /\ x = Above(q, Len(x))
                            /\ PopSide(t, x) \in Sides /\ Source(p, q, x) = Append(x, PopSide(t, x))

LEMMA PoppedNode ==
  ASSUME NEW t, NEW p, NEW q, NEW u, HeapOf(t), Pops(t, p, q, u)
  PROVE  Shrunk(t, p, q, u)
  <1>1. DOMAIN t \subseteq Paths /\ \A x \in DOMAIN t : \A k \in 0 .. Len(x) : Above(x, k) \in DOMAIN t
    BY DEF HeapOf, TreeOf
  <1>2. /\ p \in DOMAIN t /\ q \in DOMAIN t /\ Under(p, q) /\ \A side \in Sides : Append(q, side) \notin DOMAIN t
        /\ \A k \in Len(p) .. Len(q) - 1 : q[k + 1] = PopSide(t, Above(q, k))
    BY DEF Pops, PopEnds, Leaves
  <1>3. p \in Paths /\ q \in Paths /\ Len(p) \in Nat /\ Len(q) \in Nat
    BY <1>1, <1>2, AboveEnds
  <1>4. \A x \in DOMAIN t : Under(q, x) => x = q
    <2> SUFFICES ASSUME NEW x \in DOMAIN t, Under(q, x), x # q PROVE FALSE
      OBVIOUS
    <2>1. x \in Paths /\ Len(x) \in Nat
      BY <1>1, AboveEnds
    <2>2. Len(q) <= Len(x) /\ Len(q) # Len(x) /\ Above(x, Len(q)) = q
      BY <1>3, <2>1, UnderFacts DEF Under
    <2>3. Len(q) \in 0 .. Len(x) - 1 /\ Len(q) + 1 \in 0 .. Len(x)
      BY <1>3, <2>1, <2>2
    <2>4. x[Len(q) + 1] \in Sides /\ Above(x, Len(q) + 1) = Append(q, x[Len(q) + 1])
      BY <2>1, <2>2, <2>3, StepDown
    <2> QED
      BY <1>1, <1>2, <2>3, <2>4
  <1>5. /\ DOMAIN u = DOMAIN t \ {q}
        /\ \A x \in DOMAIN u : /\ u[x].data = PulledUp(t, p, q, x)
                               /\ u[x].size = IF Under(x, q) THEN t[x].size - 1 ELSE t[x].size
    BY DEF Pops, PopNode
  <1>6. ASSUME NEW x \in DOMAIN u
        PROVE  /\ x \in Paths /\ x \in DOMAIN t
               /\ u[x].data = t[Source(p, q, x)].data
               /\ u[x].size = IF Under(x, q) THEN t[x].size - 1 ELSE t[x].size
               /\ Source(p, q, x) \in DOMAIN t
               /\ OnWay(p, q, x) => /\ Len(x) \in 0 .. Len(q) - 1 /\ x = Above(q, Len(x))
                                    /\ PopSide(t, x) \in Sides /\ Source(p, q, x) = Append(x, PopSide(t, x))
    <2>1. x \in Paths /\ x \in DOMAIN t /\ x # q /\ Len(x) \in Nat
      BY <1>1, <1>5, AboveEnds
    <2>2. u[x].data = t[Source(p, q, x)].data
      BY <1>5 DEF PulledUp, Source, OnWay
    <2>3. ASSUME OnWay(p, q, x)
          PROVE  /\ Len(x) \in 0 .. Len(q) - 1 /\ x = Above(q, Len(x))
                 /\ PopSide(t, x) \in Sides /\ Source(p, q, x) = Append(x, PopSide(t, x))
                 /\ Source(p, q, x) \in DOMAIN t
      <3>1. Len(p) <= Len(x) /\ Len(x) <= Len(q) /\ Len(x) # Len(q) /\ x = Above(q, Len(x))
        BY <1>3, <2>1, <2>3, UnderFacts DEF OnWay, Under
      <3>2. Len(x) \in 0 .. Len(q) - 1 /\ Len(x) \in Len(p) .. Len(q) - 1 /\ Len(x) + 1 \in 0 .. Len(q)
        BY <1>3, <2>1, <3>1
      <3>3. q[Len(x) + 1] \in Sides /\ Above(q, Len(x) + 1) = Append(x, q[Len(x) + 1])
        BY <1>3, <3>1, <3>2, StepDown
      <3>4. q[Len(x) + 1] = PopSide(t, x)
        BY <1>2, <3>1, <3>2
      <3>5. Source(p, q, x) = Above(q, Len(x) + 1)
        BY <2>3 DEF Source
      <3> QED
        BY <1>1, <1>2, <3>1, <3>2, <3>3, <3>4, <3>5
    <2>4. ~OnWay(p, q, x) => Source(p, q, x) = x
      BY DEF Source
    <2> QED
      BY <1>5, <2>1, <2>2, <2>3, <2>4
  <1> QED
    BY <1>2, <1>3, <1>4, <1>5, <1>6 DEF Shrunk

LEMMA PopTree ==
  ASSUME NEW t, NEW p, NEW q, NEW u, HeapOf(t), Pops(t, p, q, u)
  PROVE  TreeOf(u)
  <1>1. /\ IsFiniteSet(DOMAIN t) /\ DOMAIN t \subseteq Paths
        /\ \A x \in DOMAIN t : t[x].data \in Items /\ t[x].size \in Int
        /\ \A x \in DOMAIN t : \A k \in 0 .. Len(x) : Above(x, k) \in DOMAIN t
    BY DEF HeapOf, TreeOf
  <1>s. Shrunk(t, p, q, u)
    BY PoppedNode
  <1>2. DOMAIN u = DOMAIN t \ {q} /\ q \in Paths /\ \A x \in DOMAIN t : Under(q, x) => x = q
    BY <1>s DEF Shrunk
  <1>3. IsFiniteSet(DOMAIN u) /\ DOMAIN u \subseteq Paths
    BY <1>1, <1>2, FS_Subset
  <1>4. \A x \in DOMAIN u : u[x].data \in Items /\ u[x].size \in Int
    <2> SUFFICES ASSUME NEW x \in DOMAIN u PROVE u[x].data \in Items /\ u[x].size \in Int
      OBVIOUS
    <2>1. /\ u[x].data = t[Source(p, q, x)].data /\ Source(p, q, x) \in DOMAIN t /\ x \in DOMAIN t
          /\ u[x].size = IF Under(x, q) THEN t[x].size - 1 ELSE t[x].size
      BY <1>s DEF Shrunk
    <2> QED
      BY <1>1, <2>1
  <1>5. \A x \in DOMAIN u : \A k \in 0 .. Len(x) : Above(x, k) \in DOMAIN u
    <2> SUFFICES ASSUME NEW x \in DOMAIN u, NEW k \in 0 .. Len(x) PROVE Above(x, k) \in DOMAIN u
      OBVIOUS
    <2>1. x \in Paths /\ x \in DOMAIN t /\ x # q
      BY <1>1, <1>2
    <2>2. Above(x, k) \in DOMAIN t /\ Under(Above(x, k), x)
      BY <1>1, <2>1, UnderAbove
    <2>3. Above(x, k) # q
      BY <1>2, <2>1, <2>2
    <2> QED
      BY <1>2, <2>2, <2>3
  <1> QED
    BY <1>3, <1>4, <1>5 DEF TreeOf

LEMMA PopCounted ==
  ASSUME NEW t, NEW p, NEW q, NEW u, HeapOf(t), Pops(t, p, q, u)
  PROVE  CountedIn(u)
  <1>1. /\ IsFiniteSet(DOMAIN t)
        /\ \A x \in DOMAIN t : t[x].size = Cardinality({y \in DOMAIN t : Under(x, y)})
    BY DEF HeapOf, TreeOf, CountedIn
  <1>s. Shrunk(t, p, q, u)
    BY PoppedNode
  <1> SUFFICES ASSUME NEW x \in DOMAIN u
               PROVE  u[x].size = Cardinality({y \in DOMAIN u : Under(x, y)})
    BY DEF CountedIn
  <1> DEFINE Was == {y \in DOMAIN t : Under(x, y)}
             Is == {y \in DOMAIN u : Under(x, y)}
  <1>2. /\ DOMAIN u = DOMAIN t \ {q} /\ q \in DOMAIN t /\ x \in DOMAIN t
        /\ u[x].size = IF Under(x, q) THEN t[x].size - 1 ELSE t[x].size
    BY <1>s DEF Shrunk
  <1>3. IsFiniteSet(Was)
    BY <1>1, FS_Subset
  <1>4. t[x].size = Cardinality(Was)
    BY <1>1, <1>2
  <1>5. CASE Under(x, q)
    <2>1. Is = Was \ {q} /\ q \in Was
      BY <1>2, <1>5
    <2> HIDE DEF Is, Was
    <2>2. Cardinality(Is) = Cardinality(Was) - 1
      BY <1>3, <2>1, FS_RemoveElement
    <2> QED
      BY <1>2, <1>4, <1>5, <2>2 DEF Is
  <1>6. CASE ~Under(x, q)
    <2>1. Is = Was
      BY <1>2, <1>6
    <2> QED
      BY <1>2, <1>4, <1>6, <2>1
  <1> QED
    BY <1>5, <1>6

\* Of two children the pop takes the one the other does not outrank.
LEMMA PopsHigher ==
  ASSUME NEW t, TreeOf(t), NEW x \in DOMAIN t, NEW side \in Sides,
         Append(x, side) \in DOMAIN t, Append(x, PopSide(t, x)) \in DOMAIN t
  PROVE  Rank[t[Append(x, side)].data] <= Rank[t[Append(x, PopSide(t, x))].data]
  <1> DEFINE l == Append(x, "left")
             r == Append(x, "right")
             c == Append(x, side)
             taken == Append(x, PopSide(t, x))
  <1>1. \A y \in DOMAIN t : t[y].data \in Items /\ Rank[t[y].data] \in Int
    BY Ranked DEF TreeOf
  <1>2. PopSide(t, x) =
          IF l \in DOMAIN t /\ (r \notin DOMAIN t \/ outRanks(t[l].data, t[r].data)) THEN "left" ELSE "right"
    BY DEF PopSide
  <1>3. (c = l \/ c = r) /\ c \in DOMAIN t /\ taken \in DOMAIN t
    BY DEF Sides
  <1>4. \/ taken = l /\ (r \notin DOMAIN t \/ outRanks(t[l].data, t[r].data))
        \/ taken = r /\ ~(l \in DOMAIN t /\ (r \notin DOMAIN t \/ outRanks(t[l].data, t[r].data)))
    BY <1>2
  <1>5. Rank[t[c].data] <= Rank[t[taken].data]
    <2> HIDE DEF l, r, c, taken
    <2>1. CASE taken = l /\ c = r
      BY <1>1, <1>3, <1>4, <2>1, Ranked
    <2>2. CASE taken = r /\ c = l
      BY <1>1, <1>3, <1>4, <2>2, Ranked
    <2>3. CASE taken = c
      BY <1>1, <1>3, <2>3
    <2> QED
      BY <1>3, <1>4, <2>1, <2>2, <2>3
  <1> QED
    BY <1>5

LEMMA PopOrdered ==
  ASSUME NEW t, NEW p, NEW q, NEW u, HeapOf(t), Pops(t, p, q, u)
  PROVE  OrderedIn(u)
  <1>1. /\ TreeOf(t) /\ OrderedIn(t)
        /\ \A x \in DOMAIN t : Rank[t[x].data] \in Int
    BY Ranked DEF HeapOf, TreeOf
  <1>s. Shrunk(t, p, q, u)
    BY PoppedNode
  <1> SUFFICES ASSUME NEW x \in DOMAIN u, NEW side \in Sides, Append(x, side) \in DOMAIN u
               PROVE  Rank[u[Append(x, side)].data] <= Rank[u[x].data]
    BY DEF OrderedIn
  <1> DEFINE c == Append(x, side)
             sx == Source(p, q, x)
             sc == Source(p, q, c)
  <1>2. /\ x \in Paths /\ x \in DOMAIN t /\ u[x].data = t[sx].data /\ sx \in DOMAIN t
        /\ OnWay(p, q, x) => /\ Len(x) \in 0 .. Len(q) - 1 /\ x = Above(q, Len(x))
                             /\ PopSide(t, x) \in Sides /\ sx = Append(x, PopSide(t, x))
        /\ ~OnWay(p, q, x) => sx = x
    BY <1>s DEF Shrunk, Source
  <1>3. /\ c \in Paths /\ c \in DOMAIN t /\ u[c].data = t[sc].data /\ sc \in DOMAIN t
        /\ OnWay(p, q, c) => c = Above(q, Len(c)) /\ PopSide(t, c) \in Sides /\ sc = Append(c, PopSide(t, c))
        /\ ~OnWay(p, q, c) => sc = c
    <2>1. c \in DOMAIN u
      OBVIOUS
    <2> HIDE DEF c
    <2> QED
      BY <1>s, <2>1 DEF Shrunk, Source
  <1>4. p \in Paths /\ q \in Paths /\ Len(c) = Len(x) + 1 /\ Len(x) \in Nat
    BY <1>2, <1>s, ChildIs, AboveEnds DEF Shrunk
  <1>5. Under(x, c) /\ (Under(p, c) <=> p = c \/ Under(p, x))
    BY <1>2, <1>4, UnderChild, UnderFacts
  \* The datum of c comes from c or from a child of c.
  <1>6. Rank[t[sc].data] <= Rank[t[c].data]
    <2> HIDE DEF sc, c
    <2>1. CASE OnWay(p, q, c)
      <3>1. PopSide(t, c) \in Sides /\ sc = Append(c, PopSide(t, c)) /\ c \in DOMAIN t /\ sc \in DOMAIN t
        BY <1>3, <2>1
      <3> QED
        BY <1>1, <3>1 DEF OrderedIn
    <2>2. CASE ~OnWay(p, q, c)
      BY <1>1, <1>3, <2>2
    <2> QED
      BY <2>1, <2>2
  <1>7. CASE OnWay(p, q, x)
    <2>1. CASE Under(c, q)
      <3>1. c = sx
        <4>1. c = Above(q, Len(c)) /\ sx = Above(q, Len(x) + 1)
          BY <1>7, <2>1 DEF Under, Source
        <4> QED
          BY <1>4, <4>1
      <3> HIDE DEF sc, sx, c
      <3> QED
        BY <1>2, <1>3, <1>6, <3>1 DEF c
    <2>2. CASE ~Under(c, q)
      <3>1. sc = c
        BY <1>3, <2>2 DEF OnWay
      <3>2. Rank[t[c].data] <= Rank[t[sx].data]
        BY <1>1, <1>2, <1>3, <1>7, PopsHigher
      <3> HIDE DEF sc, sx, c
      <3> QED
        BY <1>2, <1>3, <3>1, <3>2 DEF c
    <2> QED
      BY <2>1, <2>2
  <1>8. CASE ~OnWay(p, q, x)
    <2>1. sx = x
      BY <1>2, <1>8
    <2>2. Rank[t[c].data] <= Rank[t[x].data]
      BY <1>1, <1>2, <1>3 DEF OrderedIn
    <2>3. Rank[t[c].data] \in Int /\ Rank[t[x].data] \in Int /\ Rank[t[sc].data] \in Int
      BY <1>1, <1>2, <1>3
    <2> HIDE DEF sc, sx, c
    <2> QED
      BY <1>2, <1>3, <1>6, <2>1, <2>2, <2>3 DEF c
  <1> QED
    BY <1>7, <1>8

\* Every node but p gives its datum to one node.
LEMMA PopMoves ==
  ASSUME NEW t, NEW p, NEW q, NEW u, HeapOf(t), Pops(t, p, q, u)
  PROVE  /\ \A x \in DOMAIN u : Source(p, q, x) # p
         /\ \A x, y \in DOMAIN u : Source(p, q, x) = Source(p, q, y) => x = y
         /\ \A z \in DOMAIN t \ {p} : \E x \in DOMAIN u : Source(p, q, x) = z
  <1>s. Shrunk(t, p, q, u)
    BY PoppedNode
  <1>1. /\ p \in Paths /\ q \in Paths /\ Under(p, q) /\ DOMAIN u = DOMAIN t \ {q} /\ DOMAIN t \subseteq Paths
        /\ \A x \in DOMAIN u : x \in Paths /\ (OnWay(p, q, x) => Len(x) \in 0 .. Len(q) - 1 /\ x = Above(q, Len(x)))
    BY <1>s DEF Shrunk, HeapOf, TreeOf
  <1>2. Len(p) \in Nat /\ Len(q) \in Nat /\ OnWay(p, q, p) /\ OnWay(p, q, q)
    BY <1>1, AboveEnds, UnderFacts DEF OnWay
  <1>3. ASSUME NEW x \in DOMAIN u, OnWay(p, q, x)
        PROVE  /\ Source(p, q, x) = Above(q, Len(x) + 1) /\ Len(Source(p, q, x)) = Len(x) + 1 /\ Len(p) <= Len(x)
               /\ Source(p, q, x) \in Paths /\ OnWay(p, q, Source(p, q, x)) /\ Len(x) \in Nat
    <2>1. Source(p, q, x) = Above(q, Len(x) + 1) /\ Len(x) \in 0 .. Len(q) - 1 /\ Len(p) <= Len(x)
      BY <1>1, <1>3 DEF Source, OnWay, Under
    <2>2. Len(x) + 1 \in 0 .. Len(q)
      BY <1>2, <2>1
    <2> DEFINE s == Above(q, Len(x) + 1)
    <2>3. s \in Paths /\ Len(s) = Len(x) + 1 /\ Under(s, q)
      BY <1>1, <2>2, AboveIs, UnderAbove
    <2> HIDE DEF s
    <2>4. Len(p) <= Len(s)
      BY <1>2, <2>1, <2>3
    <2>5. Under(p, s)
      BY <1>1, <2>3, <2>4, UnderFacts
    <2> QED
      BY <2>1, <2>3, <2>5 DEF s, OnWay
  <1>4. \A x \in DOMAIN u : ~OnWay(p, q, x) => Source(p, q, x) = x
    BY DEF Source
  <1>5. \A x \in DOMAIN u : Source(p, q, x) # p
    BY <1>2, <1>3, <1>4
  <1>6. ASSUME NEW x \in DOMAIN u, NEW y \in DOMAIN u, Source(p, q, x) = Source(p, q, y)
        PROVE  x = y
    <2>1. OnWay(p, q, x) <=> OnWay(p, q, y)
      BY <1>3, <1>4, <1>6
    <2>2. CASE OnWay(p, q, x)
      <3>1. Len(x) + 1 = Len(y) + 1 /\ Len(x) \in Nat /\ Len(y) \in Nat
        BY <1>3, <1>6, <2>1, <2>2
      <3>2. x = Above(q, Len(x)) /\ y = Above(q, Len(y))
        BY <1>1, <2>1, <2>2
      <3> QED
        BY <3>1, <3>2
    <2>3. CASE ~OnWay(p, q, x)
      BY <1>4, <1>6, <2>1, <2>3
    <2> QED
      BY <2>2, <2>3
  <1>7. ASSUME NEW z \in DOMAIN t \ {p} PROVE \E x \in DOMAIN u : Source(p, q, x) = z
    <2>1. CASE OnWay(p, q, z)
      <3>1. z \in Paths /\ Len(z) \in Nat /\ Len(p) <= Len(z) /\ Len(p) # Len(z) /\ z = Above(q, Len(z)) /\ Len(z) <= Len(q)
        BY <1>1, <2>1, UnderFacts, AboveEnds DEF OnWay, Under
      <3> DEFINE k == Len(z) - 1
                 x == Above(q, k)
      <3>2. k \in 0 .. Len(q) - 1 /\ k \in 0 .. Len(q) /\ k + 1 = Len(z) /\ Len(p) <= k
        BY <1>2, <3>1
      <3> HIDE DEF k
      <3>3. x \in Paths /\ Len(x) = k /\ Under(x, q) /\ x \in DOMAIN t
        BY <1>1, <1>s, <3>2, AboveIs, UnderAbove DEF HeapOf, TreeOf, Shrunk
      <3>4. x # q
        BY <1>2, <3>2, <3>3
      <3>5. Under(p, x)
        BY <1>1, <3>2, <3>3, UnderFacts
      <3>6. Source(p, q, x) = z
        BY <3>1, <3>2, <3>3, <3>5 DEF Source, OnWay
      <3> QED
        BY <1>1, <3>3, <3>4, <3>6
    <2>2. CASE ~OnWay(p, q, z)
      BY <1>1, <1>2, <1>4, <2>2
    <2> QED
      BY <2>1, <2>2
  <1> QED
    BY <1>5, <1>6, <1>7

LEMMA PopHeap ==
  ASSUME NEW t, NEW p, NEW q, NEW u, HeapOf(t), Pops(t, p, q, u)
  PROVE  HeapOf(u) /\ TreeData(u) = TreeData(t) \ {t[p].data}
  <1>s. Shrunk(t, p, q, u)
    BY PoppedNode
  <1>1. /\ p \in DOMAIN t
        /\ \A x \in DOMAIN u : u[x].data = t[Source(p, q, x)].data /\ Source(p, q, x) \in DOMAIN t
    BY <1>s DEF Shrunk
  <1>2. \A x, y \in DOMAIN t : t[x].data = t[y].data => x = y
    BY DEF HeapOf, DistinctIn
  <1>3. /\ \A x \in DOMAIN u : Source(p, q, x) # p
        /\ \A x, y \in DOMAIN u : Source(p, q, x) = Source(p, q, y) => x = y
        /\ \A z \in DOMAIN t \ {p} : \E x \in DOMAIN u : Source(p, q, x) = z
    BY PopMoves
  <1>4. DistinctIn(u)
    BY <1>1, <1>2, <1>3 DEF DistinctIn
  <1>5. \A x \in DOMAIN u : u[x].data \in TreeData(t) \ {t[p].data}
    BY <1>1, <1>2, <1>3 DEF TreeData
  <1>6. ASSUME NEW e \in TreeData(t) \ {t[p].data} PROVE e \in TreeData(u)
    <2>1. PICK z \in DOMAIN t : e = t[z].data
      BY DEF TreeData
    <2>2. PICK x \in DOMAIN u : Source(p, q, x) = z
      BY <1>3, <2>1
    <2> QED
      BY <1>1, <2>1, <2>2 DEF TreeData
  <1>7. TreeData(u) = TreeData(t) \ {t[p].data}
    BY <1>5, <1>6 DEF TreeData
  <1> QED
    BY <1>4, <1>7, PopTree, PopOrdered, PopCounted DEF HeapOf

-----------------------------------------------------------------------------
(* The heap: its calls, and the bag.                                       *)

\* The search, though it gives up what the datum outranks, finds every datum.
LEMMA FindsAll ==
  ASSUME NEW t, HeapOf(t), NEW d
  PROVE  d \in TreeData(t) <=> Found(t, d) # {}
  <1>1. ASSUME d \in TreeData(t) PROVE Found(t, d) # {}
    <2>1. PICK p \in DOMAIN t : t[p].data = d
      BY <1>1 DEF TreeData
    <2>2. \A k \in 0 .. Len(p) : Above(p, k) \in DOMAIN t /\ Rank[t[p].data] <= Rank[t[Above(p, k)].data]
      BY OrderedAll DEF HeapOf
    <2>3. p \in Paths /\ Len(p) \in Nat /\ \A x \in DOMAIN t : t[x].data \in Items
      BY AboveEnds DEF HeapOf, TreeOf
    <2>4. ASSUME NEW k \in 0 .. Len(p) - 1 PROVE ~outRanks(d, t[Above(p, k)].data)
      <3>1. k \in 0 .. Len(p)
        BY <2>3
      <3> QED
        BY <2>1, <2>2, <2>3, <3>1, Ranked
    <2> QED
      BY <2>1, <2>4 DEF Found
  <1>2. ASSUME Found(t, d) # {} PROVE d \in TreeData(t)
    BY <1>2 DEF Found, TreeData
  <1> QED
    BY <1>1, <1>2

\* The top of a tree is in it, and ranks highest.
LEMMA TopHighest ==
  ASSUME NEW t, HeapOf(t), DOMAIN t # {}
  PROVE  /\ <<>> \in DOMAIN t /\ t[<<>>].data \in TreeData(t)
         /\ \A e \in TreeData(t) : Rank[e] <= Rank[t[<<>>].data]
  <1>1. \A p \in DOMAIN t : p \in Paths
    BY DEF HeapOf, TreeOf
  <1>2. \A p \in DOMAIN t : <<>> \in DOMAIN t /\ Rank[t[p].data] <= Rank[t[<<>>].data]
    <2> TAKE p \in DOMAIN t
    <2>1. 0 \in 0 .. Len(p) /\ Above(p, 0) = <<>>
      BY <1>1, AboveEnds
    <2> QED
      BY <2>1, OrderedAll DEF HeapOf
  <1> QED
    BY <1>2 DEF TreeData

LEMMA HeapStarts ==
  ASSUME HeapInit
  PROVE  HeapInv /\ TreeData(mTree) = {}
  <1>1. DOMAIN mTree = {}
    BY DEF HeapInit
  <1>2. IsFiniteSet(DOMAIN mTree)
    BY <1>1, FS_EmptySet
  <1> QED
    BY <1>1, <1>2 DEF HeapInv, HeapOf, TreeOf, OrderedIn, CountedIn, DistinctIn, TreeData

\* A call keeps the tree, and does to its data what the bag does to its members.
LEMMA HeapStep ==
  ASSUME HeapInv, [HeapNext]_heapVars
  PROVE  HeapInv' /\ [Bag!Next]_<<TreeData(mTree), heapOut>>
  <1> USE DEF HeapInv
  <1>1. ASSUME NEW d \in Items, push(d) PROVE HeapInv' /\ Bag!Push(d)
    <2>q. PICK q \in PushEnds(mTree) : \E carried \in CarriedDown(mTree, d, q) : mTree' = PushNode(mTree, q, carried)
      BY <1>1 DEF push
    <2>1. PICK carried \in CarriedDown(mTree, d, q) : mTree' = PushNode(mTree, q, carried)
      BY <2>q
    <2>2. \A u : u = PushNode(mTree, q, carried) => HeapOf(u) /\ TreeData(u) = TreeData(mTree) \cup {d}
      <3> TAKE u
      <3> HAVE u = PushNode(mTree, q, carried)
      <3>1. Pushes(mTree, d, q, carried, u)
        BY <1>1, <2>1 DEF push, Pushes
      <3> QED
        BY <3>1, PushHeap
    <2>3. HeapOf(mTree') /\ TreeData(mTree') = TreeData(mTree) \cup {d}
      BY <2>1, <2>2
    <2> QED
      BY <1>1, <2>3 DEF push, Bag!Push
  <1>2. ASSUME NEW p \in DOMAIN mTree, NEW q \in PopEnds(mTree, p), mTree' = PopNode(mTree, p, q)
        PROVE  HeapInv' /\ TreeData(mTree)' = TreeData(mTree) \ {mTree[p].data}
    <2>1. \A u : u = PopNode(mTree, p, q) => HeapOf(u) /\ TreeData(u) = TreeData(mTree) \ {mTree[p].data}
      BY <1>2, PopHeap DEF Pops
    <2> QED
      BY <1>2, <2>1
  <1>3. ASSUME pop PROVE HeapInv' /\ Bag!Pop
    <2>1. CASE DOMAIN mTree = {} /\ heapOut' = Null /\ UNCHANGED mTree
      <3>1. TreeData(mTree) = {} /\ TreeData(mTree)' = TreeData(mTree)
        BY <2>1 DEF TreeData
      <3> QED
        BY <2>1, <3>1 DEF Bag!Pop
    <2>2. CASE /\ DOMAIN mTree # {} /\ heapOut' = mTree[<<>>].data
               /\ \E q \in PopEnds(mTree, <<>>) : mTree' = PopNode(mTree, <<>>, q)
      <3>1. /\ <<>> \in DOMAIN mTree /\ mTree[<<>>].data \in TreeData(mTree)
            /\ \A e \in TreeData(mTree) : Rank[e] <= Rank[mTree[<<>>].data]
        BY <2>2, TopHighest
      <3>2. HeapInv' /\ TreeData(mTree)' = TreeData(mTree) \ {mTree[<<>>].data}
        BY <1>2, <2>2, <3>1
      <3> QED
        BY <2>2, <3>1, <3>2 DEF Bag!Pop
    <2> QED
      BY <1>3, <2>1, <2>2 DEF pop
  <1>4. ASSUME NEW d \in Items, remove(d) PROVE HeapInv' /\ Bag!Take(d)
    <2>1. CASE Found(mTree, d) = {} /\ heapOut' = Null /\ UNCHANGED mTree
      <3>1. d \notin TreeData(mTree) /\ TreeData(mTree)' = TreeData(mTree)
        BY <2>1, FindsAll
      <3> QED
        BY <2>1, <3>1 DEF Bag!Take
    <2>2. CASE /\ heapOut' = d
               /\ \E p \in Found(mTree, d) : \E q \in PopEnds(mTree, p) : mTree' = PopNode(mTree, p, q)
      <3>1. PICK p \in Found(mTree, d) : \E q \in PopEnds(mTree, p) : mTree' = PopNode(mTree, p, q)
        BY <2>2
      <3>2. p \in DOMAIN mTree /\ mTree[p].data = d /\ d \in TreeData(mTree)
        BY <3>1 DEF Found, TreeData
      <3>3. HeapInv' /\ TreeData(mTree)' = TreeData(mTree) \ {mTree[p].data}
        BY <1>2, <3>1, <3>2
      <3> QED
        BY <2>2, <3>2, <3>3 DEF Bag!Take
    <2> QED
      BY <1>4, <2>1, <2>2 DEF remove
  <1>5. ASSUME UNCHANGED heapVars PROVE HeapInv' /\ UNCHANGED <<TreeData(mTree), heapOut>>
    BY <1>5 DEF heapVars
  <1> QED
    BY <1>1, <1>3, <1>4, <1>5 DEF HeapNext, Bag!Next

\* What the unit test asserts of each node is so after any calls (checkNodes in
\* LocHeap.cpp): no child outranks it, and its size is that of its subtree.
THEOREM HeapStaysConsistent == HeapSpec => []HeapConsistent
  <1>1. HeapInit => HeapInv
    BY HeapStarts
  <1>2. HeapInv /\ [HeapNext]_heapVars => HeapInv'
    BY HeapStep
  <1>3. HeapInv => HeapConsistent
    <2> SUFFICES ASSUME HeapInv, NEW p \in DOMAIN mTree PROVE checkNode(p)
      BY DEF HeapConsistent
    <2>1. mTree[p].size = Cardinality({x \in DOMAIN mTree : Under(p, x)})
      BY DEF HeapInv, HeapOf, CountedIn
    <2>2. ASSUME NEW side \in Sides, Append(p, side) \in DOMAIN mTree
          PROVE  ~outRanks(mTree[Append(p, side)].data, mTree[p].data)
      BY <2>2, Ranked DEF HeapInv, HeapOf, TreeOf, OrderedIn
    <2> QED
      BY <2>1, <2>2 DEF checkNode
  <1> QED
    BY <1>1, <1>2, <1>3, PTL DEF HeapSpec

\* The heap is a bag from which pop takes what nothing outranks and remove whatever it
\* is given (LocHeap.cpp:134, 170), for any items, ranks and calls.
THEOREM HeapRefinesBag == HeapSpec => HeapIsPriorityBag
  <1>1. HeapInit => HeapInv /\ Bag!Init
    BY HeapStarts DEF HeapInit, Bag!Init
  <1>2. HeapInv /\ [HeapNext]_heapVars => HeapInv' /\ [Bag!Next]_<<TreeData(mTree), heapOut>>
    BY HeapStep
  <1> QED
    BY <1>1, <1>2, PTL DEF HeapSpec, HeapIsPriorityBag, Bag!Spec
=============================================================================

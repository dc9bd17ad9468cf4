----------------------------- MODULE LinkedList -----------------------------
(***************************************************************************)
(* linked_list.c: a doubly linked list of cells, added to at p_head and    *)
(* removed from at p_tail.  Every statement that moves a link is kept; a   *)
(* call is one step, as all callers hold a mutex.  A datum is in the list  *)
(* at most once, as its users allocate one per message.                    *)
(***************************************************************************)
EXTENDS Pointers, Naturals, Sequences, FiniteSets

CONSTANTS Cells, Data
ASSUME ListAssumption == Null \notin Cells \cup Data /\ IsFiniteSet(Cells)

VARIABLES
  pHead, pTail,   \* p_head and p_tail
  next, prev,     \* the links of each cell
  dataPtr,        \* data_ptr of a cell; Null: the cell is free memory
  dataOut,        \* *data_obj of the last call
  deallocated     \* data given to dealloc_func

listVars == <<pHead, pTail, next, prev, dataPtr, dataOut, deallocated>>

linked_list_init ==
  /\ pHead = Null /\ pTail = Null
  /\ next = [c \in Cells |-> Null] /\ prev = [c \in Cells |-> Null]
  /\ dataPtr = [c \in Cells |-> Null]
  /\ dataOut = Null /\ deallocated = {}

Allocated == {c \in Cells : dataPtr[c] # Null}
FreshData == Data \ ({dataPtr[c] : c \in Cells} \cup deallocated \cup {dataOut})

linked_list_add(d) ==
  \E elem \in Cells \ Allocated :
    /\ dataPtr' = [dataPtr EXCEPT ![elem] = d]
    /\ next' = [next EXCEPT ![elem] = pHead]
    /\ prev' = [c \in Cells |-> IF c = elem THEN Null
                                ELSE IF c = pHead THEN elem ELSE prev[c]]
    /\ pHead' = elem
    /\ pTail' = IF pHead = Null THEN elem ELSE pTail
    /\ UNCHANGED <<dataOut, deallocated>>

linked_list_remove ==
  /\ pTail # Null
  /\ pTail' = prev[pTail]
  /\ IF prev[pTail] # Null
     THEN next' = [next EXCEPT ![prev[pTail]] = Null] /\ UNCHANGED pHead
     ELSE pHead' = Null /\ UNCHANGED next
  /\ dataOut' = dataPtr[pTail]
  /\ dataPtr' = [dataPtr EXCEPT ![pTail] = Null]
  /\ UNCHANGED <<prev, deallocated>>

\* The cells met by following a link, as many as are met before Null (or, were they
\* a cycle, one more than there are).
Walk(link, from) ==
  LET walk[i \in Nat] ==
        IF i = 0 THEN from ELSE IF walk[i - 1] = Null THEN Null ELSE link[walk[i - 1]]
  IN walk
CellsAlong(link, from) ==
  LET met == {i \in 0 .. Cardinality(Cells) : Walk(link, from)[i] # Null}
  IN [i \in 1 .. Cardinality(met) |-> Walk(link, from)[i - 1]]
FromHead == CellsAlong(next, pHead)

linked_list_flush ==
  LET met == {FromHead[i] : i \in DOMAIN FromHead} IN
  /\ deallocated' = deallocated \cup {dataPtr[c] : c \in met}
  /\ dataPtr' = [c \in Cells |-> IF c \in met THEN Null ELSE dataPtr[c]]
  /\ pHead' = Null /\ pTail' = Null
  /\ UNCHANGED <<next, prev, dataOut>>

\* linked_list_search, from the head; the matching cell is unlinked if asked.
UnlinkOneWay(c) ==
  /\ pHead' = IF prev[c] = Null THEN next[c] ELSE pHead
  /\ next' = [e \in Cells |-> IF e = c THEN Null
                              ELSE IF e = prev[c] THEN next[c] ELSE next[e]]
  /\ pTail' = IF next[c] = Null THEN prev[c] ELSE pTail
  /\ prev' = [prev EXCEPT ![c] = Null]
Unlink(c) ==
  /\ pHead' = IF prev[c] = Null THEN next[c] ELSE pHead
  /\ next' = [e \in Cells |-> IF e = c THEN Null
                              ELSE IF e = prev[c] THEN next[c] ELSE next[e]]
  /\ pTail' = IF next[c] = Null THEN prev[c] ELSE pTail
  /\ prev' = [e \in Cells |-> IF e = c THEN Null
                              ELSE IF e = next[c] THEN prev[c] ELSE prev[e]]

linked_list_search(d, handOut, rmIfFound) ==
  /\ pTail # Null
  /\ LET hits == {i \in DOMAIN FromHead : dataPtr[FromHead[i]] = d} IN
     IF hits = {}
     THEN /\ dataOut' = IF handOut THEN Null ELSE dataOut
          /\ UNCHANGED <<pHead, pTail, next, prev, dataPtr, deallocated>>
     ELSE LET tmp == FromHead[CHOOSE i \in hits : \A j \in hits : i <= j] IN
          /\ dataOut' = IF handOut THEN d ELSE dataOut
          /\ IF rmIfFound
             THEN /\ Unlink(tmp)
                  /\ dataPtr' = [dataPtr EXCEPT ![tmp] = Null]
                  /\ deallocated' = IF handOut THEN deallocated
                                    ELSE deallocated \cup {d}
             ELSE UNCHANGED <<pHead, pTail, next, prev, dataPtr, deallocated>>

ListNext ==
  \/ \E d \in FreshData : linked_list_add(d)
  \/ linked_list_remove
  \/ linked_list_flush
  \/ \E d \in Data, handOut, rmIfFound \in BOOLEAN :
       linked_list_search(d, handOut, rmIfFound)
ListSpec == linked_list_init /\ [][ListNext]_listVars

-----------------------------------------------------------------------------
(* Refinement.                                                             *)

\* The queue the list stands for: its data from the tail along prev.
FromTail == CellsAlong(prev, pTail)
Queued == [i \in DOMAIN FromTail |-> dataPtr[FromTail[i]]]

Queue == INSTANCE Fifo WITH
  Nothing <- Null, queue <- Queued, got <- dataOut, freed <- deallocated

\* The two chains of pointers always hold the same cells in opposite orders, so the
\* list is the queue its users take it for: what is removed is the oldest datum
\* there is, every datum leaves once, and a removal from the middle, of either
\* end, or of the only cell leaves the rest in order.
ListIsFifo == Queue!Spec
=============================================================================

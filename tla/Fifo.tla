-------------------------------- MODULE Fifo --------------------------------
(***************************************************************************)
(* What linked_list promises its users (linked_list.h): a queue of data in *)
(* the order of the additions, taken from its old end, and searched from   *)
(* its young end.  got is the datum the last call handed out, freed the    *)
(* data the list has deallocated itself.                                   *)
(***************************************************************************)
EXTENDS Naturals, Sequences, SequencesExt

CONSTANTS Data, Nothing

VARIABLES queue, got, freed

Init == queue = <<>> /\ got = Nothing /\ freed = {}

Put(d) ==
  /\ queue' = Append(queue, d)
  /\ UNCHANGED <<got, freed>>
Take ==
  /\ queue # <<>>
  /\ got' = Head(queue)
  /\ queue' = Tail(queue)
  /\ UNCHANGED freed
Flush ==
  /\ queue' = <<>>
  /\ freed' = freed \cup Range(queue)
  /\ UNCHANGED got
Find(d) ==
  /\ got' = IF d \in Range(queue) THEN d ELSE Nothing
  /\ UNCHANGED <<queue, freed>>

\* Without somebody to hand it to, a datum that is removed is deallocated.
FindAndRemove(d, handOut) ==
  /\ \E i \in DOMAIN queue :
       /\ queue[i] = d /\ \A j \in i + 1 .. Len(queue) : queue[j] # d
       /\ queue' = RemoveAt(queue, i)
  /\ IF handOut THEN got' = d /\ UNCHANGED freed
                ELSE freed' = freed \cup {d} /\ UNCHANGED got

Next ==
  \/ Take \/ Flush
  \/ \E d \in Data : Put(d) \/ Find(d)
  \/ \E d \in Data, handOut \in BOOLEAN : FindAndRemove(d, handOut)
Spec == Init /\ [][Next]_<<queue, got, freed>>
=============================================================================

----------------------------- MODULE PriorityBag -----------------------------
(***************************************************************************)
(* What LocHeap promises the timers: a bag of rankables from which pop     *)
(* takes one that nothing outranks, and remove takes a given one.          *)
(***************************************************************************)
EXTENDS Integers

CONSTANTS Items, Rank, Nothing

VARIABLES members, got

Init == members = {} /\ got = Nothing

Push(d) == members' = members \cup {d} /\ UNCHANGED got
Pop ==
  \/ /\ members = {} /\ got' = Nothing /\ UNCHANGED members
  \/ \E d \in members :
       /\ \A e \in members : Rank[e] <= Rank[d]
       /\ got' = d /\ members' = members \ {d}
Take(d) ==
  /\ got' = IF d \in members THEN d ELSE Nothing
  /\ members' = members \ {d}

Next == Pop \/ \E d \in Items : Push(d) \/ Take(d)
Spec == Init /\ [][Next]_<<members, got>>
=============================================================================

------------------------------- MODULE BiDict -------------------------------
(***************************************************************************)
(* BiDict of LocationAPIClientBase.h: the client's ids and the adapters'   *)
(* sessions, mapped both ways, with a datum per session.  The maps are not *)
(* kept inverse of each other: set leaves what an id or a session was      *)
(* mapped to before.                                                       *)
(***************************************************************************)
EXTENDS Naturals

BiEmpty == [forward |-> <<>>, backward |-> <<>>, ext |-> <<>>]
Put(f, k, v) == [x \in DOMAIN f \cup {k} |-> IF x = k THEN v ELSE f[x]]
Drop(f, k) == [x \in DOMAIN f \ {k} |-> f[x]]
Get(f, k) == IF k \in DOMAIN f THEN f[k] ELSE 0

hasId(d, id) == id \in DOMAIN d.forward
hasSession(d, s) == s \in DOMAIN d.backward
getId(d, s) == Get(d.backward, s)
getSession(d, id) == Get(d.forward, id)
biSet(d, id, s, e) ==
  [forward |-> Put(d.forward, id, s), backward |-> Put(d.backward, s, id), ext |-> Put(d.ext, s, e)]
getAllSessions(d) == DOMAIN d.backward
rmById(d, id) ==
  [forward |-> Drop(d.forward, id), backward |-> Drop(d.backward, getSession(d, id)),
   ext |-> Drop(d.ext, getSession(d, id))]
rmBySession(d, s) ==
  [forward |-> Drop(d.forward, getId(d, s)), backward |-> Drop(d.backward, s),
   ext |-> Drop(d.ext, s)]
\* rmBySession for each of S.
rmSessions(d, S) ==
  [forward |-> [id \in DOMAIN d.forward \ {getId(d, s) : s \in S} |-> d.forward[id]],
   backward |-> [s \in DOMAIN d.backward \ S |-> d.backward[s]],
   ext |-> [s \in DOMAIN d.ext \ S |-> d.ext[s]]]
=============================================================================

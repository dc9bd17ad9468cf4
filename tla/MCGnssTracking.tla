--------------------------- MODULE MCGnssTracking ---------------------------
(* Small instances of GnssTracking.                                        *)
EXTENDS GnssTracking

CONSTANTS c1, c2

TwoClients == {c1, c2}
OwnerOf2 == [i \in 1 .. 2 |-> IF i = 1 THEN c1 ELSE c2]
OwnerOne == [id \in Ids |-> c1]
OneClient == {c1}

Opt(interval, power, distance) ==
  [size |-> 1, minInterval |-> interval, powerMode |-> power,
   longTbm |-> FALSE, distance |-> distance]

\* Two time based requests, one of them below MinInterval, and a distance one.
MixedOptions == {Opt(1, 2, FALSE), Opt(3, 1, FALSE), Opt(3, 2, TRUE)}

\* One that was never filled in, for the commands that are turned down.
LiveOptions ==
  {Opt(1, 2, FALSE), Opt(3, 2, TRUE), [Opt(3, 2, FALSE) EXCEPT !.size = 0]}

\* Sessions whose intervals and power modes are ordered differently.
PowerOptions == {Opt(3, 2, FALSE), Opt(4, 1, FALSE), Opt(2, 2, FALSE)}
=============================================================================

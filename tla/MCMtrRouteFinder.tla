-------------------------- MODULE MCMtrRouteFinder --------------------------
(***************************************************************************)
(* Values for the run of MtrRouteFinder: every network of up to five rails *)
(* around a circle a-b-d-c with a branch from d to e, either way along a   *)
(* rail short or long, and four routes. The rail of a and b may also be    *)
(* upright, of no length, and then costs less than nothing. A search of    *)
(* the whole network is over the cap by one. Costs are in twentieths of a  *)
(* block, rounded.                                                         *)
(***************************************************************************)
EXTENDS MtrRouteFinder, TLC

CONSTANTS a, b, c, d, e, north, off

MCNodes == {a, b, c, d, e}
MCRails == {{a, b}, {a, c}, {b, d}, {c, d}, {d, e}}

MCWeights == [r \in MCRails |-> IF r = {a, b} THEN {0, 33} ELSE {20, 33}]

\* 20 * Math.log1p(density) * 0.5
MCDiscount ==
  0 :> 0 @@ 1 :> 7 @@ 2 :> 11 @@ 3 :> 14 @@ 4 :> 16 @@ 5 :> 18 @@ 6 :> 19 @@
  7 :> 21 @@ 8 :> 22 @@ 9 :> 23

\* off is farther than maxRadius from every rail.
MCNear == north :> b @@ off :> NoNode

MCRoutes ==
  { <<{a}, {e}>>,
    <<{a, b}, {off}, {c, d}, {a}>>,
    <<{off}, {c}, {b, north}, {c}>>,
    <<{a, north}>> }

\* No row, one long enough for every route, one only for the short ones.
MCSnapshots == {<< >>, <<a, b, d, e>>, <<c, d>>}

MCLevels == {0, -7, -11, -14}
=============================================================================

--------------------------- MODULE MtrRouteFinder ---------------------------
(***************************************************************************)
(* The geometry of one railway route: lib/mtr/mtr-route-finder.ts and what *)
(* transportation/railway/snapshot/compute (rail-graph.ts,                 *)
(* route-geometry.ts) does before and after it. The ends of the route's    *)
(* platforms are moved to the rails, the cheapest way from each stop to    *)
(* the next is searched, the ways are joined, and what is published is the *)
(* result, the path published before, or no path over the rails at all.    *)
(*                                                                         *)
(* A step of the search takes one candidate off the heap, a step of        *)
(* reconstructPath follows one link. Costs are integers of either sign: a  *)
(* rail between two nodes of one column has length zero, and density makes *)
(* every rail cheaper. Callers snap platforms first, so the two failures   *)
(* for nodes outside the graph do not occur.                               *)
(***************************************************************************)
EXTENDS Integers, SequencesExt, FiniteSetsExt

CONSTANTS
  Nodes,      \* the rail nodes
  Rails,      \* the rails there may be, each the set of its two ends
  Weights,    \* of a rail: its distances with their penalties
  Discount,   \* how much cheaper a connection of a given density is
  MaxDensity, \* more than the density of any connection
  Near,       \* positions off the rails: the node within maxRadius, or NoNode
  Routes,     \* the platforms of routes, each the set of its ends
  NoNode,
  MaxVisits,  \* MAX_SEARCH_VISITS
  MaxTrail,   \* bound: how long a list the memory holds
  Snapshots,  \* the path of the READY row of the route, or << >> without one
  Levels      \* heights, to tell networks with gainful round trips (Levelled)

ASSUME RouteAssumption ==
  /\ IsFiniteSet(Nodes) /\ NoNode \notin Nodes
  /\ Rails \subseteq kSubset(2, Nodes)
  /\ Weights \in [Rails -> SUBSET Nat]
  /\ MaxDensity \in Nat /\ MaxVisits \in Nat /\ MaxTrail \in Nat
  /\ Discount \in [0 .. MaxDensity -> Nat]
  /\ Near \in [DOMAIN Near -> Nodes \cup {NoNode}]
  /\ Routes \subseteq Seq(SUBSET (Nodes \cup DOMAIN Near))
  /\ \A r \in Routes : Cardinality(Nodes) + Len(r) <= MaxDensity
  /\ Snapshots \subseteq Seq(Nodes) /\ Snapshots # {}
  /\ Levels \subseteq Int /\ Levels # {}

VARIABLES
  weight,    \* of each connection of the rail graph, a rail in one direction
  platforms, \* the platforms of the route
  density,   \* connectionDensity
  leg,       \* segmentIndex + 1
  pc,        \* between legs, searching, reconstructing, done, out of memory
  distances, \* of the search: what a node was reached for,
  previous,  \* and from where,
  visited,   \* what was taken off the heap,
  openSet,   \* what is on it
  trail,     \* pathIds
  route,     \* collected
  failure,   \* lastFailure
  drawn,     \* where the geometry comes from,
  published  \* and its path over the rails

search    == <<distances, previous, visited, openSet>>
routeVars == <<weight, platforms, density, leg, pc, search, trail, route,
               failure, drawn, published>>

-----------------------------------------------------------------------------
(***************************************************************************)
(* The rail graph. appendRailEdge joins two nodes in both directions, at   *)
(* costs of their own.                                                     *)
(***************************************************************************)
Connections(rails) == {e \in Nodes \X Nodes : {e[1], e[2]} \in rails}
Adjacent(n)        == {m \in Nodes : <<n, m>> \in DOMAIN weight}

CalculateEdgeCost(e) == weight[e] - Discount[density[e]]

Snapped_OffRails(platform) ==
  (platform \cap Nodes) \cup {Near[x] : x \in platform \cap DOMAIN Near}

\* extractPlatformNodes and snapPlatformNodesToRailGraph: a platform with no
\* rail near either end is dropped.
Snapped(platform) ==
  (platform \cap Nodes) \cup ({Near[x] : x \in platform \cap DOMAIN Near} \ {NoNode})

HasNodes(platform) == Snapped(platform) # {}

\* The k-th stop is the k-th platform that is kept.
Stops ==
  LET Kept(i)   == {j \in 1 .. i : HasNodes(platforms[j])}
      IsKth(i, k) == HasNodes(platforms[i]) /\ Cardinality(Kept(i)) = k
  IN  [k \in 1 .. Cardinality(Kept(Len(platforms))) |->
        Snapped(platforms[CHOOSE i \in DOMAIN platforms : IsKth(i, k)])]

NoFunction == [n \in {} |-> 0]

Init ==
  /\ \E rails \in SUBSET Rails :
       /\ weight \in [Connections(rails) -> UNION {Weights[r] : r \in rails}]
       /\ \A e \in DOMAIN weight : weight[e] \in Weights[{e[1], e[2]}]
  /\ platforms \in Routes
  /\ density = [e \in DOMAIN weight |-> Cardinality(Adjacent(e[1]))]
  /\ leg = 1
  /\ pc = "leg"
  /\ distances = NoFunction /\ previous = NoFunction
  /\ visited = {} /\ openSet = {}
  /\ trail = << >> /\ route = << >>
  /\ failure = "none"
  /\ drawn = "nothing" /\ published = << >>

-----------------------------------------------------------------------------
(***************************************************************************)
(* findPathBetween.                                                        *)
(***************************************************************************)
Candidate(n, cost) == [id |-> n, cost |-> cost]

\* There is a stop to go from and one to go to.
IsLeg == {leg, leg + 1} \subseteq DOMAIN Stops

StartLeg ==
  /\ pc = "leg" /\ IsLeg
  /\ pc' = "search"
  /\ distances' = [n \in Stops[leg] |-> 0]
  /\ previous' = [n \in Stops[leg] |-> NoNode]
  /\ visited' = {}
  /\ openSet' = {Candidate(n, 0) : n \in Stops[leg]}
  /\ UNCHANGED <<weight, platforms, density, leg, trail, route, failure,
                 drawn, published>>

\* What the heap may give: one of the cheapest.
Pops_Any(c) == pc = "search" /\ c \in openSet

Pops(c) ==
  /\ pc = "search" /\ c \in openSet
  /\ \A d \in openSet : c.cost <= d.cost

IsStale(c) == c.cost > distances[c.id] \/ c.id \in visited

SkipCandidate(c) ==
  /\ Pops(c) /\ IsStale(c)
  /\ openSet' = openSet \ {c}
  /\ UNCHANGED <<weight, platforms, density, leg, pc, distances, previous, visited,
                 trail, route, failure, drawn, published>>

Enough(way) == Len(way) >= Max({2, Len(platforms)})

Publish_Unnamed(way) ==
  IF Enough(way)
  THEN drawn' = "graph" /\ published' = way
  ELSE \E last \in Snapshots :
         IF Enough(last)
         THEN drawn' = "graph" /\ published' = last
         ELSE drawn' = "fallback" /\ published' = << >>

\* computeRouteGeometrySnapshots. A path that the finder did not find, or that
\* has fewer nodes than the route has platforms, gives way to the one published
\* before, whatever stops the route had then.
Publish(way) ==
  IF Enough(way)
  THEN drawn' = "graph" /\ published' = way
  ELSE \E last \in Snapshots :
         IF Enough(last)
         THEN drawn' = "preserved" /\ published' = last
         ELSE drawn' = "fallback" /\ published' = << >>

Fails(reason) ==
  /\ pc' = "done"
  /\ failure' = reason
  /\ Publish(<< >>)
  /\ UNCHANGED <<weight, platforms, density, leg, distances, previous, trail, route>>

OverCap_Early == Cardinality(visited) + 1 >= MaxVisits

\* The cap is looked at before the target.
OverCap == Cardinality(visited) + 1 > MaxVisits

ExceedCap(c) ==
  /\ Pops(c) /\ ~IsStale(c) /\ OverCap
  /\ visited' = visited \cup {c.id}
  /\ openSet' = openSet \ {c}
  /\ Fails("visit-cap-exceeded")

ReachTarget(c) ==
  /\ Pops(c) /\ ~IsStale(c) /\ ~OverCap
  /\ c.id \in Stops[leg + 1]
  /\ visited' = visited \cup {c.id}
  /\ openSet' = openSet \ {c}
  /\ pc' = "trace"
  /\ trail' = <<c.id>>
  /\ UNCHANGED <<weight, platforms, density, leg, distances, previous, route,
                 failure, drawn, published>>

\* The neighbours that are reached for less through n.
Better_New(n) == {m \in Adjacent(n) : m \notin DOMAIN distances}

Better_EdgeOnly(n) ==
  {m \in Adjacent(n) :
     \/ m \notin DOMAIN distances
     \/ CalculateEdgeCost(<<n, m>>) < distances[m]}

Better(n) ==
  {m \in Adjacent(n) :
     \/ m \notin DOMAIN distances
     \/ distances[n] + CalculateEdgeCost(<<n, m>>) < distances[m]}

Expand(c) ==
  LET n == c.id
      Cost(m) == distances[n] + CalculateEdgeCost(<<n, m>>)
  IN  /\ Pops(c) /\ ~IsStale(c) /\ ~OverCap
      /\ n \notin Stops[leg + 1]
      /\ visited' = visited \cup {n}
      /\ distances' = [m \in DOMAIN distances \cup Better(n) |->
                        IF m \in Better(n) THEN Cost(m) ELSE distances[m]]
      /\ previous' = [m \in DOMAIN distances \cup Better(n) |->
                        IF m \in Better(n) THEN n ELSE previous[m]]
      /\ openSet' = (openSet \ {c}) \cup {Candidate(m, Cost(m)) : m \in Better(n)}
      /\ UNCHANGED <<weight, platforms, density, leg, pc, trail, route, failure,
                 drawn, published>>

NoPath ==
  /\ pc = "search" /\ openSet = {}
  /\ Fails("no-path")
  /\ UNCHANGED <<visited, openSet>>

-----------------------------------------------------------------------------
(***************************************************************************)
(* reconstructPath, the rest of findRoute, buildGeometryFromGraph and its  *)
(* caller.                                                                 *)
(***************************************************************************)
TraceBack ==
  /\ pc = "trace" /\ previous[Head(trail)] # NoNode
  /\ Len(trail) < MaxTrail
  /\ trail' = <<previous[Head(trail)]>> \o trail
  /\ UNCHANGED <<weight, platforms, density, leg, pc, search, route, failure,
                 drawn, published>>

\* The loop has no other end than a link to nothing: where the links go round,
\* the list grows until the process is out of memory.
Exhaust ==
  /\ pc = "trace" /\ previous[Head(trail)] # NoNode
  /\ Len(trail) >= MaxTrail
  /\ pc' = "dead"
  /\ UNCHANGED <<weight, platforms, density, leg, search, trail, route, failure,
                 drawn, published>>

Traced == pc = "trace" /\ previous[Head(trail)] = NoNode

Joined_DropFirst(way) == IF route = << >> THEN way ELSE route \o Tail(way)

Joined(way) ==
  route \o (IF route # << >> /\ Last(route) = Head(way) THEN Tail(way) ELSE way)

Ridden(way) == {<<way[i], way[i + 1]>> : i \in 1 .. Len(way) - 1}

EndLeg ==
  /\ Traced
  /\ route' = Joined(trail)
  /\ density' = [e \in DOMAIN density |->
                  IF e \in Ridden(trail) THEN density[e] + 1 ELSE density[e]]
  /\ leg' = leg + 1
  /\ pc' = "leg"
  /\ distances' = NoFunction /\ previous' = NoFunction
  /\ visited' = {} /\ openSet' = {}
  /\ trail' = << >>
  /\ UNCHANGED <<weight, platforms, failure, drawn, published>>

\* A route of one stop is that stop.
Collected == IF DOMAIN Stops = {1} THEN SetToSeq(Stops[1]) ELSE route

EndRoute ==
  /\ pc = "leg" /\ ~IsLeg
  /\ pc' = "done"
  /\ route' = Collected
  /\ Publish(Collected)
  /\ UNCHANGED <<weight, platforms, density, leg, search, trail, failure>>

\* Nothing is left to do.
Done == pc \in {"done", "dead"} /\ UNCHANGED routeVars

Next ==
  \/ StartLeg
  \/ \E c \in openSet :
       SkipCandidate(c) \/ ExceedCap(c) \/ ReachTarget(c) \/ Expand(c)
  \/ NoPath
  \/ TraceBack
  \/ Exhaust
  \/ EndLeg
  \/ EndRoute
  \/ Done

Spec == Init /\ [][Next]_routeVars

-----------------------------------------------------------------------------
(***************************************************************************)
(* Properties.                                                             *)
(***************************************************************************)
Reasons == {"none", "no-path", "visit-cap-exceeded"}

TypeOK ==
  /\ DOMAIN weight \subseteq Nodes \X Nodes
  /\ weight \in [DOMAIN weight -> Nat]
  /\ platforms \in Routes
  /\ density \in [DOMAIN weight -> 0 .. MaxDensity]
  /\ leg \in Nat \ {0}
  /\ pc \in {"leg", "search", "trace", "done", "dead"}
  /\ DOMAIN distances \subseteq Nodes
  /\ distances \in [DOMAIN distances -> Int]
  /\ previous \in [DOMAIN distances -> Nodes \cup {NoNode}]
  /\ visited \subseteq DOMAIN distances
  /\ openSet \subseteq [id : DOMAIN distances, cost : Int]
  /\ trail \in Seq(Nodes) /\ route \in Seq(Nodes)
  /\ failure \in Reasons
  /\ drawn \in {"nothing", "graph", "preserved", "fallback"}
  /\ published \in Seq(Nodes)

\* No connection is so short and so dense that riding it costs less than nothing.
NoGain == \A e \in DOMAIN weight : CalculateEdgeCost(e) >= 0

\* Some heights of the nodes make up for every such connection, which is to say
\* that no round trip costs less than nothing.
IsLevel(level) ==
  \A e \in DOMAIN weight : CalculateEdgeCost(e) + level[e[1]] - level[e[2]] >= 0

Levelled == \E level \in [Nodes -> Levels] : IsLevel(level)

\* What a search has once taken off the heap it reaches for the same costs, from
\* the same node, to its end, where no ride costs less than nothing: visited
\* nodes are not looked at again, so a way found later would be lost.
SettledIsFinal ==
  [][NoGain => \A n \in visited \cap visited' :
       distances'[n] = distances[n] /\ previous'[n] = previous[n]]_routeVars

\* reconstructPath comes to no node twice, and so to an end, but where a round
\* trip costs less than nothing. Single rides may: links that are overwritten
\* behind the search must not close a circle.
TrailIsSimple == IsInjective(trail) \/ ~Levelled

\* All ways over rails from one of S to one of T, and what they cost.
SimpleWays ==
  {way \in SetToAllKPermutations(Nodes) \ {<< >>} :
     \A i \in 1 .. Len(way) - 1 : {way[i], way[i + 1]} \in Rails}

Ways(S, T) ==
  {way \in SimpleWays : /\ way[1] \in S /\ Last(way) \in T
                        /\ Ridden(way) \subseteq DOMAIN weight}

CostOf(way) == MapThenSumSet(CalculateEdgeCost, Ridden(way))

Legs == Ways(Stops[leg], Stops[leg + 1])

\* The way found for a leg goes over rails from stop to stop and comes to no node
\* twice, and where no ride costs less than nothing it is as cheap as any, at the
\* densities the legs before it have left behind.
LegIsCheapest ==
  Traced => /\ trail \in Legs
            /\ NoGain => \A way \in Legs : CostOf(trail) <= CostOf(way)

\* No path is reported only for stops that no rails join, and the cap, where no
\* ride costs less than nothing, only when more nodes than it allows are no
\* farther than the stop.
AsNear ==
  {n \in Nodes : \E way \in Ways(Stops[leg], {n}) :
                   \A other \in Legs : CostOf(way) <= CostOf(other)}

FailureIsTrue ==
  /\ failure = "no-path" => Legs = {}
  /\ failure = "visit-cap-exceeded" /\ NoGain => Cardinality(AsNear) > MaxVisits

\* The points joined from the legs never leave the rails, but from one end of a
\* platform to the other.
RouteIsRail ==
  \A i \in 1 .. Len(route) - 1 :
    \/ <<route[i], route[i + 1]>> \in DOMAIN weight
    \/ \E s \in DOMAIN Stops : {route[i], route[i + 1]} \subseteq Stops[s]

\* A path that is published as drawn from the rails serves the stops that have
\* a rail near, in their order; one that is preserved need not.
ServesStops ==
  drawn = "graph" =>
    \E at \in [DOMAIN Stops -> DOMAIN published] :
      /\ \A i \in DOMAIN Stops : published[at[i]] \in Stops[i]
      /\ \A i, j \in DOMAIN Stops : i <= j => at[i] <= at[j]
=============================================================================

----------------------- MODULE MtrRouteFinder_proofs -----------------------
(***************************************************************************)
(* What MtrRouteFinder promises for all networks, weights and routes.      *)
(*                                                                         *)
(* A ride may cost less than nothing. What holds all the same: the types,  *)
(* that the links of previous go over rails and back into what has been    *)
(* visited (Links), that an empty heap leaves nothing behind (Covered),    *)
(* that a trail which ends repeats no node (TracedIsSimple). No link goes  *)
(* round unless a round trip costs less than nothing: seen from any        *)
(* heights that make up for the gains, every link climbs, in costs or, on  *)
(* the level, in steps (Climbs).                                           *)
(*                                                                         *)
(* Where no ride costs less than nothing, Dijkstra's argument applies:     *)
(* what has been visited is no farther than what has not (Frontier), which *)
(* the heap's order keeps true. LegIsCheapest and FailureIsTrue compare    *)
(* with all ways there are: a way to the next stop has yet to pass a node  *)
(* that is reached and not visited (UnvisitedOnTheWay), which is no nearer *)
(* than what comes off the heap.                                           *)
(***************************************************************************)
EXTENDS MtrRouteFinder, FiniteSetTheorems, TLAPS

\* Of a search: a candidate on the heap for every node that is reached and not
\* visited, and visited before unvisited.
Frontier ==
  /\ \A v \in DOMAIN distances \ visited : Candidate(v, distances[v]) \in openSet
  /\ \A c \in openSet : distances[c.id] <= c.cost
  /\ NoGain => \A u \in visited, v \in DOMAIN distances \ visited :
                 distances[u] <= distances[v]

Links ==
  \A n \in DOMAIN distances :
    \/ previous[n] = NoNode /\ n \in Stops[leg]
    \/ previous[n] \in visited /\ <<previous[n], n>> \in DOMAIN weight

IsOnRails(way) ==
  \A i \in 1 .. Len(way) - 1 : <<way[i], way[i + 1]>> \in DOMAIN weight

\* The way traced so far follows the links to the next stop.
Tracing ==
  /\ trail # << >> /\ IsOnRails(trail)
  /\ \A i \in 1 .. Len(trail) - 1 : trail[i] = previous[trail[i + 1]]
  /\ \A i \in 1 .. Len(trail) : trail[i] \in DOMAIN distances
  /\ trail[Len(trail)] \in Stops[leg + 1]

\* Where the next leg begins.
Joins == pc = "leg" /\ route # << >> => leg \in DOMAIN Stops /\ route[Len(route)] \in Stops[leg]

Phases ==
  /\ pc \in {"search", "trace", "dead"} => IsLeg /\ Links
  /\ pc = "search" => Frontier
  /\ pc \in {"trace", "dead"} => Tracing
  /\ pc \in {"search", "trace"} /\ route # << >> => route[Len(route)] \in Stops[leg]

\* A leg adds one to the density of what it rides.
Dense == \A e \in DOMAIN weight : density[e] <= Cardinality(Nodes) + leg - 1

Natural == NoGain => \A n \in DOMAIN distances : distances[n] \in Nat

RouteInv == TypeOK /\ Phases /\ Joins /\ RouteIsRail /\ Dense /\ Natural

-----------------------------------------------------------------------------
(***************************************************************************)
(* Lemmas about the definitions.                                           *)
(***************************************************************************)
LEMMA StopsAreNodes ==
  ASSUME NEW i \in DOMAIN Stops
  PROVE  Stops[i] \subseteq Nodes
<1>1. \A platform : Snapped(platform) \subseteq Nodes
  BY RouteAssumption DEF Snapped
<1> QED BY <1>1 DEF Stops

LEMMA CostIsInteger ==
  ASSUME TypeOK, NEW e \in DOMAIN weight
  PROVE  CalculateEdgeCost(e) \in Int /\ (NoGain => CalculateEdgeCost(e) \in Nat)
<1>1. weight[e] \in Nat /\ density[e] \in 0 .. MaxDensity
  BY DEF TypeOK
<1>2. Discount[density[e]] \in Nat
  BY <1>1, RouteAssumption
<1>3. CalculateEdgeCost(e) \in Int
  BY <1>1, <1>2 DEF CalculateEdgeCost
<1> QED BY <1>3 DEF NoGain

\* NoGain looks at the graph and the densities alone.
LEMMA SameGain ==
  ASSUME UNCHANGED <<weight, density>>
  PROVE  /\ NoGain' = NoGain
         /\ \A e : CalculateEdgeCost(e)' = CalculateEdgeCost(e)
         /\ \A level : IsLevel(level)' = IsLevel(level)
  BY DEF NoGain, IsLevel, CalculateEdgeCost

LEMMA BetterIsAdjacent ==
  ASSUME NEW n \in Nodes, NEW m \in Better(n)
  PROVE  m \in Nodes /\ <<n, m>> \in DOMAIN weight
  BY DEF Better, Adjacent

LEMMA FunctionIsSeq ==
  ASSUME NEW S, NEW n \in Nat, NEW f \in [1 .. n -> S]
  PROVE  f \in Seq(S)
  OBVIOUS

\* A finite set in some order.
LEMMA SetToSeqIsSeq ==
  ASSUME NEW S \in SUBSET Nodes
  PROVE  SetToSeq(S) \in Seq(S)
<1>1. Cardinality(S) \in Nat /\ ExistsBijection(1 .. Cardinality(S), S)
  BY FS_Subset, FS_CardinalityType, RouteAssumption
<1>2. PICK f \in [1 .. Cardinality(S) -> S] : IsInjective(f)
  BY <1>1 DEF ExistsBijection, Bijection, Injection, IsInjective
<1>3. SetToSeq(S) \in [1 .. Cardinality(S) -> S]
  BY <1>2 DEF SetToSeq
<1> QED BY <1>1, <1>3, FunctionIsSeq

LEMMA UpTo ==
  ASSUME NEW n \in Nat
  PROVE  IsFiniteSet(1 .. n) /\ Cardinality(1 .. n) = n
  BY FS_Interval

\* The stops are numbered without a gap, and no more than the platforms.
LEMMA StopsAreNumbered ==
  ASSUME TypeOK
  PROVE  \E n \in 0 .. Len(platforms) : DOMAIN Stops = 1 .. n
<1> DEFINE kept == {j \in 1 .. Len(platforms) : HasNodes(platforms[j])}
<1>1. Len(platforms) \in Nat
  BY RouteAssumption DEF TypeOK
<1>2. Cardinality(kept) \in 0 .. Len(platforms)
  <2>1. kept \in SUBSET (1 .. Len(platforms))
    OBVIOUS
  <2>2. IsFiniteSet(1 .. Len(platforms)) /\ Cardinality(1 .. Len(platforms)) = Len(platforms)
    BY <1>1, UpTo
  <2> HIDE DEF kept
  <2>3. Cardinality(kept) \in Nat /\ Cardinality(kept) <= Len(platforms)
    BY <2>1, <2>2, FS_Subset, FS_CardinalityType
  <2> QED BY <1>1, <2>3
<1>3. DOMAIN Stops = 1 .. Cardinality(kept)
  BY DEF Stops
<1> QED BY <1>2, <1>3

\* What is published is a path.
LEMMA PublishIsPath ==
  ASSUME TypeOK, NEW way \in Seq(Nodes), Publish(way)
  PROVE  /\ drawn' \in {"graph", "preserved", "fallback"} /\ published' \in Seq(Nodes)
         /\ drawn' = "graph" => published' = way /\ Len(way) >= 2
<1>1. Enough(way) => Len(way) >= 2
  <2>1. Len(platforms) \in Nat
    BY RouteAssumption DEF TypeOK
  <2>2. \E m \in {2, Len(platforms)} : \A k \in {2, Len(platforms)} : m >= k
    BY <2>1
  <2>3. Max({2, Len(platforms)}) \in Nat /\ Max({2, Len(platforms)}) >= 2
    BY <2>1, <2>2 DEF Max
  <2> QED BY <2>3 DEF Enough
<1>2. CASE Enough(way)
  BY <1>1, <1>2 DEF Publish
<1>3. CASE ~Enough(way)
  <2>1. PICK last \in Snapshots :
          IF Enough(last) THEN drawn' = "preserved" /\ published' = last
                          ELSE drawn' = "fallback" /\ published' = << >>
    BY <1>3 DEF Publish
  <2>2. last \in Seq(Nodes) /\ << >> \in Seq(Nodes)
    BY RouteAssumption
  <2> QED BY <2>1, <2>2
<1> QED BY <1>2, <1>3

LEMMA Starts ==
  ASSUME Init
  PROVE  RouteInv
<1>1. PICK rails \in SUBSET Rails :
        weight \in [Connections(rails) -> UNION {Weights[r] : r \in rails}]
  BY DEF Init
<1>2. UNION {Weights[r] : r \in rails} \subseteq Nat
  <2>1. \A r \in rails : Weights[r] \subseteq Nat
    BY RouteAssumption
  <2> QED BY <2>1
<1>3. DOMAIN weight \subseteq Nodes \X Nodes /\ weight \in [DOMAIN weight -> Nat]
  BY <1>1, <1>2 DEF Connections
<1>4. ASSUME NEW n
      PROVE  /\ Cardinality(Adjacent(n)) \in Nat
             /\ Cardinality(Adjacent(n)) <= Cardinality(Nodes)
  <2>1. Adjacent(n) \in SUBSET Nodes /\ IsFiniteSet(Nodes)
    BY RouteAssumption DEF Adjacent
  <2> QED BY <2>1, FS_Subset, FS_CardinalityType
<1>5. /\ Cardinality(Nodes) \in Nat /\ Cardinality(Nodes) <= MaxDensity
      /\ MaxDensity \in Nat /\ platforms \in Routes
  <2>1. platforms \in Routes /\ IsFiniteSet(Nodes) /\ MaxDensity \in Nat
    BY RouteAssumption DEF Init
  <2>2. Len(platforms) \in Nat /\ Cardinality(Nodes) + Len(platforms) <= MaxDensity
    BY <2>1, RouteAssumption
  <2> QED BY <2>1, <2>2, FS_CardinalityType
<1>6. density \in [DOMAIN weight -> 0 .. MaxDensity]
  <2>1. \A n : Cardinality(Adjacent(n)) \in 0 .. MaxDensity
    BY <1>4, <1>5
  <2> QED BY <2>1 DEF Init
<1>7. TypeOK
  BY <1>3, <1>5, <1>6 DEF Init, TypeOK, NoFunction, Reasons
<1>8. Dense
  <2>1. \A e \in DOMAIN weight : density[e] = Cardinality(Adjacent(e[1])) /\ leg = 1
    BY DEF Init
  <2> QED BY <1>4, <1>5, <2>1 DEF Dense
<1> QED
  BY <1>7, <1>8 DEF RouteInv, Phases, Joins, RouteIsRail, Natural, NoFunction, Init

-----------------------------------------------------------------------------
(***************************************************************************)
(* The steps of the search.                                                *)
(***************************************************************************)
LEMMA SameStops ==
  ASSUME UNCHANGED platforms
  PROVE  Stops' = Stops
  BY DEF Stops

LEMMA StartLegStep ==
  ASSUME RouteInv, StartLeg
  PROVE  RouteInv'
<1> USE DEF RouteInv
<1>1. leg \in DOMAIN Stops /\ Stops[leg] \subseteq Nodes /\ Stops' = Stops
  BY StopsAreNodes, SameStops DEF StartLeg, IsLeg
<1>2. TypeOK'
  BY <1>1 DEF StartLeg, TypeOK, Candidate
<1>3. Frontier'
  BY <1>1 DEF StartLeg, Frontier, Candidate
<1>4. Links'
  BY <1>1 DEF StartLeg, Links
<1>5. Phases' /\ Joins' /\ RouteIsRail'
  BY <1>1, <1>3, <1>4 DEF StartLeg, Phases, Joins, RouteIsRail, IsLeg
<1>6. Dense' /\ Natural'
  BY DEF StartLeg, Dense, Natural
<1> QED BY <1>2, <1>5, <1>6

LEMMA SkipStep ==
  ASSUME RouteInv, NEW c \in openSet, SkipCandidate(c)
  PROVE  RouteInv'
<1> USE DEF RouteInv
<1>1. TypeOK' /\ Stops' = Stops
  BY SameStops DEF SkipCandidate, TypeOK
<1>2. Frontier'
  <2>1. Frontier /\ pc = "search"
    BY DEF SkipCandidate, Pops, Phases
  <2>2. \A v \in DOMAIN distances \ visited : Candidate(v, distances[v]) # c
    <3> SUFFICES ASSUME NEW v \in DOMAIN distances \ visited,
                        Candidate(v, distances[v]) = c
                 PROVE  FALSE
      OBVIOUS
    <3>1. c.id = v /\ c.cost = distances[v] /\ distances[v] \in Int
      BY DEF Candidate, TypeOK
    <3> QED BY <3>1 DEF SkipCandidate, IsStale
  <2>3. NoGain' = NoGain
    BY SameGain DEF SkipCandidate
  <2> QED BY <2>1, <2>2, <2>3 DEF SkipCandidate, Frontier
<1>3. Phases' /\ Joins' /\ RouteIsRail'
  BY <1>1, <1>2 DEF SkipCandidate, Pops, Phases, Joins, RouteIsRail, IsLeg, Links
<1>4. Dense' /\ Natural'
  BY SameGain DEF SkipCandidate, Dense, Natural
<1> QED BY <1>1, <1>3, <1>4

LEMMA FailStep ==
  ASSUME RouteInv,
         NoPath \/ \E c \in openSet : ExceedCap(c)
  PROVE  RouteInv'
<1> USE DEF RouteInv
<1>1. /\ pc' = "done" /\ failure' \in Reasons /\ Publish(<< >>)
      /\ visited' \subseteq DOMAIN distances /\ openSet' \subseteq openSet
      /\ UNCHANGED <<weight, platforms, density, leg, distances, previous, trail, route>>
  BY DEF NoPath, ExceedCap, Fails, Reasons, TypeOK
<1>2. drawn' \in {"graph", "preserved", "fallback"} /\ published' \in Seq(Nodes)
  <2>1. << >> \in Seq(Nodes)
    OBVIOUS
  <2> QED BY <1>1, <2>1, PublishIsPath
<1>3. TypeOK' /\ Stops' = Stops
  BY <1>1, <1>2, SameStops DEF TypeOK
<1>4. Dense' /\ Natural'
  BY <1>1, SameGain DEF Dense, Natural
<1> QED BY <1>1, <1>3, <1>4 DEF Phases, Joins, RouteIsRail

LEMMA ReachStep ==
  ASSUME RouteInv, NEW c \in openSet, ReachTarget(c)
  PROVE  RouteInv'
<1> USE DEF RouteInv
<1>1. c.id \in DOMAIN distances /\ c.id \in Nodes
  BY DEF TypeOK
<1>2. TypeOK' /\ Stops' = Stops
  BY <1>1, SameStops DEF ReachTarget, TypeOK
<1>3. Tracing'
  BY <1>1, <1>2 DEF ReachTarget, Tracing, IsOnRails
<1>4. Dense' /\ Natural'
  BY SameGain DEF ReachTarget, Dense, Natural
<1> QED
  BY <1>2, <1>3, <1>4 DEF ReachTarget, Pops, Phases, Joins, RouteIsRail, IsLeg, Links

\* The candidate that is expanded carries its node's distance, and is no farther
\* than any other that is not visited.
LEMMA Nearest ==
  ASSUME RouteInv, NEW c \in openSet, Pops(c), ~IsStale(c)
  PROVE  /\ c.id \in DOMAIN distances \ visited
         /\ distances[c.id] = c.cost
         /\ \A v \in DOMAIN distances \ visited : distances[c.id] <= distances[v]
         /\ NoGain => \A u \in visited : distances[u] <= distances[c.id]
<1> USE DEF RouteInv
<1>1. Frontier
  BY DEF Pops, Phases
<1>2. c.id \in DOMAIN distances /\ c.cost \in Int /\ distances[c.id] \in Int
  BY DEF TypeOK
<1>3. c.id \notin visited /\ distances[c.id] = c.cost
  BY <1>1, <1>2 DEF IsStale, Frontier
<1>4. ASSUME NEW v \in DOMAIN distances \ visited
      PROVE  distances[c.id] <= distances[v]
  BY <1>1, <1>3 DEF Pops, Frontier, Candidate
<1> QED BY <1>1, <1>2, <1>3, <1>4 DEF Frontier

\* Nothing visited is reached for less, where no ride costs less than nothing.
LEMMA VisitedIsNotBetter ==
  ASSUME RouteInv, NoGain, NEW c \in openSet, Pops(c), ~IsStale(c)
  PROVE  Better(c.id) \cap (visited \cup {c.id}) = {}
<1> SUFFICES ASSUME NEW m \in Better(c.id), m \in visited \cup {c.id}
             PROVE  FALSE
  OBVIOUS
<1>1. c.id \in Nodes /\ c.id \in DOMAIN distances
  BY DEF RouteInv, TypeOK
<1>2. <<c.id, m>> \in DOMAIN weight
  BY <1>1, BetterIsAdjacent
<1>3. CalculateEdgeCost(<<c.id, m>>) \in Nat
  BY <1>2, CostIsInteger DEF RouteInv
<1>4. m \in DOMAIN distances /\ distances[m] <= distances[c.id]
  BY Nearest DEF RouteInv, TypeOK
<1>5. distances[m] \in Nat /\ distances[c.id] \in Nat
  BY <1>1, <1>4 DEF RouteInv, Natural
<1> QED BY <1>3, <1>4, <1>5 DEF Better

LEMMA ExpandStep ==
  ASSUME RouteInv, NEW c \in openSet, Expand(c)
  PROVE  RouteInv'
<1> DEFINE n == c.id
           Cost(m) == distances[n] + CalculateEdgeCost(<<n, m>>)
<1> USE DEF RouteInv
<1>a. Pops(c) /\ ~IsStale(c) /\ pc = "search" /\ Frontier /\ Links
  BY DEF Expand, Pops, Phases
<1>b. n \in Nodes /\ n \in DOMAIN distances /\ distances[n] \in Int /\ n \notin visited
  BY <1>a, Nearest DEF TypeOK
<1>c. \A m \in Better(n) : /\ m \in Nodes /\ <<n, m>> \in DOMAIN weight
                          /\ Cost(m) \in Int
  BY <1>b, BetterIsAdjacent, CostIsInteger
<1>i. ASSUME NoGain, NEW m \in Better(n) PROVE distances[n] <= Cost(m)
  <2>1. CalculateEdgeCost(<<n, m>>) \in Nat
    BY <1>b, <1>i, BetterIsAdjacent, CostIsInteger
  <2> QED BY <1>b, <2>1
<1>d. NoGain => Better(n) \cap (visited \cup {n}) = {}
  BY <1>a, VisitedIsNotBetter
<1>e. /\ visited' = visited \cup {n}
      /\ distances' = [m \in DOMAIN distances \cup Better(n) |->
                        IF m \in Better(n) THEN Cost(m) ELSE distances[m]]
      /\ previous' = [m \in DOMAIN distances \cup Better(n) |->
                        IF m \in Better(n) THEN n ELSE previous[m]]
      /\ openSet' = (openSet \ {c}) \cup {Candidate(m, Cost(m)) : m \in Better(n)}
      /\ UNCHANGED <<weight, platforms, density, leg, pc, trail, route, failure,
                     drawn, published>>
  BY DEF Expand
<1>f. Stops' = Stops
  BY <1>e, SameStops
<1> HIDE DEF n, Cost
<1>g. \A m \in Better(n) : m \in DOMAIN distances' /\ distances'[m] = Cost(m)
  BY <1>e
<1>h. \A m \in DOMAIN distances \ Better(n) :
        m \in DOMAIN distances' /\ distances'[m] = distances[m]
  BY <1>e
<1>1. TypeOK'
  <2>1. DOMAIN distances' \subseteq Nodes /\ distances' \in [DOMAIN distances' -> Int]
    BY <1>c, <1>e DEF TypeOK
  <2>2. previous' \in [DOMAIN distances' -> Nodes \cup {NoNode}]
    BY <1>b, <1>c, <1>e DEF TypeOK
  <2>3. openSet' \subseteq [id : DOMAIN distances', cost : Int]
    <3>1. \A d \in openSet : d \in [id : DOMAIN distances', cost : Int]
      BY <1>g, <1>h DEF TypeOK
    <3>2. \A m \in Better(n) :
            Candidate(m, Cost(m)) \in [id : DOMAIN distances', cost : Int]
      BY <1>c, <1>g DEF Candidate
    <3> QED BY <1>e, <3>1, <3>2
  <2>4. visited' \subseteq DOMAIN distances'
    BY <1>b, <1>e DEF TypeOK
  <2>5. /\ DOMAIN weight' \subseteq Nodes \X Nodes /\ weight' \in [DOMAIN weight' -> Nat]
        /\ platforms' \in Routes /\ density' \in [DOMAIN weight' -> 0 .. MaxDensity]
        /\ leg' \in Nat \ {0} /\ pc' = "search" /\ trail' \in Seq(Nodes)
        /\ route' \in Seq(Nodes) /\ failure' \in Reasons
        /\ drawn' \in {"nothing", "graph", "preserved", "fallback"}
        /\ published' \in Seq(Nodes)
    BY <1>a, <1>e DEF TypeOK
  <2> QED BY <2>1, <2>2, <2>3, <2>4, <2>5 DEF TypeOK
<1>2. Frontier'
  <2>0. /\ distances[n] = c.cost
        /\ \A v \in DOMAIN distances \ visited : distances[n] <= distances[v]
        /\ NoGain => \A u \in visited : distances[u] <= distances[n]
    BY <1>a, Nearest DEF n
  <2>1. ASSUME NoGain, NEW u \in visited', NEW v \in DOMAIN distances' \ visited'
        PROVE  distances'[u] <= distances'[v]
    <3>1. /\ distances'[u] = distances[u] /\ distances[u] <= distances[n]
          /\ distances[u] \in Int
      BY <1>b, <1>d, <1>e, <2>0, <2>1 DEF TypeOK
    <3>2. distances[n] <= distances'[v] /\ distances'[v] \in Int
      <4>1. CASE v \in Better(n)
        BY <1>c, <1>g, <1>i, <2>1, <4>1
      <4>2. CASE v \notin Better(n)
        BY <1>e, <1>h, <2>0, <2>1, <4>2 DEF TypeOK
      <4> QED BY <4>1, <4>2
    <3> QED BY <1>b, <3>1, <3>2
  <2>2. ASSUME NEW v \in DOMAIN distances' \ visited'
        PROVE  Candidate(v, distances'[v]) \in openSet'
    <3>1. CASE v \in Better(n)
      BY <1>e, <3>1
    <3>2. CASE v \notin Better(n)
      <4>1. distances'[v] = distances[v] /\ v \in DOMAIN distances \ visited /\ v # n
        BY <1>e, <3>2
      <4>2. Candidate(v, distances[v]) \in openSet
        BY <1>a, <4>1 DEF Frontier
      <4>3. Candidate(v, distances[v]) # c
        BY <4>1 DEF Candidate, n
      <4> QED BY <1>e, <4>1, <4>2, <4>3
    <3> QED BY <3>1, <3>2
  <2>3. ASSUME NEW d \in openSet'
        PROVE  distances'[d.id] <= d.cost
    <3>1. CASE d \in openSet
      <4>1. d.id \in DOMAIN distances /\ d.cost \in Int /\ distances[d.id] <= d.cost
            /\ distances[d.id] \in Int
        BY <1>a, <3>1 DEF Frontier, TypeOK
      <4>2. CASE d.id \in Better(n)
        <5>1. Cost(d.id) < distances[d.id]
          BY <4>1, <4>2 DEF Better, Cost
        <5>2. distances'[d.id] = Cost(d.id) /\ Cost(d.id) \in Int
          BY <1>c, <1>g, <4>2
        <5> QED BY <4>1, <5>1, <5>2
      <4>3. CASE d.id \notin Better(n)
        BY <1>h, <4>1, <4>3
      <4> QED BY <4>2, <4>3
    <3>2. CASE d \notin openSet
      <4>1. PICK m \in Better(n) : d = Candidate(m, Cost(m))
        BY <1>e, <3>2
      <4>2. d.id = m /\ d.cost = Cost(m)
        BY <4>1 DEF Candidate
      <4>3. distances'[m] = Cost(m) /\ Cost(m) \in Int
        BY <1>c, <1>g
      <4>4. distances'[d.id] = d.cost /\ d.cost \in Int
        BY <4>2, <4>3
      <4> QED BY <4>4
    <3> QED BY <3>1, <3>2
  <2>4. NoGain' = NoGain
    BY <1>e, SameGain
  <2> QED BY <2>1, <2>2, <2>3, <2>4 DEF Frontier
<1>3. Links'
  BY <1>a, <1>b, <1>c, <1>e, <1>f DEF Links
<1>4. Dense'
  BY <1>e DEF Dense
<1>5. Natural'
  <2> SUFFICES ASSUME NoGain, NEW m \in DOMAIN distances' PROVE distances'[m] \in Nat
    BY <1>e, SameGain DEF Natural
  <2>1. \A k \in DOMAIN distances : distances[k] \in Nat
    BY DEF Natural
  <2>2. CASE m \in Better(n)
    <3>1. Cost(m) \in Int /\ distances[n] <= Cost(m) /\ distances[n] \in Nat
      BY <1>b, <1>c, <1>i, <2>1, <2>2
    <3> QED BY <1>g, <2>2, <3>1
  <2>3. CASE m \notin Better(n)
    BY <1>e, <1>h, <2>1, <2>3
  <2> QED BY <2>2, <2>3
<1> QED
  BY <1>4, <1>5, <1>1, <1>2, <1>3, <1>a, <1>e, <1>f DEF Phases, Joins, RouteIsRail, IsLeg

-----------------------------------------------------------------------------
(***************************************************************************)
(* The steps of reconstructPath and of joining.                            *)
(***************************************************************************)
LEMMA TrailBegins ==
  ASSUME TypeOK, Tracing
  PROVE  /\ Len(trail) \in Nat /\ 1 \in 1 .. Len(trail) /\ Head(trail) = trail[1]
         /\ trail[1] \in DOMAIN distances
<1>1. trail \in Seq(Nodes) /\ trail # << >>
  BY DEF TypeOK, Tracing
<1>2. Len(trail) \in Nat /\ 1 \in 1 .. Len(trail) /\ Head(trail) = trail[1]
  BY <1>1
<1> QED BY <1>2 DEF Tracing

LEMMA TraceBackStep ==
  ASSUME RouteInv, TraceBack
  PROVE  RouteInv'
<1> USE DEF RouteInv
<1>1. /\ pc = "trace" /\ IsLeg /\ Links /\ Tracing
      /\ trail \in Seq(Nodes) /\ trail # << >> /\ Head(trail) = trail[1]
      /\ trail[1] \in DOMAIN distances
  BY TrailBegins DEF TraceBack, Phases, Tracing, TypeOK
<1> DEFINE from == previous[trail[1]]
<1>2. /\ from \in DOMAIN distances /\ from \in Nodes
      /\ <<from, trail[1]>> \in DOMAIN weight
  BY <1>1 DEF TraceBack, Links, Tracing, TypeOK
<1>3. /\ trail' = <<from>> \o trail
      /\ UNCHANGED <<weight, platforms, density, leg, pc, distances, previous,
                     visited, openSet, route, failure, drawn, published>>
  BY <1>1 DEF TraceBack, search
<1> HIDE DEF from
<1>4. /\ trail' \in Seq(Nodes) /\ Len(trail') = Len(trail) + 1
      /\ trail'[1] = from
      /\ \A i \in 1 .. Len(trail) : trail'[i + 1] = trail[i]
  BY <1>1, <1>2, <1>3
<1>5. TypeOK' /\ Stops' = Stops
  BY <1>3, <1>4, SameStops DEF TypeOK
<1>6. IsOnRails(trail')
  <2> SUFFICES ASSUME NEW i \in 1 .. Len(trail)
               PROVE  <<trail'[i], trail'[i + 1]>> \in DOMAIN weight
    BY <1>3, <1>4 DEF IsOnRails
  <2>1. CASE i = 1
    BY <1>1, <1>2, <1>4, <2>1
  <2>2. CASE i # 1
    <3>1. i - 1 \in 1 .. Len(trail) - 1 /\ i - 1 \in 1 .. Len(trail) /\ (i - 1) + 1 = i
      BY <1>1, <2>2
    <3>2. trail'[i] = trail[i - 1] /\ trail'[i + 1] = trail[i]
      BY <1>4, <3>1
    <3>3. <<trail[i - 1], trail[(i - 1) + 1]>> \in DOMAIN weight
      BY <1>1, <3>1 DEF Tracing, IsOnRails
    <3> QED BY <3>1, <3>2, <3>3
  <2> QED BY <2>1, <2>2
<1>7. Tracing'
  <2>2. \A i \in 1 .. Len(trail') - 1 : trail'[i] = previous'[trail'[i + 1]]
    <3>0. Len(trail') - 1 = Len(trail) /\ previous' = previous
      BY <1>1, <1>3, <1>4
    <3> SUFFICES ASSUME NEW i \in 1 .. Len(trail)
                 PROVE  trail'[i] = previous[trail'[i + 1]]
      BY <3>0
    <3>1. CASE i = 1
      BY <1>4, <3>1 DEF from
    <3>2. CASE i # 1
      <4>1. i - 1 \in 1 .. Len(trail) - 1 /\ i - 1 \in 1 .. Len(trail) /\ (i - 1) + 1 = i
        BY <1>1, <3>2
      <4>2. trail'[i] = trail[i - 1] /\ trail'[i + 1] = trail[i]
        BY <1>4, <4>1
      <4>3. trail[i - 1] = previous[trail[(i - 1) + 1]]
        BY <1>1, <4>1 DEF Tracing
      <4> QED BY <4>1, <4>2, <4>3
    <3> QED BY <3>1, <3>2
  <2>3. \A i \in 1 .. Len(trail') : trail'[i] \in DOMAIN distances
    <3> SUFFICES ASSUME NEW i \in 1 .. Len(trail') PROVE trail'[i] \in DOMAIN distances
      OBVIOUS
    <3>1. CASE i = 1
      BY <1>2, <1>4, <3>1
    <3>2. CASE i # 1
      <4>1. i - 1 \in 1 .. Len(trail) /\ trail'[(i - 1) + 1] = trail[i - 1]
        BY <1>1, <1>4, <3>2
      <4>2. trail[i - 1] \in DOMAIN distances /\ (i - 1) + 1 = i
        BY <1>1, <4>1 DEF Tracing
      <4> QED BY <4>1, <4>2
    <3> QED BY <3>1, <3>2
  <2>1. trail'[Len(trail')] = trail[Len(trail)]
    BY <1>1, <1>4
  <2> QED BY <2>3, <1>1, <1>2, <1>3, <1>4, <1>5, <1>6, <2>1, <2>2 DEF Tracing, IsOnRails
<1>8. Dense' /\ Natural'
  BY <1>3, SameGain DEF Dense, Natural
<1> QED
  BY <1>8, <1>1, <1>3, <1>5, <1>7 DEF Phases, Joins, RouteIsRail, IsLeg, Links

\* Running out of memory changes nothing else.
LEMMA ExhaustStep ==
  ASSUME RouteInv, Exhaust
  PROVE  RouteInv'
<1> USE DEF RouteInv
<1>1. /\ pc = "trace" /\ pc' = "dead"
      /\ UNCHANGED <<weight, platforms, density, leg, distances, previous, visited,
                     openSet, trail, route, failure, drawn, published>>
  BY DEF Exhaust, search
<1>2. TypeOK' /\ Stops' = Stops
  BY <1>1, SameStops DEF TypeOK
<1>3. Dense' /\ Natural'
  BY <1>1, SameGain DEF Dense, Natural
<1> QED
  BY <1>1, <1>2, <1>3 DEF Phases, Joins, RouteIsRail, IsLeg, Links, Tracing, IsOnRails

\* A way on rails, joined to the points collected so far.
LEMMA JoinedIsRail ==
  ASSUME NEW way \in Seq(Nodes), way # << >>, IsOnRails(way),
         route \in Seq(Nodes), RouteIsRail, NEW S, way[1] \in S,
         \E s \in DOMAIN Stops : S = Stops[s],
         route # << >> => route[Len(route)] \in S
  PROVE  /\ Joined(way) \in Seq(Nodes) /\ Joined(way) # << >>
         /\ Joined(way)[Len(Joined(way))] = way[Len(way)]
         /\ \A i \in 1 .. Len(Joined(way)) - 1 :
              \/ <<Joined(way)[i], Joined(way)[i + 1]>> \in DOMAIN weight
              \/ \E s \in DOMAIN Stops :
                   {Joined(way)[i], Joined(way)[i + 1]} \subseteq Stops[s]
<1> DEFINE OnRails(x, y) == \/ <<x, y>> \in DOMAIN weight
                           \/ \E s \in DOMAIN Stops : {x, y} \subseteq Stops[s]
           both == Joined(way)
<1>0. Head(way) = way[1] /\ Len(way) \in Nat /\ Len(way) >= 1
  OBVIOUS
<1>1. \A i \in 1 .. Len(way) - 1 : OnRails(way[i], way[i + 1])
  BY DEF IsOnRails
<1>2. \A i \in 1 .. Len(route) - 1 : OnRails(route[i], route[i + 1])
  BY DEF RouteIsRail
<1>3. route # << >> => OnRails(route[Len(route)], way[1])
  OBVIOUS
<1> HIDE DEF OnRails
<1>4. CASE route = << >>
  <2>1. both = way
    BY <1>4 DEF Joined
  <2> QED BY <1>0, <1>1, <2>1 DEF OnRails
<1>5. CASE route # << >>
  <2>0. Len(route) \in Nat /\ Len(route) >= 1 /\ Last(route) = route[Len(route)]
    BY <1>5 DEF Last
  <2>1. CASE Last(route) = Head(way)
    <3>1. /\ both = route \o Tail(way) /\ both \in Seq(Nodes)
          /\ Len(both) = Len(route) + Len(way) - 1
      BY <1>0, <1>5, <2>1 DEF Joined
    <3>2. \A i \in 1 .. Len(route) : both[i] = route[i]
      BY <1>0, <1>5, <3>1
    <3>3. \A i \in 1 .. Len(way) : both[Len(route) - 1 + i] = way[i]
      <4> SUFFICES ASSUME NEW i \in 1 .. Len(way)
                   PROVE  both[Len(route) - 1 + i] = way[i]
        OBVIOUS
      <4>1. CASE i = 1
        <5>1. Len(route) - 1 + i = Len(route) /\ Len(route) \in 1 .. Len(route)
          BY <2>0, <4>1
        <5>2. both[Len(route)] = route[Len(route)]
          BY <3>2, <5>1
        <5> QED BY <1>0, <2>0, <2>1, <4>1, <5>1, <5>2
      <4>2. CASE i # 1
        <5>1. /\ Len(Tail(way)) = Len(way) - 1 /\ i - 1 \in 1 .. Len(Tail(way))
              /\ Tail(way)[i - 1] = way[i]
          BY <1>0, <4>2
        <5>2. both[Len(route) + (i - 1)] = Tail(way)[i - 1]
          BY <2>0, <3>1, <5>1
        <5> QED BY <2>0, <5>1, <5>2
      <4> QED BY <4>1, <4>2
    <3>4. ASSUME NEW i \in 1 .. Len(both) - 1
          PROVE  OnRails(both[i], both[i + 1])
      <4>1. CASE i < Len(route)
        <5>1. i \in 1 .. Len(route) - 1 /\ i \in 1 .. Len(route) /\ i + 1 \in 1 .. Len(route)
          BY <2>0, <4>1
        <5> QED BY <1>2, <3>2, <5>1
      <4>2. CASE i >= Len(route)
        <5> DEFINE j == i - Len(route) + 1
        <5>1. /\ j \in 1 .. Len(way) - 1 /\ j \in 1 .. Len(way) /\ j + 1 \in 1 .. Len(way)
              /\ i = Len(route) - 1 + j /\ i + 1 = Len(route) - 1 + (j + 1)
          BY <1>0, <2>0, <3>1, <4>2
        <5>2. both[i] = way[j] /\ both[i + 1] = way[j + 1]
          BY <3>3, <5>1
        <5> QED BY <1>1, <5>1, <5>2
      <4> QED BY <2>0, <4>1, <4>2
    <3>5. Len(way) \in 1 .. Len(way) /\ Len(both) = Len(route) - 1 + Len(way)
      BY <1>0, <2>0, <3>1
    <3> QED BY <2>0, <1>0, <3>1, <3>3, <3>4, <3>5 DEF OnRails
  <2>2. CASE Last(route) # Head(way)
    <3>1. /\ both = route \o way /\ both \in Seq(Nodes)
          /\ Len(both) = Len(route) + Len(way)
      BY <1>0, <1>5, <2>2 DEF Joined
    <3>2. \A i \in 1 .. Len(route) : both[i] = route[i]
      BY <1>0, <1>5, <3>1
    <3>3. \A i \in 1 .. Len(way) : both[Len(route) + i] = way[i]
      BY <1>0, <2>0, <3>1
    <3>4. ASSUME NEW i \in 1 .. Len(both) - 1
          PROVE  OnRails(both[i], both[i + 1])
      <4>1. CASE i < Len(route)
        <5>1. i \in 1 .. Len(route) - 1 /\ i \in 1 .. Len(route) /\ i + 1 \in 1 .. Len(route)
          BY <2>0, <4>1
        <5> QED BY <1>2, <3>2, <5>1
      <4>2. CASE i = Len(route)
        <5>1. both[i] = route[Len(route)] /\ both[i + 1] = way[1]
          BY <1>0, <2>0, <3>2, <3>3, <4>2
        <5> QED BY <1>3, <1>5, <5>1
      <4>3. CASE i > Len(route)
        <5> DEFINE j == i - Len(route)
        <5>1. /\ j \in 1 .. Len(way) - 1 /\ j \in 1 .. Len(way) /\ j + 1 \in 1 .. Len(way)
              /\ i = Len(route) + j /\ i + 1 = Len(route) + (j + 1)
          BY <1>0, <2>0, <3>1, <4>3
        <5>2. both[i] = way[j] /\ both[i + 1] = way[j + 1]
          BY <3>3, <5>1
        <5> QED BY <1>1, <5>1, <5>2
      <4> QED BY <2>0, <4>1, <4>2, <4>3
    <3>5. Len(way) \in 1 .. Len(way)
      BY <1>0
    <3> QED BY <2>0, <1>0, <3>1, <3>3, <3>4, <3>5 DEF OnRails
  <2> QED BY <2>1, <2>2
<1> QED BY <1>4, <1>5

LEMMA EndLegStep ==
  ASSUME RouteInv, EndLeg
  PROVE  RouteInv'
<1> USE DEF RouteInv
<1>1. /\ pc = "trace" /\ IsLeg /\ Links /\ Tracing
      /\ trail \in Seq(Nodes) /\ trail # << >> /\ Head(trail) = trail[1]
      /\ previous[trail[1]] = NoNode /\ trail[1] \in DOMAIN distances
  BY TrailBegins DEF EndLeg, Traced, Phases, Tracing, TypeOK
<1>2. trail[1] \in Stops[leg]
  BY <1>1, RouteAssumption DEF Links, Tracing, TypeOK
<1>3. leg \in DOMAIN Stops /\ leg + 1 \in DOMAIN Stops
      /\ (route # << >> => route[Len(route)] \in Stops[leg])
  BY <1>1 DEF IsLeg, Phases
<1>4. route \in Seq(Nodes) /\ RouteIsRail /\ \E s \in DOMAIN Stops : Stops[leg] = Stops[s]
  BY <1>3 DEF TypeOK
<1>5. /\ Joined(trail) \in Seq(Nodes) /\ Joined(trail) # << >>
      /\ Joined(trail)[Len(Joined(trail))] = trail[Len(trail)]
      /\ \A i \in 1 .. Len(Joined(trail)) - 1 :
           \/ <<Joined(trail)[i], Joined(trail)[i + 1]>> \in DOMAIN weight
           \/ \E s \in DOMAIN Stops :
                {Joined(trail)[i], Joined(trail)[i + 1]} \subseteq Stops[s]
  BY <1>1, <1>2, <1>3, <1>4, JoinedIsRail DEF Tracing
<1>6. /\ route' = Joined(trail) /\ leg' = leg + 1 /\ pc' = "leg"
      /\ distances' = NoFunction /\ previous' = NoFunction
      /\ visited' = {} /\ openSet' = {} /\ trail' = << >>
      /\ UNCHANGED <<weight, platforms, failure, drawn, published>>
  BY DEF EndLeg
<1>7. Stops' = Stops
  BY <1>6, SameStops
<1>8. density' \in [DOMAIN weight -> 0 .. MaxDensity] /\ Dense'
  <2> DEFINE more(e) == IF e \in Ridden(trail) THEN density[e] + 1 ELSE density[e]
  <2>1. density' = [e \in DOMAIN weight |-> more(e)]
    BY DEF EndLeg, TypeOK
  <2>2. /\ leg \in Nat /\ Len(platforms) \in Nat /\ Cardinality(Nodes) \in Nat
        /\ MaxDensity \in Nat /\ Cardinality(Nodes) + Len(platforms) <= MaxDensity
    <3>1. platforms \in Routes /\ leg \in Nat
      BY DEF TypeOK
    <3>2. IsFiniteSet(Nodes)
      BY RouteAssumption
    <3> QED BY <3>1, <3>2, FS_CardinalityType, RouteAssumption
  <2>3. leg + 1 <= Len(platforms)
    <3>1. PICK n \in 0 .. Len(platforms) : DOMAIN Stops = 1 .. n
      BY StopsAreNumbered
    <3> QED BY <1>3, <2>2, <3>1
  <2>4. ASSUME NEW e \in DOMAIN weight
        PROVE  more(e) \in 0 .. MaxDensity /\ more(e) <= Cardinality(Nodes) + leg
    <3>1. density[e] \in Nat /\ density[e] <= Cardinality(Nodes) + leg - 1
      BY DEF TypeOK, Dense
    <3>2. more(e) \in Nat /\ more(e) <= density[e] + 1
      BY <3>1
    <3> HIDE DEF more
    <3> QED BY <2>2, <2>3, <3>1, <3>2
  <2> HIDE DEF more
  <2>5. density' \in [DOMAIN weight -> 0 .. MaxDensity]
    BY <2>1, <2>4
  <2>6. \A e \in DOMAIN weight' : density'[e] <= Cardinality(Nodes) + leg' - 1
    BY <1>6, <2>1, <2>2, <2>4
  <2> QED BY <2>5, <2>6 DEF Dense
<1>9. TypeOK'
  BY <1>5, <1>6, <1>8 DEF TypeOK, NoFunction
<1>10. RouteIsRail'
  BY <1>5, <1>6, <1>7 DEF RouteIsRail
<1>11. Joins' /\ Phases'
  BY <1>1, <1>3, <1>5, <1>6, <1>7 DEF Joins, Phases, Tracing
<1>12. Natural'
  BY <1>6 DEF Natural, NoFunction
<1> QED BY <1>8, <1>9, <1>10, <1>11, <1>12

LEMMA EndRouteStep ==
  ASSUME RouteInv, EndRoute
  PROVE  RouteInv'
<1> USE DEF RouteInv
<1>1. /\ pc' = "done" /\ route' = Collected /\ Publish(Collected)
      /\ UNCHANGED <<weight, platforms, density, leg, distances, previous, visited,
                     openSet, trail, failure>>
  BY DEF EndRoute, search
<1>2. Stops' = Stops /\ Dense' /\ Natural'
  BY <1>1, SameStops, SameGain DEF Dense, Natural
<1>3. CASE DOMAIN Stops = {1}
  <2>1. Stops[1] \in SUBSET Nodes /\ 1 \in DOMAIN Stops
    BY <1>3, StopsAreNodes
  <2>2. route' \in Seq(Stops[1])
    BY <1>1, <1>3, <2>1, SetToSeqIsSeq DEF Collected
  <2>3. route' \in Seq(Nodes)
    BY <2>1, <2>2
  <2>4. RouteIsRail'
    <3> SUFFICES ASSUME NEW i \in 1 .. Len(route') - 1
                 PROVE  {route'[i], route'[i + 1]} \subseteq Stops[1]
      BY <1>1, <1>2, <2>1 DEF RouteIsRail
    <3>1. i \in 1 .. Len(route') /\ i + 1 \in 1 .. Len(route')
      BY <2>2
    <3> QED BY <2>2, <3>1
  <2>5. drawn' \in {"graph", "preserved", "fallback"} /\ published' \in Seq(Nodes)
    BY <1>1, <2>3, PublishIsPath
  <2> QED BY <1>1, <1>2, <2>3, <2>4, <2>5 DEF TypeOK, Phases, Joins
<1>4. CASE DOMAIN Stops # {1}
  <2>1. route' = route
    BY <1>1, <1>4 DEF Collected
  <2>2. route \in Seq(Nodes)
    BY DEF TypeOK
  <2>3. drawn' \in {"graph", "preserved", "fallback"} /\ published' \in Seq(Nodes)
    BY <1>1, <2>1, <2>2, PublishIsPath
  <2> QED BY <1>1, <1>2, <2>1, <2>3 DEF TypeOK, Phases, Joins, RouteIsRail
<1> QED BY <1>3, <1>4

-----------------------------------------------------------------------------
(***************************************************************************)
(* The theorems.                                                           *)
(***************************************************************************)
\* What every step keeps: the costs of the search, the links it leaves and where
\* the legs have ended (findRoute, findPathBetween, reconstructPath).
THEOREM RouteInvariant == Spec => []RouteInv
<1>1. Init => RouteInv
  BY Starts
<1>2. ASSUME RouteInv, [Next]_routeVars
      PROVE  RouteInv'
  <2>1. CASE StartLeg
    BY <1>2, <2>1, StartLegStep
  <2>2. CASE NoPath
    BY <1>2, <2>2, FailStep
  <2>3. CASE TraceBack
    BY <1>2, <2>3, TraceBackStep
  <2>4. CASE EndLeg
    BY <1>2, <2>4, EndLegStep
  <2>5. CASE EndRoute
    BY <1>2, <2>5, EndRouteStep
  <2>6. ASSUME NEW c \in openSet, SkipCandidate(c)
        PROVE  RouteInv'
    BY <1>2, <2>6, SkipStep
  <2>7. ASSUME NEW c \in openSet, ExceedCap(c)
        PROVE  RouteInv'
    BY <1>2, <2>7, FailStep
  <2>8. ASSUME NEW c \in openSet, ReachTarget(c)
        PROVE  RouteInv'
    BY <1>2, <2>8, ReachStep
  <2>9. ASSUME NEW c \in openSet, Expand(c)
        PROVE  RouteInv'
    BY <1>2, <2>9, ExpandStep
  <2>11. CASE Exhaust
    BY <1>2, <2>11, ExhaustStep
  <2>10. CASE UNCHANGED routeVars
    <3>1. Stops' = Stops /\ NoGain' = NoGain
      BY <2>10, SameStops, SameGain DEF routeVars
    <3>2. TypeOK' /\ Joins' /\ RouteIsRail' /\ Dense' /\ Natural'
      BY <1>2, <2>10, <3>1 DEF RouteInv, TypeOK, Joins, RouteIsRail, Dense, Natural,
                               routeVars, search
    <3>3. Phases'
      BY <1>2, <2>10, <3>1 DEF RouteInv, Phases, IsLeg, Links, Frontier, Tracing, IsOnRails,
                               routeVars, search
    <3> QED BY <3>2, <3>3 DEF RouteInv
  <2> QED
    BY <1>2, <2>1, <2>2, <2>3, <2>4, <2>5, <2>6, <2>7, <2>8, <2>9, <2>10, <2>11
       DEF Next, Done
<1> QED BY <1>1, <1>2, PTL DEF Spec

\* No key the finder looks up is missing, and no connection's density outgrows the
\* nodes and platforms there are.
THEOREM RouteTypeSafe == Spec => []TypeOK
<1>1. RouteInv => TypeOK
  BY DEF RouteInv
<1> QED BY <1>1, RouteInvariant, PTL

\* The points joined from the legs leave the rails only within a platform.
THEOREM RouteStaysOnRails == Spec => []RouteIsRail
<1>1. RouteInv => RouteIsRail
  BY DEF RouteInv
<1> QED BY <1>1, RouteInvariant, PTL

\* Where no ride costs less than nothing, no node that the search has taken off the
\* heap is reached for less, or from elsewhere, later on: skipping visited nodes
\* loses no way.
THEOREM SettledStaysFinal == Spec => SettledIsFinal
<1> DEFINE Keeps == NoGain => \A n \in visited \cap visited' :
                     distances'[n] = distances[n] /\ previous'[n] = previous[n]
<1>1. ASSUME RouteInv, [Next]_routeVars
      PROVE  Keeps
  <2>1. CASE StartLeg \/ EndLeg
    BY <2>1 DEF StartLeg, EndLeg
  <2>2. CASE NoPath \/ TraceBack \/ Exhaust \/ EndRoute \/ UNCHANGED routeVars
    BY <2>2 DEF NoPath, Fails, TraceBack, Exhaust, EndRoute, routeVars, search
  <2>3. ASSUME NEW c \in openSet, SkipCandidate(c) \/ ExceedCap(c) \/ ReachTarget(c)
        PROVE  Keeps
    BY <2>3 DEF SkipCandidate, ExceedCap, Fails, ReachTarget
  <2>4. ASSUME NEW c \in openSet, Expand(c)
        PROVE  Keeps
    <3>1. NoGain => Better(c.id) \cap (visited \cup {c.id}) = {}
      BY <1>1, <2>4, VisitedIsNotBetter DEF Expand
    <3>2. visited \subseteq DOMAIN distances
      BY <1>1 DEF RouteInv, TypeOK
    <3> QED BY <2>4, <3>1, <3>2 DEF Expand
  <2> QED BY <1>1, <2>1, <2>2, <2>3, <2>4 DEF Next, Done
<1> QED BY <1>1, RouteInvariant, PTL DEF Spec, SettledIsFinal

-----------------------------------------------------------------------------
(***************************************************************************)
(* The links of previous climb. Each leads to a node that costs more, seen *)
(* from heights that make up for the gains, or as much in more steps: a    *)
(* node that is relinked sinks, and what hangs on it stays above.          *)
(***************************************************************************)
\* Some natural number in a set is the least.
LEMMA LeastNumber ==
  ASSUME NEW S \in SUBSET Nat, S # {}
  PROVE  \E n \in S : \A m \in S : n <= m
<1> DEFINE Less == {x \in Nat \X Nat : x[1] < x[2]}
<1>1. IsWellFoundedOn(Less, Nat)
  BY NatLessThanWellFounded DEF OpToRel
<1>2. PICK n \in S : \A m \in S : ~(<<m, n>> \in Less)
  <2> HIDE DEF Less
  <2> QED BY <1>1, WFMin
<1>3. ASSUME NEW m \in S PROVE n <= m
  <2>1. m \in Nat /\ n \in Nat /\ ~(<<m, n>> \in Less)
    BY <1>2
  <2> QED BY <2>1
<1> QED BY <1>3

Rank(level, n) == distances[n] - level[n]

Below(level, steps, p, n) ==
  \/ Rank(level, p) < Rank(level, n)
  \/ Rank(level, p) = Rank(level, n) /\ steps[p] < steps[n]

Climbs(level, steps) ==
  \A n \in DOMAIN distances :
    previous[n] # NoNode => Below(level, steps, previous[n], n)

Climbing ==
  /\ pc \notin {"trace", "dead"} => trail = << >>
  /\ pc \in {"search", "trace", "dead"} =>
       \A level \in [Nodes -> Levels] : IsLevel(level) =>
         \E steps \in [DOMAIN distances -> Nat] : Climbs(level, steps)

\* A node that is reached for less is put one step above the one expanded.
LEMMA ExpandClimbs ==
  ASSUME RouteInv, NEW c \in openSet, Expand(c),
         NEW level \in [Nodes -> Levels], IsLevel(level),
         NEW steps \in [DOMAIN distances -> Nat], Climbs(level, steps)
  PROVE  \E later \in [DOMAIN distances' -> Nat] : Climbs(level, later)'
<1> DEFINE n == c.id
           Cost(m) == distances[n] + CalculateEdgeCost(<<n, m>>)
<1>1. /\ TypeOK /\ Links /\ n \in DOMAIN distances /\ n \in Nodes
      /\ \A m \in DOMAIN distances : distances[m] \in Int /\ m \in Nodes
      /\ \A m \in Nodes : level[m] \in Int
  BY RouteAssumption DEF Expand, Pops, RouteInv, Phases, TypeOK
<1>2. /\ distances' = [m \in DOMAIN distances \cup Better(n) |->
                        IF m \in Better(n) THEN Cost(m) ELSE distances[m]]
      /\ previous' = [m \in DOMAIN distances \cup Better(n) |->
                        IF m \in Better(n) THEN n ELSE previous[m]]
  BY DEF Expand
<1>3. ASSUME NEW m \in Better(n)
      PROVE  /\ m \in Nodes /\ Cost(m) \in Int
             /\ distances[n] - level[n] <= Cost(m) - level[m]
             /\ m \in DOMAIN distances => Cost(m) < distances[m]
  <2>1. m \in Nodes /\ <<n, m>> \in DOMAIN weight
    BY <1>1, BetterIsAdjacent
  <2>2. CalculateEdgeCost(<<n, m>>) \in Int
    BY <1>1, <2>1, CostIsInteger
  <2>3. CalculateEdgeCost(<<n, m>>) + level[n] - level[m] >= 0
    BY <2>1 DEF IsLevel
  <2>4. m \in DOMAIN distances => Cost(m) < distances[m]
    BY DEF Better
  <2>5. distances[n] \in Int /\ level[n] \in Int /\ level[m] \in Int
    BY <1>1, <2>1
  <2>6. Cost(m) \in Int /\ distances[n] - level[n] <= Cost(m) - level[m]
    <3> DEFINE w == CalculateEdgeCost(<<n, m>>)
    <3>1. Cost(m) = distances[n] + w /\ w \in Int /\ w + level[n] - level[m] >= 0
      BY <2>2, <2>3
    <3> HIDE DEF w, n, Cost
    <3> QED BY <2>5, <3>1
  <2> HIDE DEF Cost
  <2> QED BY <2>1, <2>4, <2>6
<1> HIDE DEF n, Cost
<1>4. n \notin Better(n)
  <2> SUFFICES ASSUME n \in Better(n) PROVE FALSE
    OBVIOUS
  <2>1. distances[n] - level[n] <= Cost(n) - level[n] /\ Cost(n) < distances[n]
    BY <1>1, <1>3
  <2> QED BY <1>1, <1>3, <2>1
<1>5. PICK later \in [DOMAIN distances' -> Nat] :
        \A m \in DOMAIN distances' : later[m] = IF m \in Better(n) THEN steps[n] + 1 ELSE steps[m]
  <2>1. [m \in DOMAIN distances' |-> IF m \in Better(n) THEN steps[n] + 1 ELSE steps[m]]
          \in [DOMAIN distances' -> Nat]
    BY <1>1, <1>2
  <2> QED BY <2>1
<1>6. \A m \in DOMAIN distances' :
        /\ m \in Better(n) => distances'[m] = Cost(m) /\ previous'[m] = n
        /\ m \notin Better(n) => /\ m \in DOMAIN distances
                                 /\ distances'[m] = distances[m] /\ previous'[m] = previous[m]
  BY <1>2
<1>7. \A m \in DOMAIN distances : m \in DOMAIN distances'
  BY <1>2
<1> DEFINE Before(m) == distances[m] - level[m]
           After(m)  == distances'[m] - level[m]
<1>8. \A m \in DOMAIN distances : Before(m) \in Int
  BY <1>1
<1>9. ASSUME NEW m \in DOMAIN distances', previous'[m] # NoNode
      PROVE  \/ After(previous'[m]) < After(m)
             \/ After(previous'[m]) = After(m) /\ later[previous'[m]] < later[m]
  <2>1. CASE m \in Better(n)
    <3>1. previous'[m] = n /\ distances'[m] = Cost(m) /\ distances'[n] = distances[n]
      BY <1>1, <1>4, <1>6, <1>7, <2>1
    <3>2. later[n] = steps[n] /\ later[m] = steps[n] + 1 /\ steps[n] \in Nat
      BY <1>1, <1>4, <1>5, <1>7, <2>1
    <3>3. /\ After(n) = distances[n] - level[n] /\ After(m) = Cost(m) - level[m]
          /\ After(n) \in Int /\ After(m) \in Int
      BY <1>1, <1>3, <2>1, <3>1
    <3>4. After(n) <= After(m)
      BY <1>3, <2>1, <3>3
    <3> HIDE DEF After
    <3> QED BY <3>1, <3>2, <3>3, <3>4
  <2>2. CASE m \notin Better(n)
    <3> DEFINE p == previous[m]
    <3>1. /\ m \in DOMAIN distances /\ distances'[m] = distances[m] /\ previous'[m] = p
          /\ p # NoNode /\ later[m] = steps[m]
      BY <1>5, <1>6, <1>9, <2>2
    <3>2. p \in DOMAIN distances /\ p \in DOMAIN distances'
      BY <1>1, <1>7, <3>1 DEF Links, TypeOK
    <3>3. Before(p) < Before(m) \/ (Before(p) = Before(m) /\ steps[p] < steps[m])
      <4>1. Below(level, steps, p, m)
        BY <3>1 DEF Climbs
      <4> QED BY <4>1 DEF Below, Rank
    <3>4. After(m) = Before(m)
      BY <3>1
    <3> HIDE DEF p
    <3>5. CASE p \in Better(n)
      <4>1. distances'[p] = Cost(p) /\ Cost(p) < distances[p] /\ Cost(p) \in Int
        BY <1>3, <1>6, <3>2, <3>5
      <4>2. distances[p] \in Int /\ level[p] \in Int
        BY <1>1, <3>2
      <4>3. After(p) < Before(p) /\ After(p) \in Int
        BY <4>1, <4>2
      <4> HIDE DEF Before, After
      <4> QED BY <1>8, <3>1, <3>2, <3>3, <3>4, <4>3
    <3>6. CASE p \notin Better(n)
      <4>1. After(p) = Before(p) /\ later[p] = steps[p]
        BY <1>5, <1>6, <3>2, <3>6
      <4> HIDE DEF Before, After
      <4> QED BY <3>1, <3>3, <3>4, <4>1
    <3> QED BY <3>5, <3>6
  <2> QED BY <2>1, <2>2
<1>10. Climbs(level, later)'
  BY <1>9 DEF Climbs, Below, Rank
<1> QED BY <1>5, <1>10

\* Every step leaves the links climbing.
LEMMA ClimbingStep ==
  ASSUME RouteInv, Climbing, [Next]_routeVars
  PROVE  Climbing'
<1>1. CASE StartLeg
  <2>1. /\ pc' = "search" /\ trail' = << >>
        /\ \A n \in DOMAIN distances' : previous'[n] = NoNode
    BY <1>1 DEF StartLeg, Climbing
  <2>2. \A level, steps : Climbs(level, steps)'
    BY <2>1 DEF Climbs
  <2>3. [n \in DOMAIN distances' |-> 0] \in [DOMAIN distances' -> Nat]
    OBVIOUS
  <2> QED BY <2>1, <2>2, <2>3 DEF Climbing
<1>2. CASE NoPath \/ EndLeg \/ EndRoute \/ \E c \in openSet : ExceedCap(c)
  BY <1>2 DEF NoPath, ExceedCap, Fails, Pops, EndLeg, EndRoute, Climbing
<1>3. CASE UNCHANGED routeVars \/ TraceBack \/ Exhaust
           \/ \E c \in openSet : SkipCandidate(c) \/ ReachTarget(c)
  <2>1. /\ UNCHANGED <<weight, density, distances, previous>>
        /\ pc' \in {"search", "trace", "dead"} => pc \in {"search", "trace", "dead"}
        /\ pc' \notin {"trace", "dead"} => pc \notin {"trace", "dead"} /\ trail' = trail
    BY <1>3 DEF SkipCandidate, TraceBack, Exhaust, ReachTarget, Pops, routeVars, search
  <2>2. /\ \A level : IsLevel(level)' = IsLevel(level)
        /\ \A level, steps : Climbs(level, steps)' = Climbs(level, steps)
    BY <2>1, SameGain DEF Climbs, Below, Rank
  <2> QED BY <2>1, <2>2 DEF Climbing
<1>4. ASSUME NEW c \in openSet, Expand(c) PROVE Climbing'
  <2>1. /\ pc = "search" /\ pc' = "search" /\ trail' = trail
        /\ UNCHANGED <<weight, density>>
    BY <1>4 DEF Expand, Pops
  <2>2. \A level : IsLevel(level)' = IsLevel(level)
    BY <2>1, SameGain
  <2>3. ASSUME NEW level \in [Nodes -> Levels], IsLevel(level)
        PROVE  \E steps \in [DOMAIN distances' -> Nat] : Climbs(level, steps)'
    <3>1. PICK steps \in [DOMAIN distances -> Nat] : Climbs(level, steps)
      BY <2>1, <2>3 DEF Climbing
    <3> QED BY <1>4, <2>3, <3>1, ExpandClimbs
  <2> QED BY <2>1, <2>2, <2>3 DEF Climbing
<1> QED BY <1>1, <1>2, <1>3, <1>4 DEF Next, Done

\* What climbs does not come back.
LEMMA ClimbingTrail ==
  ASSUME TypeOK, Tracing, NEW level \in [Nodes -> Levels],
         NEW steps \in [DOMAIN distances -> Nat], Climbs(level, steps)
  PROVE  IsInjective(trail)
<1> DEFINE Lower(i, j) == Below(level, steps, trail[i], trail[j])
           bad == {j \in 1 .. Len(trail) : \E i \in 1 .. j - 1 : ~Lower(i, j)}
<1>1. /\ Len(trail) \in Nat /\ DOMAIN trail = 1 .. Len(trail)
      /\ \A i \in 1 .. Len(trail) : trail[i] # NoNode /\ trail[i] \in DOMAIN distances
  BY RouteAssumption DEF TypeOK, Tracing
<1>2. \A i \in 1 .. Len(trail) : Rank(level, trail[i]) \in Int /\ steps[trail[i]] \in Nat
  <2> SUFFICES ASSUME NEW i \in 1 .. Len(trail)
               PROVE  Rank(level, trail[i]) \in Int /\ steps[trail[i]] \in Nat
    OBVIOUS
  <2>1. /\ trail[i] \in DOMAIN distances /\ trail[i] \in Nodes
        /\ distances[trail[i]] \in Int /\ level[trail[i]] \in Int
    BY <1>1, RouteAssumption DEF TypeOK
  <2> QED BY <2>1 DEF Rank
<1>3. \A j \in 2 .. Len(trail) : Lower(j - 1, j)
  <2> SUFFICES ASSUME NEW j \in 2 .. Len(trail) PROVE Lower(j - 1, j)
    OBVIOUS
  <2>1. j - 1 \in 1 .. Len(trail) - 1 /\ (j - 1) + 1 = j /\ j \in 1 .. Len(trail)
        /\ j - 1 \in 1 .. Len(trail)
    BY <1>1
  <2>2. trail[j - 1] = previous[trail[j]]
    BY <2>1 DEF Tracing
  <2> QED BY <1>1, <2>1, <2>2 DEF Climbs
<1>4. \A i, j, k \in 1 .. Len(trail) : Lower(i, j) /\ Lower(j, k) => Lower(i, k)
  <2> SUFFICES ASSUME NEW i \in 1 .. Len(trail), NEW j \in 1 .. Len(trail),
                      NEW k \in 1 .. Len(trail), Lower(i, j), Lower(j, k)
               PROVE  Lower(i, k)
    OBVIOUS
  <2>1. /\ Rank(level, trail[i]) \in Int /\ steps[trail[i]] \in Nat
        /\ Rank(level, trail[j]) \in Int /\ steps[trail[j]] \in Nat
        /\ Rank(level, trail[k]) \in Int /\ steps[trail[k]] \in Nat
    BY <1>2
  <2>2. Below(level, steps, trail[i], trail[j]) /\ Below(level, steps, trail[j], trail[k])
    OBVIOUS
  <2>3. Below(level, steps, trail[i], trail[k])
    <3> DEFINE r(x) == Rank(level, trail[x])
               t(x) == steps[trail[x]]
    <3>1. /\ r(i) < r(j) \/ (r(i) = r(j) /\ t(i) < t(j))
          /\ r(j) < r(k) \/ (r(j) = r(k) /\ t(j) < t(k))
      BY <2>2 DEF Below
    <3>2. /\ r(i) \in Int /\ r(j) \in Int /\ r(k) \in Int
          /\ t(i) \in Nat /\ t(j) \in Nat /\ t(k) \in Nat
      BY <2>1
    <3> HIDE DEF r, t
    <3>3. r(i) < r(k) \/ (r(i) = r(k) /\ t(i) < t(k))
      BY <3>1, <3>2
    <3> QED BY <3>3 DEF Below, r, t
  <2> QED BY <2>3
<1>5. \A i \in 1 .. Len(trail) : ~Lower(i, i)
  BY <1>2 DEF Below
<1> HIDE DEF Lower
<1>6. bad = {}
  <2> SUFFICES ASSUME bad # {} PROVE FALSE
    OBVIOUS
  <2>1. bad \in SUBSET Nat
    OBVIOUS
  <2>2. PICK j \in bad : \A k \in bad : j <= k
    <3> HIDE DEF bad
    <3> QED BY <2>1, LeastNumber
  <2>3. PICK i \in 1 .. j - 1 : ~Lower(i, j)
    OBVIOUS
  <2>4. /\ j \in 2 .. Len(trail) /\ j - 1 \in 1 .. Len(trail) /\ i \in 1 .. Len(trail)
        /\ j \in 1 .. Len(trail) /\ ~(j <= j - 1)
    BY <1>1
  <2>5. i # j - 1
    BY <1>3, <2>3, <2>4
  <2>6. i \in 1 .. (j - 1) - 1
    BY <2>4, <2>5
  <2>7. j - 1 \notin bad
    BY <2>2, <2>4
  <2>8. Lower(i, j - 1)
    BY <2>4, <2>6, <2>7
  <2> QED BY <1>3, <1>4, <2>3, <2>4, <2>8
<1>7. ASSUME NEW i \in 1 .. Len(trail), NEW j \in 1 .. Len(trail), i < j
      PROVE  trail[i] # trail[j]
  <2>1. i \in 1 .. j - 1
    BY <1>1, <1>7
  <2>2. Lower(i, j) /\ ~Lower(j, j)
    BY <1>5, <1>6, <2>1
  <2> QED BY <2>2 DEF Lower
<1>8. ASSUME NEW i \in DOMAIN trail, NEW j \in DOMAIN trail, trail[i] = trail[j]
      PROVE  i = j
  <2>1. ~(i < j) /\ ~(j < i)
    BY <1>1, <1>7, <1>8
  <2> QED BY <1>1, <2>1
<1> QED BY <1>8 DEF IsInjective

LEMMA OneBefore ==
  ASSUME NEW n \in Nat, NEW i \in 1 .. n, i # 1
  PROVE  i - 1 \in 1 .. n - 1 /\ i - 1 \in 1 .. n /\ (i - 1) + 1 = i
  OBVIOUS

\* Where the links lead back to a start they have come to no node twice, whatever
\* rides cost: from a node met again they would go on as before.
LEMMA TracedIsSimple ==
  ASSUME TypeOK, Tracing, previous[trail[1]] = NoNode
  PROVE  IsInjective(trail)
<1> DEFINE again == {i \in 1 .. Len(trail) : \E j \in i + 1 .. Len(trail) : trail[i] = trail[j]}
<1>1. /\ Len(trail) \in Nat /\ DOMAIN trail = 1 .. Len(trail)
      /\ \A i \in 1 .. Len(trail) : trail[i] # NoNode
      /\ \A i \in 1 .. Len(trail) - 1 : trail[i] = previous[trail[i + 1]]
  BY RouteAssumption DEF TypeOK, Tracing
<1>2. again = {}
  <2> SUFFICES ASSUME again # {} PROVE FALSE
    OBVIOUS
  <2>1. again \in SUBSET Nat
    OBVIOUS
  <2>2. PICK i \in again : \A k \in again : i <= k
    <3> HIDE DEF again
    <3> QED BY <2>1, LeastNumber
  <2>3. PICK j \in i + 1 .. Len(trail) : trail[i] = trail[j]
    OBVIOUS
  <2>4. /\ i \in 1 .. Len(trail) /\ j - 1 \in 1 .. Len(trail) - 1 /\ j - 1 \in 1 .. Len(trail)
        /\ (j - 1) + 1 = j
    BY <1>1
  <2>5. trail[j - 1] = previous[trail[i]]
    BY <1>1, <2>3, <2>4
  <2>6. i # 1
    BY <1>1, <2>4, <2>5
  <2>7. i - 1 \in 1 .. Len(trail) - 1 /\ i - 1 \in 1 .. Len(trail) /\ (i - 1) + 1 = i
    <3>1. i \in 1 .. Len(trail) /\ Len(trail) \in Nat
      BY <1>1, <2>4
    <3> QED BY <2>6, <3>1, OneBefore
  <2>8. trail[i - 1] = trail[j - 1]
    BY <1>1, <2>5, <2>7
  <2>9. j - 1 \in (i - 1) + 1 .. Len(trail)
    BY <2>4
  <2>10. i - 1 \in again
    BY <2>7, <2>8, <2>9
  <2>11. ~(i <= i - 1)
    BY <2>4
  <2> QED BY <2>2, <2>10, <2>11
<1>3. ASSUME NEW i \in DOMAIN trail, NEW j \in DOMAIN trail, trail[i] = trail[j]
      PROVE  i = j
  <2>1. ~(i < j) /\ ~(j < i)
    BY <1>1, <1>2, <1>3
  <2> QED BY <1>1, <2>1
<1> QED BY <1>3 DEF IsInjective

\* Without gains all heights may be the same.
LEMMA NoGainIsLevel ==
  ASSUME TypeOK, NoGain
  PROVE  Levelled
<1>1. PICK h \in Levels : h \in Int
  BY RouteAssumption
<1> DEFINE level == [n \in Nodes |-> h]
<1>2. level \in [Nodes -> Levels]
  BY <1>1
<1>3. ASSUME NEW e \in DOMAIN weight
      PROVE  CalculateEdgeCost(e) + level[e[1]] - level[e[2]] >= 0
  <2>1. level[e[1]] = h /\ level[e[2]] = h
    BY DEF TypeOK
  <2>2. CalculateEdgeCost(e) >= 0 /\ CalculateEdgeCost(e) \in Int
    BY CostIsInteger DEF NoGain
  <2> HIDE DEF level
  <2> QED BY <1>1, <2>1, <2>2
<1> HIDE DEF level
<1> QED BY <1>2, <1>3 DEF Levelled, IsLevel

\* The links climb from every heights that make up for the gains: following
\* previous back leads down each time, so reconstructPath comes to an end.
THEOREM ClimbingInvariant == Spec => [](RouteInv /\ Climbing)
<1>1. Init => Climbing
  BY DEF Init, Climbing
<1>2. RouteInv /\ Climbing /\ [Next]_routeVars => Climbing'
  BY ClimbingStep
<1> QED BY <1>1, <1>2, RouteInvariant, PTL DEF Spec

LEMMA ClimbingIsSimple == RouteInv /\ Climbing => TrailIsSimple
<1>1. ASSUME RouteInv, Climbing, Levelled PROVE IsInjective(trail)
  <2>1. CASE pc \notin {"trace", "dead"}
    BY <1>1, <2>1 DEF Climbing, IsInjective
  <2>2. CASE pc \in {"trace", "dead"}
    <3>1. PICK level \in [Nodes -> Levels] : IsLevel(level)
      BY <1>1 DEF Levelled
    <3>2. PICK steps \in [DOMAIN distances -> Nat] : Climbs(level, steps)
      BY <1>1, <2>2, <3>1 DEF Climbing
    <3> QED BY <1>1, <2>2, <3>2, ClimbingTrail DEF RouteInv, Phases
  <2> QED BY <2>1, <2>2
<1> QED BY <1>1 DEF TrailIsSimple

\* reconstructPath comes to no node twice, unless some round trip costs less than
\* nothing.
THEOREM TrailsAreSimple == Spec => []TrailIsSimple
<1> QED BY ClimbingIsSimple, ClimbingInvariant, PTL

-----------------------------------------------------------------------------
(***************************************************************************)
(* Serving the stops. Until it is done the route has come by the stops     *)
(* before the next leg, in their order; joining a way adds one.            *)
(***************************************************************************)
\* The points collected so far serve the first k stops in their order.
ServesUpTo(k) ==
  \E at \in [1 .. k -> DOMAIN route] :
    /\ \A i \in 1 .. k : route[at[i]] \in Stops[i]
    /\ \A i, j \in 1 .. k : i <= j => at[i] <= at[j]

Serves ==
  /\ pc # "done" => drawn = "nothing"
  /\ pc # "done" => IF route = << >> THEN leg = 1 ELSE ServesUpTo(leg)
  /\ ServesStops

\* What has been collected is not changed by joining a way to it.
LEMMA JoinedExtends ==
  ASSUME NEW way \in Seq(Nodes), way # << >>, route \in Seq(Nodes)
  PROVE  /\ Len(route) <= Len(Joined(way))
         /\ \A i \in DOMAIN route : Joined(way)[i] = route[i]
<1>1. Tail(way) \in Seq(Nodes)
  OBVIOUS
<1>2. \A rest \in Seq(Nodes) : /\ Len(route) <= Len(route \o rest)
                               /\ \A i \in DOMAIN route : (route \o rest)[i] = route[i]
  OBVIOUS
<1> QED BY <1>1, <1>2 DEF Joined

\* The end of a leg comes by one stop more.
LEMMA EndLegServes ==
  ASSUME RouteInv, Serves, EndLeg
  PROVE  Serves'
<1>1. /\ RouteInv' /\ Stops' = Stops /\ IsLeg /\ Tracing /\ leg \in Nat \ {0}
      /\ trail \in Seq(Nodes) /\ trail # << >> /\ route \in Seq(Nodes) /\ pc = "trace"
  BY EndLegStep, SameStops DEF EndLeg, Traced, RouteInv, Phases, Tracing, TypeOK
<1>2. /\ route' = Joined(trail) /\ leg' = leg + 1 /\ pc' = "leg" /\ drawn' = drawn
      /\ trail[1] = Head(trail) /\ previous[trail[1]] = NoNode
      /\ trail[1] \in DOMAIN distances
  BY <1>1, TrailBegins DEF EndLeg, Traced, RouteInv
<1>3. trail[1] \in Stops[leg]
  BY <1>1, <1>2, RouteAssumption DEF RouteInv, Phases, Links, Tracing, TypeOK
<1>4. Len(trail) \in DOMAIN trail /\ trail[Len(trail)] \in Stops[leg + 1]
  BY <1>1 DEF Tracing
<1>5. ServesUpTo(leg)'
  <2>1. CASE route = << >>
    <3>1. leg = 1 /\ route' = trail
      BY <1>1, <1>2, <2>1 DEF Serves, Joined
    <3> DEFINE both == <<1, Len(trail)>>
    <3>2. PICK at \in [1 .. 2 -> DOMAIN trail] : at[1] = 1 /\ at[2] = Len(trail)
      <4>1. both \in [1 .. 2 -> DOMAIN trail]
        BY <1>1
      <4> QED BY <4>1
    <3>3. \A i \in 1 .. 2 : trail[at[i]] \in Stops[i]
      BY <1>3, <1>4, <3>1, <3>2
    <3>4. \A i, j \in 1 .. 2 : i <= j => at[i] <= at[j]
      BY <1>1, <3>2
    <3>5. leg + 1 = 2
      BY <3>1
    <3> QED BY <1>1, <1>2, <3>1, <3>2, <3>3, <3>4, <3>5 DEF ServesUpTo
  <2>2. CASE route # << >>
    <3>1. PICK at \in [1 .. leg -> DOMAIN route] :
            /\ \A i \in 1 .. leg : route[at[i]] \in Stops[i]
            /\ \A i, j \in 1 .. leg : i <= j => at[i] <= at[j]
      BY <1>1, <2>2 DEF Serves, ServesUpTo
    <3>2. /\ Len(route) <= Len(route') /\ \A i \in DOMAIN route : route'[i] = route[i]
          /\ route' \in Seq(Nodes) /\ route' # << >>
          /\ route'[Len(route')] \in Stops[leg + 1]
      <4>1. Joins' /\ route' \in Seq(Nodes)
        BY <1>1 DEF RouteInv, TypeOK
      <4>2. Len(route) <= Len(route') /\ \A i \in DOMAIN route : route'[i] = route[i]
        BY <1>1, <1>2, JoinedExtends
      <4>3. route' # << >>
        BY <1>1, <2>2, <4>1, <4>2
      <4> QED BY <1>1, <1>2, <4>1, <4>2, <4>3 DEF Joins
    <3>3. PICK more \in [1 .. leg + 1 -> DOMAIN route'] :
            \A i \in 1 .. leg + 1 : more[i] = IF i = leg + 1 THEN Len(route') ELSE at[i]
      <4>1. \A i \in 1 .. leg : at[i] \in DOMAIN route'
        BY <1>1, <3>1, <3>2
      <4>2. Len(route') \in DOMAIN route'
        BY <3>2
      <4>3. \A i \in 1 .. leg + 1 : i = leg + 1 \/ i \in 1 .. leg
        BY <1>1
      <4>4. [i \in 1 .. leg + 1 |-> IF i = leg + 1 THEN Len(route') ELSE at[i]]
              \in [1 .. leg + 1 -> DOMAIN route']
        BY <4>1, <4>2, <4>3
      <4> QED BY <4>4
    <3>4. \A i \in 1 .. leg + 1 : i # leg + 1 => i \in 1 .. leg
      BY <1>1
    <3>5. \A i \in 1 .. leg + 1 : route'[more[i]] \in Stops[i]
      BY <3>1, <3>2, <3>3, <3>4
    <3>6. ASSUME NEW i \in 1 .. leg + 1, NEW j \in 1 .. leg + 1, i <= j
          PROVE  more[i] <= more[j]
      <4>1. CASE j = leg + 1
        <5>1. more[i] \in 1 .. Len(route') /\ more[j] = Len(route')
          BY <3>2, <3>3, <4>1
        <5> QED BY <3>2, <5>1
      <4>2. CASE j # leg + 1
        <5>1. i \in 1 .. leg /\ j \in 1 .. leg /\ i # leg + 1
          BY <1>1, <3>4, <3>6, <4>2
        <5> QED BY <3>1, <3>3, <3>6, <4>2, <5>1
      <4> QED BY <4>1, <4>2
    <3> QED BY <1>1, <1>2, <3>3, <3>5, <3>6 DEF ServesUpTo
  <2> QED BY <2>1, <2>2
<1>6. route' # << >>
  <2>1. DOMAIN route' # {}
    <3>1. PICK at \in [1 .. leg + 1 -> DOMAIN route'] : TRUE
      BY <1>2, <1>5 DEF ServesUpTo
    <3>2. 1 \in 1 .. leg + 1
      BY <1>1
    <3> QED BY <3>1, <3>2
  <2> QED BY <2>1
<1>7. drawn' = "nothing"
  BY <1>1, <1>2 DEF Serves
<1> QED BY <1>2, <1>5, <1>6, <1>7 DEF Serves, ServesStops

\* The last leg came by the last stop; a single stop serves itself.
LEMMA EndRouteServes ==
  ASSUME RouteInv, Serves, EndRoute
  PROVE  Serves'
<1>1. /\ pc = "leg" /\ ~IsLeg /\ pc' = "done" /\ route' = Collected /\ platforms' = platforms
      /\ Publish(Collected) /\ TypeOK /\ leg \in Nat \ {0} /\ route \in Seq(Nodes)
  BY DEF EndRoute, RouteInv, TypeOK
<1>2. Stops' = Stops
  BY <1>1, SameStops
<1>3. SUFFICES ASSUME drawn' = "graph" PROVE ServesStops'
  BY <1>1 DEF Serves, ServesStops
<1>4. Len(Collected) >= 2 /\ Collected \in Seq(Nodes) /\ published' = Collected
  <2>1. Collected \in Seq(Nodes)
    <3>1. RouteInv'
      BY EndRouteStep
    <3> QED BY <1>1, <3>1 DEF RouteInv, TypeOK
  <2> QED BY <1>1, <1>3, <2>1, PublishIsPath
<1>5. CASE DOMAIN Stops = {1}
  <2>1. Stops[1] \in SUBSET Nodes
    BY <1>5, StopsAreNodes
  <2>2. Collected \in Seq(Stops[1])
    BY <1>5, <2>1, SetToSeqIsSeq DEF Collected
  <2>3. 1 \in DOMAIN Collected /\ Collected[1] \in Stops[1]
    BY <1>4, <2>2
  <2>4. PICK at \in [DOMAIN Stops -> DOMAIN published'] : at[1] = 1
    <3>1. [i \in {1} |-> 1] \in [DOMAIN Stops -> DOMAIN published']
      BY <1>4, <1>5, <2>3
    <3> QED BY <3>1
  <2> QED BY <1>2, <1>4, <1>5, <2>3, <2>4 DEF ServesStops
<1>6. CASE DOMAIN Stops # {1}
  <2>1. Collected = route
    BY <1>6 DEF Collected
  <2>2. route # << >>
    BY <1>4, <2>1
  <2>3. leg \in DOMAIN Stops /\ leg + 1 \notin DOMAIN Stops
    BY <1>1, <2>2 DEF RouteInv, Joins, IsLeg
  <2>4. PICK n \in 0 .. Len(platforms) : DOMAIN Stops = 1 .. n
    BY <1>1, StopsAreNumbered
  <2>5. DOMAIN Stops = 1 .. leg
    BY <1>1, <2>3, <2>4
  <2>6. ServesUpTo(leg)
    BY <1>1, <2>2 DEF Serves
  <2> QED BY <1>2, <1>4, <2>1, <2>5, <2>6 DEF ServesStops, ServesUpTo
<1> QED BY <1>5, <1>6

\* No other step touches what is collected, but a failure, which publishes nothing
\* that the finder found.
LEMMA ServesStep ==
  ASSUME RouteInv, Serves, [Next]_routeVars
  PROVE  Serves'
<1>1. CASE EndLeg
  BY <1>1, EndLegServes
<1>2. CASE EndRoute
  BY <1>2, EndRouteServes
<1>3. CASE NoPath \/ \E c \in openSet : ExceedCap(c)
  <2>1. pc' = "done" /\ Publish(<< >>) /\ << >> \in Seq(Nodes)
    BY <1>3 DEF NoPath, ExceedCap, Fails
  <2>2. TypeOK /\ ~(Len(<< >>) >= 2)
    BY DEF RouteInv
  <2>3. drawn' # "graph"
    BY <2>1, <2>2, PublishIsPath
  <2> QED BY <2>1, <2>3 DEF Serves, ServesStops
<1>4. CASE \/ StartLeg \/ TraceBack \/ Exhaust \/ UNCHANGED routeVars
           \/ \E c \in openSet : SkipCandidate(c) \/ ReachTarget(c) \/ Expand(c)
  <2>1. /\ UNCHANGED <<platforms, leg, route, drawn, published>>
        /\ pc' # "done" => pc # "done"
    BY <1>4 DEF StartLeg, TraceBack, Exhaust, SkipCandidate, ReachTarget, Expand, Pops, routeVars
  <2>2. Stops' = Stops
    BY <2>1, SameStops
  <2> QED BY <2>1, <2>2 DEF Serves, ServesStops, ServesUpTo
<1> QED BY <1>1, <1>2, <1>3, <1>4 DEF Next, Done

\* A path that is published as drawn from the rails comes by every stop that has a
\* rail near, in the order of the platforms.
THEOREM DrawnRoutesServeStops == Spec => []ServesStops
<1>1. Init => Serves
  BY DEF Init, Serves, ServesStops
<1>2. RouteInv /\ Serves /\ [Next]_routeVars => Serves'
  BY ServesStep
<1>3. Serves => ServesStops
  BY DEF Serves
<1> QED BY <1>1, <1>2, <1>3, RouteInvariant, PTL DEF Spec

-----------------------------------------------------------------------------
(***************************************************************************)
(* Costs of sets of connections. The sum of natural costs is the number of *)
(* units that they are made of, which the theorems on finite sets count.   *)
(***************************************************************************)
Units(cost, edges) == UNION {{e} \X (1 .. cost[e]) : e \in edges}
Toll(cost, edges)  == Cardinality(Units(cost, edges))

\* Finitely many connections are made of finitely many units; more of them are
\* made of more.
LEMMA TollGrows ==
  ASSUME NEW many, IsFiniteSet(many), NEW cost, \A e \in many : cost[e] \in Nat,
         NEW few \in SUBSET many
  PROVE  /\ IsFiniteSet(Units(cost, few))
         /\ Toll(cost, few) \in Nat /\ Toll(cost, many) \in Nat
         /\ Toll(cost, few) <= Toll(cost, many)
<1> DEFINE parts == {{e} \X (1 .. cost[e]) : e \in many}
           part  == [e \in many |-> {e} \X (1 .. cost[e])]
<1>1. part \in Surjection(many, parts)
  BY DEF Surjection
<1>2. IsFiniteSet(parts)
  BY <1>1, FS_Surjection
<1>3. ASSUME NEW units \in parts PROVE IsFiniteSet(units)
  <2>1. PICK e \in many : units = {e} \X (1 .. cost[e])
    OBVIOUS
  <2>2. IsFiniteSet({e}) /\ IsFiniteSet(1 .. cost[e])
    BY FS_Singleton, UpTo
  <2> QED BY <2>1, <2>2, FS_Product
<1>4. IsFiniteSet(Units(cost, many))
  BY <1>2, <1>3, FS_UNION DEF Units
<1>5. Units(cost, few) \in SUBSET Units(cost, many)
  BY DEF Units
<1> QED BY <1>4, <1>5, FS_Subset, FS_CardinalityType DEF Toll

\* One more connection adds what it costs.
LEMMA TollAdds ==
  ASSUME NEW edges, IsFiniteSet(edges), NEW cost, \A e \in edges : cost[e] \in Nat,
         NEW e \in edges
  PROVE  Toll(cost, edges) = cost[e] + Toll(cost, edges \ {e})
<1> DEFINE rest == edges \ {e}
<1>1. cost[e] \in Nat /\ rest \in SUBSET edges /\ {e} \in SUBSET edges
  OBVIOUS
<1>2. /\ IsFiniteSet(Units(cost, rest)) /\ IsFiniteSet(Units(cost, {e}))
      /\ Toll(cost, rest) \in Nat
  BY <1>1, TollGrows
<1>3. Units(cost, edges) = Units(cost, rest) \cup Units(cost, {e})
  BY DEF Units
<1>4. Units(cost, rest) \cap Units(cost, {e}) = {}
  <2>1. \A u \in Units(cost, rest) : u[1] \in rest
    BY DEF Units
  <2>2. \A u \in Units(cost, {e}) : u[1] = e
    BY DEF Units
  <2> QED BY <2>1, <2>2
<1>5. Cardinality(Units(cost, {e})) = cost[e]
  <2>1. Units(cost, {e}) = {e} \X (1 .. cost[e])
    BY DEF Units
  <2>2. IsFiniteSet({e}) /\ Cardinality({e}) = 1
    BY FS_Singleton
  <2>3. IsFiniteSet(1 .. cost[e]) /\ Cardinality(1 .. cost[e]) = cost[e]
    BY <1>1, UpTo
  <2>4. Cardinality({e} \X (1 .. cost[e])) = Cardinality({e}) * Cardinality(1 .. cost[e])
    BY <2>2, <2>3, FS_Product
  <2>5. \A n \in Nat : 1 * n = n
    OBVIOUS
  <2> QED BY <1>1, <2>1, <2>2, <2>3, <2>4, <2>5
<1>6. Cardinality(Units(cost, edges))
        = Cardinality(Units(cost, rest)) + Cardinality(Units(cost, {e})) - Cardinality({})
  BY <1>2, <1>3, <1>4, FS_Union
<1>7. Cardinality({}) = 0
  BY FS_EmptySet
<1> HIDE DEF rest
<1> QED BY <1>1, <1>2, <1>5, <1>6, <1>7 DEF Toll, rest

\* No connections cost nothing.
LEMMA TollOfNothing ==
  ASSUME NEW cost PROVE Toll(cost, {}) = 0
<1>1. Units(cost, {}) = {}
  BY DEF Units
<1> QED BY <1>1, FS_EmptySet DEF Toll

\* What the connections of the graph cost at the present densities.
Costs == [e \in DOMAIN weight |-> CalculateEdgeCost(e)]

Price(way) == Toll(Costs, Ridden(way))

\* Where no ride costs less than nothing, costs are natural numbers.
LEMMA CostsAreNatural ==
  ASSUME TypeOK, NoGain
  PROVE  IsFiniteSet(DOMAIN weight) /\ \A e \in DOMAIN weight : Costs[e] \in Nat
<1>1. IsFiniteSet(Nodes \X Nodes)
  BY FS_Product, RouteAssumption
<1> QED BY <1>1, CostIsInteger, FS_Subset DEF TypeOK, Costs

\* The sum that MapThenSumSet takes is the toll.
LEMMA TollIsSum ==
  ASSUME TypeOK, NoGain, NEW edges \in SUBSET DOMAIN weight
  PROVE  MapThenSumSet(CalculateEdgeCost, edges) = Toll(Costs, edges)
<1> DEFINE First(s)  == CHOOSE e \in s : TRUE
           Sums(sum) ==
             sum = [s \in SUBSET edges |->
                      IF s = {} THEN 0
                      ELSE CalculateEdgeCost(First(s)) + sum[s \ {First(s)}]]
           tolls     == [s \in SUBSET edges |-> Toll(Costs, s)]
           summed    == CHOOSE sum : Sums(sum)
<1>1. MapThenSumSet(CalculateEdgeCost, edges) = summed[edges]
  BY DEF MapThenSumSet, MapThenFoldSet
<1>2. \A s \in SUBSET edges : s # {} => First(s) \in s
  OBVIOUS
<1>3. \A s \in SUBSET edges : IsFiniteSet(s) /\ Cardinality(s) \in Nat
  BY CostsAreNatural, FS_Subset, FS_CardinalityType
<1>4. ASSUME NEW s \in SUBSET edges
      PROVE  Toll(Costs, s) =
               IF s = {} THEN 0
               ELSE CalculateEdgeCost(First(s)) + Toll(Costs, s \ {First(s)})
  <2>1. CASE s = {}
    BY <2>1, TollOfNothing
  <2>2. CASE s # {}
    <3>1. First(s) \in s /\ First(s) \in DOMAIN weight
      BY <1>2, <2>2
    <3>2. CalculateEdgeCost(First(s)) = Costs[First(s)]
      BY <3>1 DEF Costs
    <3>3. IsFiniteSet(s) /\ \A e \in s : Costs[e] \in Nat
      BY <1>3, CostsAreNatural
    <3> HIDE DEF First
    <3> QED BY <2>2, <3>1, <3>2, <3>3, TollAdds
  <2> QED BY <2>1, <2>2
<1>5. Sums(tolls)
  <2>1. \A s \in SUBSET edges : s \ {First(s)} \in SUBSET edges
    OBVIOUS
  <2> QED BY <1>4, <2>1
<1>6. Sums(summed)
  BY <1>5
<1> HIDE DEF summed, tolls
<1>7. ASSUME NEW s \in SUBSET edges, summed[s] # Toll(Costs, s)
      PROVE  s # {} /\ summed[s \ {First(s)}] # Toll(Costs, s \ {First(s)})
  BY <1>4, <1>6, <1>7
<1> DEFINE Wrong == {s \in SUBSET edges : summed[s] # Toll(Costs, s)}
           sizes == {Cardinality(s) : s \in Wrong}
<1>8. ASSUME Wrong # {} PROVE FALSE
  <2>1. sizes \in SUBSET Nat /\ sizes # {}
    BY <1>3, <1>8
  <2>2. PICK n \in sizes : \A m \in sizes : n <= m
    BY <2>1, LeastNumber
  <2>3. PICK s \in Wrong : n = Cardinality(s)
    BY <2>2
  <2>4. s # {} /\ s \ {First(s)} \in Wrong
    BY <1>7, <2>3
  <2>5. Cardinality(s \ {First(s)}) = Cardinality(s) - 1
    BY <1>2, <1>3, <2>3, <2>4, FS_RemoveElement
  <2>6. Cardinality(s \ {First(s)}) \in sizes /\ Cardinality(s) \in Nat
    BY <1>3, <2>3, <2>4
  <2>7. n <= Cardinality(s \ {First(s)})
    BY <2>2, <2>6
  <2> QED BY <2>3, <2>5, <2>6, <2>7
<1> QED BY <1>1, <1>8

-----------------------------------------------------------------------------
(***************************************************************************)
(* Ways. On a graph that is laid over the rails a way is a sequence that   *)
(* repeats no node and follows connections.                                *)
(***************************************************************************)
Laid == \A e \in DOMAIN weight : {e[1], e[2]} \in Rails

IsWay(way) ==
  way \in Seq(Nodes) /\ way # << >> /\ IsInjective(way) /\ IsOnRails(way)

\* What the community modules enumerate are the sequences without repetition.
LEMMA PermutationsAre ==
  ASSUME NEW way
  PROVE  way \in SetToAllKPermutations(Nodes) <=> way \in Seq(Nodes) /\ IsInjective(way)
<1>1. ASSUME way \in SetToAllKPermutations(Nodes)
      PROVE  way \in Seq(Nodes) /\ IsInjective(way)
  <2>1. PICK s \in SUBSET Nodes : way \in SetToSeqs(s)
    BY <1>1 DEF SetToAllKPermutations
  <2>2. Cardinality(s) \in Nat
    BY FS_Subset, FS_CardinalityType, RouteAssumption
  <2>3. /\ way \in [1 .. Cardinality(s) -> s]
        /\ \A i, j \in 1 .. Cardinality(s) : i # j => way[i] # way[j]
    BY <2>1 DEF SetToSeqs
  <2>4. way \in Seq(s)
    BY <2>2, <2>3
  <2>5. way \in Seq(Nodes)
    BY <2>4
  <2> QED BY <2>3, <2>5 DEF IsInjective
<1>2. ASSUME way \in Seq(Nodes), IsInjective(way)
      PROVE  way \in SetToAllKPermutations(Nodes)
  <2> DEFINE s == {way[i] : i \in 1 .. Len(way)}
  <2>1. Len(way) \in Nat /\ way \in [1 .. Len(way) -> s] /\ s \in SUBSET Nodes
    BY <1>2
  <2>2. IsFiniteSet(1 .. Len(way)) /\ Cardinality(1 .. Len(way)) = Len(way)
    BY <2>1, UpTo
  <2>3. way \in Bijection(1 .. Len(way), s)
    BY <1>2, <2>1 DEF Bijection, Injection, Surjection, IsInjective
  <2>4. Cardinality(s) = Len(way)
    <3> HIDE DEF s
    <3> QED BY <2>2, <2>3, FS_Bijection DEF ExistsBijection
  <2>5. \A i, j \in 1 .. Len(way) : i # j => way[i] # way[j]
    BY <1>2, <2>1 DEF IsInjective
  <2> HIDE DEF s
  <2>6. way \in SetToSeqs(s)
    BY <2>1, <2>4, <2>5 DEF SetToSeqs
  <2> QED BY <2>1, <2>6 DEF SetToAllKPermutations
<1> QED BY <1>1, <1>2

\* The ways the properties compare with, without the enumeration.
LEMMA WaysAre ==
  ASSUME Laid, NEW S, NEW T, NEW way
  PROVE  way \in Ways(S, T) <=> IsWay(way) /\ way[1] \in S /\ way[Len(way)] \in T
<1>1. Ridden(way) \subseteq DOMAIN weight <=> IsOnRails(way)
  BY DEF Ridden, IsOnRails
<1>2. ASSUME IsOnRails(way), NEW i \in 1 .. Len(way) - 1
      PROVE  {way[i], way[i + 1]} \in Rails
  <2>1. <<way[i], way[i + 1]>> \in DOMAIN weight
    BY <1>2 DEF IsOnRails
  <2> QED BY <2>1 DEF Laid
<1>3. way \in SimpleWays /\ IsOnRails(way) <=> IsWay(way)
  BY <1>2, PermutationsAre DEF SimpleWays, IsWay
<1>4. Last(way) = way[Len(way)]
  BY DEF Last
<1> QED BY <1>1, <1>3, <1>4 DEF Ways

\* One connection more adds its cost.
LEMMA OneMoreEdge ==
  ASSUME TypeOK, NoGain, NEW edges \in SUBSET DOMAIN weight,
         NEW e \in DOMAIN weight, e \notin edges
  PROVE  /\ Toll(Costs, edges \cup {e}) = Toll(Costs, edges) + Costs[e]
         /\ Toll(Costs, edges) \in Nat /\ Costs[e] \in Nat
<1> DEFINE more == edges \cup {e}
<1>1. more \in SUBSET DOMAIN weight /\ e \in more /\ more \ {e} = edges
  OBVIOUS
<1> HIDE DEF more
<1>2. IsFiniteSet(more) /\ \A d \in more : Costs[d] \in Nat
  BY <1>1, CostsAreNatural, FS_Subset
<1>3. Toll(Costs, more) = Costs[e] + Toll(Costs, more \ {e})
  BY <1>1, <1>2, TollAdds
<1>4. Toll(Costs, edges) \in Nat
  BY <1>1, <1>2, TollGrows
<1>5. Costs[e] \in Nat
  BY <1>1, <1>2
<1>6. \A a, b \in Nat : a + b = b + a
  OBVIOUS
<1>7. Toll(Costs, more) = Toll(Costs, edges) + Costs[e]
  BY ZenonT(20), <1>1, <1>3, <1>4, <1>5, <1>6
<1> QED BY <1>4, <1>5, <1>7 DEF more

\* A way goes on to a node it has not been to.
LEMMA WayGoesOn ==
  ASSUME TypeOK, NoGain, NEW way, IsWay(way), NEW m \in Nodes,
         <<way[Len(way)], m>> \in DOMAIN weight,
         \A i \in 1 .. Len(way) : way[i] # m
  PROVE  \E longer :
           /\ IsWay(longer) /\ Len(longer) = Len(way) + 1
           /\ longer[Len(longer)] = m
           /\ \A i \in 1 .. Len(way) : longer[i] = way[i]
           /\ Price(longer) = Price(way) + Costs[<<way[Len(way)], m>>]
<1> DEFINE longer == Append(way, m)
           e == <<way[Len(way)], m>>
<1>1. /\ way \in Seq(Nodes) /\ Len(way) \in Nat /\ Len(way) >= 1
      /\ Len(longer) = Len(way) + 1 /\ longer \in Seq(Nodes) /\ longer # << >>
      /\ \A i \in 1 .. Len(way) : longer[i] = way[i]
      /\ longer[Len(way) + 1] = m
  BY DEF IsWay
<1> HIDE DEF longer
<1>2. IsInjective(longer)
  <2>1. \A i \in DOMAIN longer : i = Len(way) + 1 \/ (i \in 1 .. Len(way) /\ i \in DOMAIN way)
    BY <1>1
  <2> QED BY <1>1, <2>1 DEF IsInjective, IsWay
<1>3. Ridden(longer) = Ridden(way) \cup {e}
  <2>1. ASSUME NEW i \in 1 .. Len(way)
        PROVE  \/ i = Len(way) /\ <<longer[i], longer[i + 1]>> = e
               \/ i \in 1 .. Len(way) - 1 /\ <<longer[i], longer[i + 1]>> = <<way[i], way[i + 1]>>
    <3>1. CASE i = Len(way)
      BY <1>1, <3>1
    <3>2. CASE i # Len(way)
      <4>1. i \in 1 .. Len(way) - 1 /\ i + 1 \in 1 .. Len(way)
        BY <1>1, <3>2
      <4> QED BY <1>1, <4>1
    <3> QED BY <3>1, <3>2
  <2>2. \A i \in 1 .. Len(way) - 1 : i \in 1 .. Len(way)
    BY <1>1
  <2>3. Len(way) \in 1 .. Len(way)
    BY <1>1
  <2>4. 1 .. Len(longer) - 1 = 1 .. Len(way)
    BY <1>1
  <2>5. Ridden(longer) \subseteq Ridden(way) \cup {e}
    BY <2>1, <2>4 DEF Ridden
  <2>6. ASSUME NEW i \in 1 .. Len(way) - 1
        PROVE  <<way[i], way[i + 1]>> \in Ridden(longer)
    <3>1. i \in 1 .. Len(way) /\ i # Len(way)
      BY <1>1
    <3>2. <<longer[i], longer[i + 1]>> = <<way[i], way[i + 1]>>
      BY <2>1, <3>1
    <3>3. <<longer[i], longer[i + 1]>> \in Ridden(longer)
      BY <2>4, <3>1 DEF Ridden
    <3> QED BY <3>2, <3>3
  <2>7. e \in Ridden(longer)
    <3>1. <<longer[Len(way)], longer[Len(way) + 1]>> \in Ridden(longer)
      BY <2>3, <2>4 DEF Ridden
    <3> QED BY <1>1, <2>3, <3>1
  <2>8. Ridden(way) \subseteq Ridden(longer)
    BY <2>6 DEF Ridden
  <2> QED BY <2>5, <2>7, <2>8
<1>4. Ridden(way) \in SUBSET DOMAIN weight
  BY DEF Ridden, IsWay, IsOnRails
<1>5. e \notin Ridden(way)
  <2> SUFFICES ASSUME NEW i \in 1 .. Len(way) - 1, e = <<way[i], way[i + 1]>>
               PROVE  FALSE
    BY DEF Ridden
  <2>1. i + 1 \in 1 .. Len(way) /\ way[i + 1] = m
    BY <1>1
  <2> QED BY <2>1
<1>6. IsOnRails(longer)
  <2>1. Ridden(longer) \subseteq DOMAIN weight
    BY <1>3, <1>4
  <2> QED BY <2>1 DEF Ridden, IsOnRails
<1>7. Price(longer) = Price(way) + Costs[e]
  BY <1>3, <1>4, <1>5, OneMoreEdge DEF Price
<1> QED BY <1>1, <1>2, <1>6, <1>7 DEF IsWay

\* A way starts earlier, from a node it has not been to.
LEMMA WayStartsEarlier ==
  ASSUME TypeOK, NoGain, NEW way, IsWay(way), NEW m \in Nodes,
         <<m, way[1]>> \in DOMAIN weight,
         NEW longer, longer = <<m>> \o way, IsInjective(longer)
  PROVE  IsWay(longer) /\ Price(longer) = Price(way) + Costs[<<m, way[1]>>]
<1> DEFINE e == <<m, way[1]>>
<1>1. /\ way \in Seq(Nodes) /\ Len(way) \in Nat /\ Len(way) >= 1
      /\ Len(longer) = Len(way) + 1 /\ longer \in Seq(Nodes) /\ longer # << >>
      /\ \A i \in 1 .. Len(way) : longer[i + 1] = way[i]
      /\ longer[1] = m
  BY DEF IsWay
<1>2. /\ \A i \in 1 .. Len(way) - 1 : i \in 1 .. Len(way) /\ i + 1 \in 1 .. Len(way)
      /\ 1 .. Len(longer) - 1 = 1 .. Len(way) /\ 1 \in 1 .. Len(way)
      /\ \A i \in 1 .. Len(way) : i = 1 \/ i - 1 \in 1 .. Len(way) - 1
  BY <1>1
<1>3. Ridden(longer) \subseteq Ridden(way) \cup {e}
  <2> SUFFICES ASSUME NEW i \in 1 .. Len(way)
               PROVE  <<longer[i], longer[i + 1]>> \in Ridden(way) \cup {e}
    BY <1>2 DEF Ridden
  <2>1. CASE i = 1
    BY <1>1, <1>2, <2>1
  <2>2. CASE i # 1
    <3> DEFINE j == i - 1
    <3>1. j \in 1 .. Len(way) - 1 /\ j + 1 = i /\ j \in 1 .. Len(way)
      BY <1>2, <2>2
    <3>2. longer[i] = way[j] /\ longer[i + 1] = way[j + 1]
      BY <1>1, <3>1
    <3>3. <<way[j], way[j + 1]>> \in Ridden(way)
      BY <3>1 DEF Ridden
    <3> QED BY <3>2, <3>3
  <2> QED BY <2>1, <2>2
<1>4. ASSUME NEW i \in 1 .. Len(way) - 1
      PROVE  <<way[i], way[i + 1]>> \in Ridden(longer)
  <2>1. i \in 1 .. Len(way) /\ i + 1 \in 1 .. Len(way) /\ (i + 1) + 1 = i + 2
    BY <1>2
  <2>2. longer[i + 1] = way[i] /\ longer[i + 2] = way[i + 1]
    BY <1>1, <2>1
  <2>3. <<longer[i + 1], longer[(i + 1) + 1]>> \in Ridden(longer)
    BY <1>2, <2>1 DEF Ridden
  <2> QED BY <2>1, <2>2, <2>3
<1>5. e \in Ridden(longer)
  <2>1. <<longer[1], longer[1 + 1]>> \in Ridden(longer)
    BY <1>2 DEF Ridden
  <2>2. longer[1 + 1] = way[1]
    BY <1>1, <1>2
  <2> QED BY <1>1, <2>1, <2>2
<1>6. Ridden(longer) = Ridden(way) \cup {e}
  <2>1. Ridden(way) \subseteq Ridden(longer)
    BY <1>4 DEF Ridden
  <2> QED BY <1>3, <1>5, <2>1
<1>7. Ridden(way) \in SUBSET DOMAIN weight
  BY DEF Ridden, IsWay, IsOnRails
<1>8. e \notin Ridden(way)
  <2> SUFFICES ASSUME NEW i \in 1 .. Len(way) - 1, e = <<way[i], way[i + 1]>>
               PROVE  FALSE
    BY DEF Ridden
  <2>1. way[i] = m /\ longer[i + 1] = m /\ longer[1] = m
    BY <1>1, <1>2
  <2>2. i + 1 \in DOMAIN longer /\ 1 \in DOMAIN longer /\ i + 1 # 1
    BY <1>1
  <2> QED BY <2>1, <2>2 DEF IsInjective
<1>9. IsOnRails(longer)
  <2>1. Ridden(longer) \subseteq DOMAIN weight
    BY <1>6, <1>7
  <2> QED BY <2>1 DEF Ridden, IsOnRails
<1>10. Price(longer) = Price(way) + Costs[e]
  BY <1>6, <1>7, <1>8, OneMoreEdge DEF Price
<1> QED BY <1>1, <1>9, <1>10 DEF IsWay

-----------------------------------------------------------------------------
(***************************************************************************)
(* The search finds a way where there is one. What has been visited has    *)
(* been expanded, so a way leaves the visited nodes at one that is reached *)
(* and, where no ride costs less than nothing, reached for no more than    *)
(* the way has cost by then.                                               *)
(***************************************************************************)
\* A way from the stop to n that the search has found, over visited nodes.
Found(n, way) ==
  /\ IsWay(way) /\ way[1] \in Stops[leg] /\ way[Len(way)] = n
  /\ Price(way) = distances[n]
  /\ \A i \in 1 .. Len(way) - 1 : way[i] \in visited

Explored ==
  /\ \A s \in Stops[leg] : s \in DOMAIN distances /\ distances[s] = 0
  /\ \A u \in visited, m \in Nodes : <<u, m>> \in DOMAIN weight =>
       m \in DOMAIN distances /\ distances[m] <= distances[u] + Costs[<<u, m>>]
  /\ \A n \in DOMAIN distances : \E way \in Seq(Nodes) : Found(n, way)

\* The part of this that does not depend on what rides cost.
Covered ==
  /\ Stops[leg] \subseteq DOMAIN distances
  /\ \A u \in visited, m \in Nodes : <<u, m>> \in DOMAIN weight => m \in DOMAIN distances
  /\ visited \cap Stops[leg + 1] = {}

\* What a link adds to the distance.
Linked ==
  \A n \in DOMAIN distances :
    distances[n] = IF previous[n] = NoNode THEN 0
                   ELSE distances[previous[n]] + Costs[<<previous[n], n>>]

\* The trail costs what is left of the distance, which no way undercuts.
Measured ==
  LET far == distances[trail[Len(trail)]]
  IN  /\ distances[trail[1]] + Price(trail) = far
      /\ \A way \in Legs : far <= Price(way)

\* What may be found before any way to the next stop.
Nearer ==
  {n \in Nodes : \E way \in Ways(Stops[leg], {n}) :
                   \A other \in Legs : Price(way) <= Price(other)}

Excused ==
  /\ failure = "no-path" => Legs = {}
  /\ failure = "visit-cap-exceeded" /\ NoGain => Cardinality(Nearer) > MaxVisits

\* What is true of the costs.
Exact ==
  /\ pc = "search" => Explored
  /\ pc \in {"search", "trace"} => Linked
  /\ pc = "trace" => Measured

Cheapest ==
  /\ Laid /\ Excused
  /\ pc # "done" => failure = "none"
  /\ pc = "search" => Covered
  /\ NoGain => Exact

\* Prices depend on the graph and the densities alone.
LEMMA SamePrices ==
  ASSUME UNCHANGED <<weight, density>>
  PROVE  /\ Costs' = Costs /\ Laid' = Laid
         /\ \A way : Price(way)' = Price(way) /\ IsWay(way)' = IsWay(way)
<1>1. Costs' = Costs
  BY DEF Costs, CalculateEdgeCost
<1> QED BY <1>1 DEF Price, Toll, Units, Ridden, IsWay, IsOnRails, Laid

\* The ways of a leg depend on the graph, the platforms and the leg alone.
LEMMA SameWays ==
  ASSUME UNCHANGED <<weight, platforms, leg>>
  PROVE  /\ Stops' = Stops /\ Legs' = Legs
         /\ \A n : Ways(Stops[leg], {n})' = Ways(Stops[leg], {n})
<1>1. Stops' = Stops
  BY SameStops
<1> QED BY <1>1 DEF Legs, Ways, Ridden

\* What a way of the present leg is.
LEMMA LegsAre ==
  ASSUME Laid, NEW way
  PROVE  way \in Legs <=> IsWay(way) /\ way[1] \in Stops[leg]
                                     /\ way[Len(way)] \in Stops[leg + 1]
  BY WaysAre DEF Legs

\* Every way to the next stop has yet to pass a node that is reached and not
\* visited, and costs no less than that node.
LEMMA UnvisitedOnTheWay ==
  ASSUME RouteInv, Cheapest, NoGain, pc = "search", NEW way \in Legs
  PROVE  \E v \in DOMAIN distances \ visited : distances[v] <= Price(way)
<1>1. /\ IsWay(way) /\ way[1] \in Stops[leg] /\ way[Len(way)] \in Stops[leg + 1]
      /\ Explored /\ Covered /\ TypeOK
      /\ \A n \in DOMAIN distances : distances[n] \in Nat
  BY LegsAre DEF Cheapest, Exact, RouteInv, Natural
<1>2. way \in Seq(Nodes) /\ Len(way) \in Nat /\ Len(way) >= 1
  BY <1>1 DEF IsWay
<1> DEFINE out == {i \in 1 .. Len(way) : way[i] \notin visited}
<1>3. PICK k \in out : \A i \in out : k <= i
  <2>1. Len(way) \in out
    BY <1>1, <1>2 DEF Covered
  <2>2. out \in SUBSET Nat /\ out # {}
    BY <2>1
  <2> HIDE DEF out
  <2> QED BY <2>2, LeastNumber
<1>4. k \in 1 .. Len(way) /\ way[k] \notin visited
  OBVIOUS
<1>5. \A i \in 1 .. k - 1 : way[i] \in visited /\ i \in 1 .. Len(way)
  BY <1>2, <1>3
<1> DEFINE Before(i) == {<<way[j], way[j + 1]>> : j \in 1 .. i - 1}
           Reached(i) == /\ way[i] \in DOMAIN distances
                          /\ distances[way[i]] <= Toll(Costs, Before(i))
           bad == {i \in 1 .. k : ~Reached(i)}
<1>6. \A i \in 1 .. Len(way) :
        /\ Before(i) \in SUBSET Ridden(way) /\ Before(i) \in SUBSET DOMAIN weight
        /\ Toll(Costs, Before(i)) \in Nat /\ Toll(Costs, Before(i)) <= Price(way)
  <2>1. Ridden(way) \in SUBSET DOMAIN weight
    BY <1>1 DEF IsWay, IsOnRails, Ridden
  <2>2. ASSUME NEW i \in 1 .. Len(way) PROVE Before(i) \in SUBSET Ridden(way)
    <3>1. \A j \in 1 .. i - 1 : j \in 1 .. Len(way) - 1
      BY <1>2
    <3> QED BY <3>1 DEF Ridden
  <2>3. IsFiniteSet(Ridden(way)) /\ \A e \in Ridden(way) : Costs[e] \in Nat
    BY <1>1, <2>1, CostsAreNatural, FS_Subset
  <2> HIDE DEF Before
  <2> QED BY <2>1, <2>2, <2>3, TollGrows DEF Price
<1>7. ASSUME NEW b \in 1 .. k, b # 1, Reached(b - 1) PROVE Reached(b)
  <2> DEFINE a == b - 1
             e == <<way[a], way[b]>>
  <2>1. /\ a \in 1 .. k - 1 /\ a \in 1 .. Len(way) /\ b \in 1 .. Len(way) /\ b = a + 1
        /\ a \in 1 .. Len(way) - 1
    BY <1>2, <1>4, <1>7
  <2>2. way[a] \in visited /\ way[b] \in Nodes /\ e \in DOMAIN weight
    <3>1. <<way[a], way[a + 1]>> \in DOMAIN weight
      BY <1>1, <2>1 DEF IsWay, IsOnRails
    <3>2. way[b] \in Nodes
      BY <1>2, <2>1
    <3>3. way[a] \in visited
      BY <1>5, <2>1
    <3> HIDE DEF a
    <3> QED BY <2>1, <3>1, <3>2, <3>3
  <2>3. /\ way[b] \in DOMAIN distances /\ distances[way[b]] \in Nat
        /\ distances[way[a]] \in Nat
        /\ distances[way[b]] <= distances[way[a]] + Costs[e]
    <3>1. way[a] \in DOMAIN distances
      BY <1>1, <2>2 DEF TypeOK
    <3> QED BY <1>1, <2>2, <3>1 DEF Explored
  <2>4. Before(b) = Before(a) \cup {e}
    <3>1. \A j \in 1 .. b - 1 : j = a \/ j \in 1 .. a - 1
      BY <1>2, <2>1
    <3>2. a \in 1 .. b - 1 /\ \A j \in 1 .. a - 1 : j \in 1 .. b - 1
      BY <1>2, <2>1
    <3> QED BY <2>1, <3>1, <3>2
  <2>5. e \notin Before(a)
    <3> SUFFICES ASSUME NEW j \in 1 .. a - 1, e = <<way[j], way[j + 1]>> PROVE FALSE
      OBVIOUS
    <3>1. j \in DOMAIN way /\ a \in DOMAIN way /\ way[j] = way[a] /\ j # a
      BY <1>2, <2>1
    <3> QED BY <1>1, <3>1 DEF IsWay, IsInjective
  <2>6. /\ Toll(Costs, Before(b)) = Toll(Costs, Before(a)) + Costs[e]
        /\ Toll(Costs, Before(a)) \in Nat /\ Costs[e] \in Nat
    <3> HIDE DEF Before, e
    <3> QED BY <1>1, <1>6, <2>1, <2>2, <2>4, <2>5, OneMoreEdge
  <2>7. distances[way[a]] <= Toll(Costs, Before(a))
    BY <1>7
  <2> HIDE DEF Before, e, a
  <2> QED BY <2>3, <2>6, <2>7
<1>8. Reached(1)
  <2>1. 1 \in 1 .. Len(way)
    BY <1>2
  <2>2. Toll(Costs, Before(1)) \in Nat
    BY <1>6, <2>1
  <2> HIDE DEF Before
  <2> QED BY <1>1, <2>2 DEF Explored
<1>9. bad = {}
  <2> SUFFICES ASSUME bad # {} PROVE FALSE
    OBVIOUS
  <2>1. bad \in SUBSET Nat
    OBVIOUS
  <2>2. PICK b \in bad : \A i \in bad : b <= i
    <3> HIDE DEF bad
    <3> QED BY <2>1, LeastNumber
  <2>3. b \in 1 .. k /\ ~Reached(b)
    OBVIOUS
  <2> HIDE DEF Reached
  <2>4. b # 1
    BY <1>8, <2>3
  <2>5. b - 1 \in 1 .. k
    BY <1>4, <2>3, <2>4
  <2>6. Reached(b - 1)
    <3>1. ~(b <= b - 1)
      BY <2>3
    <3> QED BY <2>2, <2>5, <3>1
  <2> QED BY <1>7, <2>3, <2>4, <2>6
<1>10. Reached(k)
  <2> HIDE DEF Reached
  <2>1. k \in 1 .. k
    BY <1>4
  <2> QED BY <1>9, <2>1
<1>11. distances[way[k]] \in Nat /\ Price(way) \in Nat
  <2>1. Price(way) \in Nat
    <3>1. Ridden(way) \in SUBSET DOMAIN weight
      BY <1>1 DEF IsWay, IsOnRails, Ridden
    <3> QED BY <1>1, <3>1, CostsAreNatural, TollGrows DEF Price
  <2> QED BY <1>1, <1>10, <2>1
<1>12. Toll(Costs, Before(k)) \in Nat /\ Toll(Costs, Before(k)) <= Price(way)
  BY <1>4, <1>6
<1> HIDE DEF Before
<1> QED BY <1>4, <1>10, <1>11, <1>12

\* With nothing on the heap there was no way to the next stop.
LEMMA EmptyHeap ==
  ASSUME RouteInv, Cheapest, pc = "search", openSet = {}
  PROVE  Legs = {}
<1> SUFFICES ASSUME NEW way \in Legs PROVE FALSE
  OBVIOUS
<1>1. /\ IsWay(way) /\ way[1] \in Stops[leg] /\ way[Len(way)] \in Stops[leg + 1]
      /\ Covered /\ Frontier
  BY LegsAre DEF Cheapest, RouteInv, Phases
<1>2. way \in Seq(Nodes) /\ Len(way) \in Nat /\ Len(way) >= 1
  BY <1>1 DEF IsWay
<1>3. \A n \in DOMAIN distances : n \in visited
  BY <1>1 DEF Frontier
<1> DEFINE out == {i \in 1 .. Len(way) : way[i] \notin visited}
<1>4. PICK k \in out : \A i \in out : k <= i
  <2>1. Len(way) \in out
    BY <1>1, <1>2 DEF Covered
  <2>2. out \in SUBSET Nat /\ out # {}
    BY <2>1
  <2> HIDE DEF out
  <2> QED BY <2>2, LeastNumber
<1>5. k \in 1 .. Len(way) /\ way[k] \notin visited
  OBVIOUS
<1>6. k # 1
  BY <1>1, <1>3, <1>5 DEF Covered
<1>7. k - 1 \in 1 .. Len(way) - 1 /\ k - 1 \in 1 .. Len(way) /\ (k - 1) + 1 = k
  BY <1>2, <1>5, <1>6, OneBefore
<1>8. way[k - 1] \in visited
  <2>1. ~(k <= k - 1)
    BY <1>5
  <2> QED BY <1>4, <1>7, <2>1
<1>9. <<way[k - 1], way[k]>> \in DOMAIN weight /\ way[k] \in Nodes
  BY <1>1, <1>2, <1>5, <1>7 DEF IsWay, IsOnRails
<1> QED BY <1>1, <1>3, <1>5, <1>8, <1>9 DEF Covered

\* A search starts with the ways of one node, at no cost.
LEMMA StartIsCheap ==
  ASSUME RouteInv, Cheapest, StartLeg
  PROVE  Exact'
<1>1. leg \in DOMAIN Stops /\ Stops[leg] \subseteq Nodes /\ Stops' = Stops
  BY StopsAreNodes, SameStops DEF StartLeg, IsLeg
<1>2. /\ Costs' = Costs /\ Laid' /\ pc' = "search" /\ leg' = leg /\ visited' = {}
      /\ distances' = [n \in Stops[leg] |-> 0] /\ failure' = "none"
      /\ previous' = [n \in Stops[leg] |-> NoNode]
      /\ \A way : Price(way)' = Price(way) /\ IsWay(way)' = IsWay(way)
  BY SamePrices DEF StartLeg, Cheapest
<1>3. ASSUME NEW n \in Stops[leg]
      PROVE  \E way \in Seq(Nodes) : Found(n, way)'
  <2> DEFINE way == <<n>>
  <2>1. way \in Seq(Nodes) /\ Len(way) = 1 /\ way[1] = n /\ 1 .. Len(way) - 1 = {}
    BY <1>1
  <2>2. IsWay(way)
    BY <2>1 DEF IsWay, IsInjective, IsOnRails
  <2>3. Price(way) = 0
    <3>1. Ridden(way) = {}
      BY <2>1 DEF Ridden
    <3> QED BY <3>1, TollOfNothing DEF Price
  <2>4. Found(n, way)'
    <3> HIDE DEF way
    <3> QED BY <1>1, <1>2, <2>1, <2>2, <2>3 DEF Found
  <2> QED BY <2>1, <2>4
<1>4. Explored'
  BY <1>1, <1>2, <1>3 DEF Explored
<1>5. Linked'
  BY <1>2 DEF Linked
<1> QED BY <1>2, <1>4, <1>5 DEF Exact

\* The stop that is taken off the heap is as near as any way comes.
LEMMA ReachIsCheap ==
  ASSUME RouteInv, Cheapest, NoGain, NEW c \in openSet, ReachTarget(c)
  PROVE  Exact'
<1> DEFINE n == c.id
<1>1. /\ pc = "search" /\ pc' = "trace" /\ trail' = <<n>> /\ failure' = "none"
      /\ UNCHANGED <<weight, platforms, density, leg, distances, previous>>
      /\ Linked /\ \A m \in DOMAIN distances : distances[m] \in Nat
  BY DEF ReachTarget, Pops, Cheapest, Exact, RouteInv, Natural
<1>2. /\ n \in DOMAIN distances \ visited /\ distances[n] \in Nat /\ n \in Nodes
      /\ \A v \in DOMAIN distances \ visited : distances[n] <= distances[v]
  BY <1>1, Nearest DEF ReachTarget, RouteInv, TypeOK
<1>3. /\ Costs' = Costs /\ Laid' /\ Stops' = Stops /\ Legs' = Legs
      /\ \A way : Price(way)' = Price(way)
  BY <1>1, SamePrices, SameWays DEF Cheapest
<1>4. \A way \in Legs : distances[n] <= Price(way)
  <2> SUFFICES ASSUME NEW way \in Legs PROVE distances[n] <= Price(way)
    OBVIOUS
  <2>1. PICK v \in DOMAIN distances \ visited : distances[v] <= Price(way)
    BY <1>1, UnvisitedOnTheWay
  <2>2. distances[v] \in Nat /\ Price(way) \in Nat
    <3>1. Ridden(way) \in SUBSET DOMAIN weight
      BY LegsAre DEF Cheapest, IsWay, IsOnRails, Ridden
    <3>2. Price(way) \in Nat
      BY <3>1, CostsAreNatural, TollGrows DEF Price, RouteInv
    <3> QED BY <1>1, <3>2
  <2> QED BY <1>2, <2>1, <2>2
<1>5. Price(<<n>>) = 0
  <2>1. Ridden(<<n>>) = {}
    BY DEF Ridden
  <2> QED BY <2>1, TollOfNothing DEF Price
<1>6. Measured'
  <2>1. trail'[1] = n /\ trail'[Len(trail')] = n /\ Price(trail)' = 0
    <3>1. Price(trail)' = Toll(Costs', Ridden(trail'))
      BY DEF Price, Ridden
    <3> QED BY <1>1, <1>3, <1>5, <3>1 DEF Price
  <2> QED BY <1>1, <1>2, <1>3, <1>4, <2>1 DEF Measured
<1>7. Linked'
  BY <1>1, <1>3 DEF Linked
<1> QED BY <1>1, <1>6, <1>7 DEF Exact

\* What is reached through the expanded node is reached by its way and one
\* connection.
LEMMA ExpandIsCheap ==
  ASSUME RouteInv, Cheapest, NoGain, NEW c \in openSet, Expand(c)
  PROVE  Exact'
<1> DEFINE n == c.id
           Cost(m) == distances[n] + CalculateEdgeCost(<<n, m>>)
<1>1. /\ pc = "search" /\ Pops(c) /\ ~IsStale(c) /\ Explored /\ Linked /\ TypeOK
      /\ n \in DOMAIN distances \ visited /\ n \in Nodes /\ distances[n] \in Nat
      /\ Links /\ \A m \in DOMAIN distances : distances[m] \in Nat
  <2>1. /\ pc = "search" /\ Pops(c) /\ ~IsStale(c) /\ Explored /\ Linked /\ TypeOK /\ Links
        /\ \A m \in DOMAIN distances : distances[m] \in Nat
    BY DEF Expand, Pops, Cheapest, Exact, RouteInv, Natural, Phases
  <2> QED BY <2>1, Nearest DEF TypeOK
<1>2. /\ visited' = visited \cup {n}
      /\ distances' = [m \in DOMAIN distances \cup Better(n) |->
                        IF m \in Better(n) THEN Cost(m) ELSE distances[m]]
      /\ previous' = [m \in DOMAIN distances \cup Better(n) |->
                        IF m \in Better(n) THEN n ELSE previous[m]]
      /\ UNCHANGED <<weight, platforms, density, leg, pc, failure>>
      /\ n \notin Stops[leg + 1]
  BY DEF Expand
<1>3. /\ Costs' = Costs /\ Laid' /\ Stops' = Stops
      /\ \A way : Price(way)' = Price(way) /\ IsWay(way)' = IsWay(way)
  BY <1>2, SamePrices, SameWays DEF Cheapest
<1>4. Better(n) \cap (visited \cup {n}) = {}
  BY <1>1, VisitedIsNotBetter
<1>5. \A m \in Nodes : <<n, m>> \in DOMAIN weight =>
        Costs[<<n, m>>] \in Nat /\ Cost(m) = distances[n] + Costs[<<n, m>>]
  BY CostsAreNatural, <1>1 DEF Costs
<1>6. \A m \in Better(n) : /\ m \in Nodes /\ <<n, m>> \in DOMAIN weight
                           /\ m \in DOMAIN distances => Cost(m) < distances[m]
  BY <1>1, BetterIsAdjacent DEF Better
<1>7. \A m \in Nodes : <<n, m>> \in DOMAIN weight /\ m \notin Better(n) =>
        m \in DOMAIN distances /\ ~(Cost(m) < distances[m])
  BY <1>1 DEF Better, Adjacent
<1> HIDE DEF n, Cost
<1>8. /\ \A m \in Better(n) : m \in DOMAIN distances' /\ distances'[m] = Cost(m)
                             /\ previous'[m] = n
      /\ \A m \in DOMAIN distances \ Better(n) :
           m \in DOMAIN distances' /\ distances'[m] = distances[m] /\ previous'[m] = previous[m]
      /\ \A m \in DOMAIN distances' : m \in Better(n) \/ m \in DOMAIN distances \ Better(n)
  BY <1>2
<1>9. \A m \in DOMAIN distances : distances[m] \in Nat /\ distances'[m] \in Nat
                                /\ distances'[m] <= distances[m]
  <2> SUFFICES ASSUME NEW m \in DOMAIN distances
               PROVE  distances[m] \in Nat /\ distances'[m] \in Nat
                      /\ distances'[m] <= distances[m]
    OBVIOUS
  <2>1. distances[m] \in Nat
    BY <1>1
  <2>2. CASE m \in Better(n)
    <3>1. Cost(m) \in Nat /\ Cost(m) < distances[m] /\ distances'[m] = Cost(m)
      <4>1. Cost(m) = distances[n] + Costs[<<n, m>>] /\ Costs[<<n, m>>] \in Nat
        BY <1>5, <1>6, <2>2
      <4>2. Cost(m) < distances[m] /\ distances'[m] = Cost(m)
        BY <1>6, <1>8, <2>2
      <4> QED BY <1>1, <4>1, <4>2
    <3> QED BY <2>1, <3>1
  <2>3. CASE m \notin Better(n)
    BY <1>8, <2>1, <2>3
  <2> QED BY <2>2, <2>3
<1>10. \A u \in visited' : u \in DOMAIN distances \ Better(n) /\ distances'[u] = distances[u]
  BY <1>1, <1>2, <1>4, <1>8 DEF TypeOK
<1>11. ASSUME NEW s \in Stops[leg]
       PROVE  s \in DOMAIN distances' /\ distances'[s] = 0
  <2>1. s \in DOMAIN distances /\ distances[s] = 0
    BY <1>1 DEF Explored
  <2>2. s \in DOMAIN distances'
    BY <1>8, <2>1
  <2> QED BY <1>9, <2>1, <2>2
<1>12. ASSUME NEW u \in visited', NEW m \in Nodes, <<u, m>> \in DOMAIN weight
       PROVE  m \in DOMAIN distances' /\ distances'[m] <= distances'[u] + Costs[<<u, m>>]
  <2>1. CASE u = n
    <3>1. CASE m \in Better(n)
      BY <1>1, <1>5, <1>8, <1>10, <1>12, <2>1, <3>1
    <3>2. CASE m \notin Better(n)
      <4>1. m \in DOMAIN distances \ Better(n) /\ ~(Cost(m) < distances[m])
        BY <1>7, <1>12, <2>1, <3>2
      <4>2. Cost(m) = distances[n] + Costs[<<n, m>>] /\ Costs[<<n, m>>] \in Nat
        BY <1>5, <1>12, <2>1
      <4>3. distances'[m] = distances[m] /\ distances[m] \in Nat /\ m \in DOMAIN distances'
        BY <1>8, <1>9, <4>1
      <4>4. distances'[u] = distances[n]
        BY <1>10, <2>1
      <4> QED BY <1>1, <2>1, <4>1, <4>2, <4>3, <4>4
    <3> QED BY <3>1, <3>2
  <2>2. CASE u # n
    <3>1. u \in visited
      BY <1>2, <2>2
    <3>2. m \in DOMAIN distances /\ distances[m] <= distances[u] + Costs[<<u, m>>]
      BY <1>1, <1>12, <3>1 DEF Explored
    <3>3. Costs[<<u, m>>] \in Nat
      BY <1>1, <1>12, CostsAreNatural
    <3>4. m \in DOMAIN distances'
      BY <1>8, <3>2
    <3>5. distances'[m] <= distances[m] /\ distances'[m] \in Nat /\ distances[m] \in Nat
          /\ distances'[u] = distances[u] /\ distances[u] \in Nat
      BY <1>9, <1>10, <3>2
    <3> QED BY <3>2, <3>3, <3>4, <3>5
  <2> QED BY <2>1, <2>2
<1>13. ASSUME NEW m \in DOMAIN distances'
       PROVE  \E way \in Seq(Nodes) : Found(m, way)'
  <2>1. CASE m \notin Better(n)
    <3>1. m \in DOMAIN distances /\ distances'[m] = distances[m]
      BY <1>8, <2>1
    <3>2. PICK way \in Seq(Nodes) : Found(m, way)
      BY <1>1, <3>1 DEF Explored
    <3>3. Found(m, way)'
      BY <1>2, <1>3, <3>1, <3>2 DEF Found
    <3> QED BY <3>3
  <2>2. CASE m \in Better(n)
    <3>1. PICK way \in Seq(Nodes) : Found(n, way)
      BY <1>1 DEF Explored
    <3>2. /\ IsWay(way) /\ way[Len(way)] = n /\ Len(way) \in Nat /\ Len(way) >= 1
          /\ \A i \in 1 .. Len(way) - 1 : way[i] \in visited
          /\ way[1] \in Stops[leg] /\ Price(way) = distances[n]
      BY <3>1 DEF Found, IsWay
    <3>3. \A i \in 1 .. Len(way) : way[i] \in visited'
      <4>1. \A i \in 1 .. Len(way) : i = Len(way) \/ i \in 1 .. Len(way) - 1
        BY <3>2
      <4> QED BY <1>2, <3>2, <4>1
    <3>4. m \in Nodes /\ <<n, m>> \in DOMAIN weight /\ \A i \in 1 .. Len(way) : way[i] # m
      <4>1. m \notin visited'
        BY <1>2, <1>4, <2>2
      <4> QED BY <1>6, <2>2, <3>3, <4>1
    <3>5. PICK longer :
             /\ IsWay(longer) /\ Len(longer) = Len(way) + 1
             /\ longer[Len(longer)] = m
             /\ \A i \in 1 .. Len(way) : longer[i] = way[i]
             /\ Price(longer) = Price(way) + Costs[<<way[Len(way)], m>>]
      BY <1>1, <3>2, <3>4, WayGoesOn
    <3>6. longer \in Seq(Nodes) /\ longer[1] = way[1]
      BY <3>2, <3>5 DEF IsWay
    <3>7. Price(longer) = distances'[m]
      BY <1>5, <1>8, <2>2, <3>2, <3>4, <3>5
    <3>8. \A i \in 1 .. Len(longer) - 1 : longer[i] \in visited'
      <4>1. \A i \in 1 .. Len(longer) - 1 : i \in 1 .. Len(way)
        BY <3>2, <3>5
      <4> QED BY <3>3, <3>5, <4>1
    <3>9. Found(m, longer)'
      BY <1>2, <1>3, <3>2, <3>5, <3>6, <3>7, <3>8 DEF Found
    <3> QED BY <3>6, <3>9
  <2> QED BY <2>1, <2>2
<1>14. Explored'
  <2>1. Stops' = Stops /\ leg' = leg /\ Costs' = Costs /\ DOMAIN weight' = DOMAIN weight
    BY <1>2, <1>3
  <2> QED BY <1>11, <1>12, <1>13, <2>1 DEF Explored
<1>15. ASSUME NEW m \in DOMAIN distances'
       PROVE  distances'[m] = IF previous'[m] = NoNode THEN 0
                              ELSE distances'[previous'[m]] + Costs[<<previous'[m], m>>]
  <2>1. CASE m \in Better(n)
    <3>1. n # NoNode
      BY <1>1, RouteAssumption
    <3>2. distances'[n] = distances[n]
      BY <1>2, <1>10
    <3>3. Cost(m) = distances[n] + Costs[<<n, m>>]
      BY <1>5, <1>6, <2>1
    <3>4. distances'[m] = Cost(m) /\ previous'[m] = n
      BY <1>8, <2>1
    <3> QED BY <3>1, <3>2, <3>3, <3>4
  <2>2. CASE m \notin Better(n)
    <3>1. m \in DOMAIN distances /\ distances'[m] = distances[m] /\ previous'[m] = previous[m]
      BY <1>8, <2>2
    <3>2. previous[m] # NoNode => previous[m] \in visited
      BY <1>1, <3>1 DEF Links
    <3>3. previous[m] # NoNode => distances'[previous[m]] = distances[previous[m]]
      BY <1>2, <1>10, <3>2
    <3> QED BY <1>1, <3>1, <3>3 DEF Linked
  <2> QED BY <2>1, <2>2
<1>16. Linked'
  BY <1>3, <1>15 DEF Linked
<1> QED BY <1>1, <1>2, <1>14, <1>16 DEF Exact

\* A link followed back costs what its two ends differ by.
LEMMA TraceIsCheap ==
  ASSUME RouteInv, Climbing, Cheapest, NoGain, TraceBack
  PROVE  Exact'
<1>1. /\ pc = "trace" /\ pc' = "trace" /\ Tracing /\ Links /\ Linked /\ Measured
      /\ TypeOK /\ trail \in Seq(Nodes) /\ trail # << >> /\ Head(trail) = trail[1]
      /\ 1 \in DOMAIN trail
  <2>1. pc = "trace" /\ pc' = "trace"
    BY DEF TraceBack
  <2>2. Tracing /\ Links /\ TypeOK
    BY <2>1 DEF RouteInv, Phases
  <2>3. Linked /\ Measured
    BY <2>1 DEF Cheapest, Exact
  <2>4. trail \in Seq(Nodes) /\ trail # << >>
    BY <2>2 DEF Tracing, TypeOK
  <2>5. Head(trail) = trail[1] /\ 1 \in DOMAIN trail
    BY <2>4
  <2> QED BY <2>1, <2>2, <2>3, <2>4, <2>5
<1> DEFINE from == previous[trail[1]]
<1>2. /\ trail' = <<from>> \o trail /\ from # NoNode
      /\ UNCHANGED <<weight, platforms, density, leg, distances, previous, visited, failure>>
  BY <1>1 DEF TraceBack, search
<1>3. /\ trail[1] \in DOMAIN distances /\ from \in DOMAIN distances /\ from \in Nodes
      /\ <<from, trail[1]>> \in DOMAIN weight
      /\ distances[trail[1]] = distances[from] + Costs[<<from, trail[1]>>]
      /\ distances[trail[1]] \in Nat /\ distances[from] \in Nat
  <2>1. trail[1] \in DOMAIN distances
    BY <1>1 DEF Tracing
  <2>2. from \in visited /\ <<from, trail[1]>> \in DOMAIN weight
    BY <1>1, <1>2, <2>1 DEF Links
  <2>3. from \in DOMAIN distances /\ from \in Nodes
    BY <1>1, <2>2 DEF TypeOK
  <2>4. distances[trail[1]] \in Nat /\ distances[from] \in Nat
    BY <2>1, <2>3 DEF RouteInv, Natural
  <2> QED BY <1>1, <1>2, <2>1, <2>2, <2>3, <2>4 DEF Linked
<1>4. Costs[<<from, trail[1]>>] \in Nat
  BY <1>1, <1>3, CostsAreNatural
<1>5. IsInjective(trail) /\ IsInjective(trail')
  <2>1. Levelled
    BY <1>1, NoGainIsLevel
  <2>2. Levelled'
    BY <1>2, <2>1 DEF Levelled, IsLevel, CalculateEdgeCost
  <2>3. RouteInv' /\ Climbing'
    BY TraceBackStep, ClimbingStep DEF Next
  <2>4. TrailIsSimple'
    BY <2>3, ClimbingIsSimple, PTL
  <2>5. IsInjective(trail)
    BY <2>1, ClimbingIsSimple DEF TrailIsSimple
  <2>6. IsInjective(trail')
    BY <2>2, <2>4 DEF TrailIsSimple
  <2> QED BY <2>5, <2>6
<1>6. IsWay(trail)
  BY <1>1, <1>5 DEF IsWay, Tracing
<1> HIDE DEF from
<1>7. Price(trail') = Price(trail) + Costs[<<from, trail[1]>>]
  BY <1>1, <1>2, <1>3, <1>5, <1>6, WayStartsEarlier
<1>8. Price(trail) \in Nat
  <2>1. Ridden(trail) \in SUBSET DOMAIN weight
    BY <1>6 DEF IsWay, IsOnRails, Ridden
  <2> QED BY <1>1, <2>1, CostsAreNatural, TollGrows DEF Price
<1>9. /\ Costs' = Costs /\ Laid' /\ Stops' = Stops /\ Legs' = Legs
      /\ \A way : Price(way)' = Price(way)
  BY <1>2, SamePrices, SameWays DEF Cheapest
<1>10. Price(trail)' = Price(trail')
  BY <1>9 DEF Price, Toll, Units, Ridden
<1>11. trail'[1] = from /\ trail'[Len(trail')] = trail[Len(trail)]
  BY <1>1, <1>2, <1>3
<1>12. Measured'
  BY <1>1, <1>2, <1>3, <1>4, <1>7, <1>8, <1>9, <1>10, <1>11 DEF Measured
<1>13. Linked'
  BY <1>1, <1>2, <1>9 DEF Linked
<1> QED BY <1>1, <1>12, <1>13 DEF Exact

\* An empty heap leaves no way, and a cap that is exceeded nodes that are near.
LEMMA FailIsCheap ==
  ASSUME RouteInv, Cheapest,
         NoPath \/ \E c \in openSet : ExceedCap(c)
  PROVE  Excused'
<1>1. /\ pc = "search" /\ TypeOK
      /\ UNCHANGED <<weight, platforms, density, leg>>
      /\ failure' \in {"no-path", "visit-cap-exceeded"}
      /\ failure' = "no-path" => openSet = {}
  BY DEF NoPath, ExceedCap, Pops, Fails, RouteInv
<1>2. /\ Costs' = Costs /\ Laid' /\ Stops' = Stops /\ Legs' = Legs
      /\ \A way : Price(way)' = Price(way)
      /\ \A n : Ways(Stops[leg], {n})' = Ways(Stops[leg], {n})
  BY <1>1, SamePrices, SameWays DEF Cheapest
<1>3. failure' = "no-path" => Legs' = {}
  BY <1>1, <1>2, EmptyHeap
<1>4. ASSUME failure' = "visit-cap-exceeded", NoGain PROVE Cardinality(Nearer') > MaxVisits
  <2>1. PICK c \in openSet : ExceedCap(c)
    BY <1>4 DEF NoPath, Fails
  <2>8. Explored /\ \A n \in DOMAIN distances : distances[n] \in Nat
    BY <1>1, <1>4 DEF Cheapest, Exact, RouteInv, Natural
  <2> DEFINE near == visited \cup {c.id}
  <2>2. /\ c.id \in DOMAIN distances \ visited /\ distances[c.id] \in Nat
        /\ \A v \in DOMAIN distances \ visited : distances[c.id] <= distances[v]
        /\ \A u \in visited : distances[u] <= distances[c.id]
        /\ Cardinality(visited) + 1 > MaxVisits
    BY <1>4, <2>8, <2>1, Nearest DEF ExceedCap, OverCap
  <2>3. near \in SUBSET Nodes /\ near \in SUBSET DOMAIN distances
    BY <1>1, <2>2 DEF TypeOK
  <2>4. ASSUME NEW way, IsWay(way) PROVE Price(way) \in Nat
    <3>1. Ridden(way) \in SUBSET DOMAIN weight
      BY <2>4 DEF IsWay, IsOnRails, Ridden
    <3> QED BY <1>1, <1>4, <3>1, CostsAreNatural, TollGrows DEF Price
  <2>5. ASSUME NEW n \in near PROVE n \in Nearer
    <3>1. PICK way \in Seq(Nodes) : Found(n, way)
      BY <2>8, <2>3 DEF Explored
    <3>2. way \in Ways(Stops[leg], {n}) /\ Price(way) = distances[n]
      BY <3>1, WaysAre DEF Found, Cheapest
    <3>3. ASSUME NEW other \in Legs PROVE Price(way) <= Price(other)
      <4>1. PICK v \in DOMAIN distances \ visited : distances[v] <= Price(other)
        BY <1>1, <1>4, UnvisitedOnTheWay
      <4>2. Price(other) \in Nat
        BY <2>4, LegsAre DEF Cheapest
      <4>3. distances[n] \in Nat /\ distances[v] \in Nat /\ distances[c.id] <= distances[v]
            /\ distances[n] <= distances[c.id]
        BY <2>8, <2>2, <2>3
      <4> QED BY <2>2, <3>2, <4>1, <4>2, <4>3
    <3> QED BY <2>3, <3>2, <3>3 DEF Nearer
  <2>6. Cardinality(Nearer) > MaxVisits
    <3>1. Nearer \in SUBSET Nodes /\ IsFiniteSet(Nodes)
      BY RouteAssumption DEF Nearer
    <3>2. IsFiniteSet(Nearer) /\ Cardinality(Nearer) \in Nat
      BY <3>1, FS_Subset, FS_CardinalityType
    <3>3. near \in SUBSET Nearer
      BY <2>5
    <3>4. IsFiniteSet(visited)
      BY <2>3, <3>1, FS_Subset
    <3>5. Cardinality(near) = Cardinality(visited) + 1
      BY <2>2, <3>4, FS_AddElement
    <3> HIDE DEF near
    <3>6. Cardinality(near) <= Cardinality(Nearer)
      BY <3>2, <3>3, FS_Subset
    <3>7. Cardinality(visited) \in Nat /\ MaxVisits \in Nat
      BY <3>4, FS_CardinalityType, RouteAssumption
    <3> QED BY <2>2, <3>2, <3>5, <3>6, <3>7
  <2>7. Nearer' = Nearer
    BY <1>2 DEF Nearer
  <2> QED BY <2>6, <2>7
<1>5. NoGain' = NoGain
  BY <1>1, SameGain
<1> QED BY <1>3, <1>4, <1>5 DEF Excused

\* What is visited has been expanded and is not the stop.
LEMMA CoveredStep ==
  ASSUME RouteInv, Cheapest, [Next]_routeVars, pc' = "search"
  PROVE  Covered'
<1>1. CASE StartLeg
  <2>1. Stops' = Stops
    BY <1>1, SameStops DEF StartLeg
  <2> QED BY <1>1, <2>1 DEF StartLeg, Covered
<1>2. ASSUME NEW c \in openSet, Expand(c) PROVE Covered'
  <2> DEFINE n == c.id
  <2>1. /\ Covered /\ TypeOK /\ Stops' = Stops /\ c.id \in Nodes
        /\ UNCHANGED <<weight, leg>>
    <3>1. pc = "search" /\ UNCHANGED <<weight, platforms, leg>>
      BY <1>2 DEF Expand, Pops
    <3> QED BY <3>1, SameStops DEF Cheapest, RouteInv, TypeOK
  <2>2. /\ visited' = visited \cup {n} /\ n \notin Stops[leg + 1]
        /\ DOMAIN distances' = DOMAIN distances \cup Better(n)
    BY <1>2 DEF Expand
  <2>3. \A m \in Nodes : <<n, m>> \in DOMAIN weight =>
          m \in DOMAIN distances \/ m \in Better(n)
    BY DEF Better, Adjacent
  <2> HIDE DEF n
  <2> QED BY <2>1, <2>2, <2>3 DEF Covered
<1>3. CASE UNCHANGED routeVars \/ \E c \in openSet : SkipCandidate(c)
  <2>1. UNCHANGED <<weight, platforms, leg, pc, distances, visited>>
    BY <1>3 DEF SkipCandidate, routeVars, search
  <2>2. Stops' = Stops
    BY <2>1, SameStops
  <2> QED BY <2>1, <2>2 DEF Covered, Cheapest
<1>4. pc' # "search" \/ StartLeg \/ UNCHANGED routeVars
      \/ \E c \in openSet : Expand(c) \/ SkipCandidate(c)
  <2>1. CASE TraceBack \/ Exhaust \/ EndLeg \/ EndRoute \/ NoPath
             \/ \E c \in openSet : ExceedCap(c) \/ ReachTarget(c)
    BY <2>1 DEF TraceBack, Exhaust, EndLeg, EndRoute, NoPath, ExceedCap, ReachTarget, Fails
  <2> QED BY <2>1 DEF Next, Done
<1> QED BY <1>1, <1>2, <1>3, <1>4

\* Every step of the finder keeps the search's promise.
LEMMA CheapestStep ==
  ASSUME RouteInv, Climbing, Cheapest, [Next]_routeVars
  PROVE  Cheapest'
<1>1. pc' = "search" => Covered'
  BY CoveredStep
<1>2. CASE StartLeg
  <2>1. /\ pc' = "search" /\ failure' = "none" /\ weight' = weight
    BY <1>2 DEF StartLeg, Cheapest
  <2> QED BY <1>1, <1>2, <2>1, StartIsCheap DEF Cheapest, Laid, Excused
<1>3. CASE TraceBack \/ \E c \in openSet : ReachTarget(c) \/ Expand(c)
  <2>1. /\ UNCHANGED <<weight, density, failure>> /\ pc # "done"
    BY <1>3 DEF TraceBack, ReachTarget, Expand, Pops
  <2>2. NoGain' = NoGain
    BY <2>1, SameGain
  <2>3. NoGain => Exact'
    BY <1>3, TraceIsCheap, ReachIsCheap, ExpandIsCheap
  <2> QED BY <1>1, <2>1, <2>2, <2>3 DEF Cheapest, Laid, Excused
<1>4. CASE NoPath \/ \E c \in openSet : ExceedCap(c)
  <2>1. pc' = "done" /\ weight' = weight
    BY <1>4 DEF NoPath, ExceedCap, Fails
  <2> QED BY <1>4, <2>1, FailIsCheap DEF Cheapest, Laid, Exact
<1>5. CASE EndLeg \/ EndRoute \/ Exhaust
  <2>1. /\ pc' \notin {"search", "trace"} /\ failure' = failure /\ weight' = weight
        /\ pc # "done"
    BY <1>5 DEF EndLeg, EndRoute, Exhaust, Traced
  <2> QED BY <2>1 DEF Cheapest, Laid, Excused, Exact
<1>6. CASE UNCHANGED routeVars \/ \E c \in openSet : SkipCandidate(c)
  <2>1. UNCHANGED <<weight, platforms, density, leg, pc, distances, previous, visited,
                    trail, failure>>
    BY <1>6 DEF SkipCandidate, routeVars, search
  <2>2. /\ Costs' = Costs /\ Laid' = Laid /\ Stops' = Stops /\ Legs' = Legs
        /\ NoGain' = NoGain
        /\ \A way : Price(way)' = Price(way) /\ IsWay(way)' = IsWay(way)
        /\ \A n : Ways(Stops[leg], {n})' = Ways(Stops[leg], {n})
    BY <2>1, SamePrices, SameWays, SameGain
  <2>3. Price(trail)' = Price(trail)
    BY <2>1, <2>2 DEF Price, Toll, Units, Ridden
  <2>4. \A n, way : Found(n, way)' = Found(n, way)
    BY <2>1, <2>2 DEF Found
  <2>5. Explored' = Explored
    BY <2>1, <2>2, <2>4 DEF Explored
  <2>6. Linked' = Linked /\ Measured' = Measured
    BY <2>1, <2>2, <2>3 DEF Linked, Measured
  <2>7. Excused' = Excused
    BY <2>1, <2>2 DEF Excused, Nearer
  <2>8. Exact' = Exact
    BY <2>1, <2>5, <2>6 DEF Exact
  <2> QED BY <1>1, <2>1, <2>2, <2>7, <2>8 DEF Cheapest
<1> QED BY <1>2, <1>3, <1>4, <1>5, <1>6 DEF Next, Done

\* The price of a way is what the property CostOf says.
LEMMA CostIsPrice ==
  ASSUME TypeOK, NoGain, NEW way, IsWay(way)
  PROVE  CostOf(way) = Price(way)
<1>1. Ridden(way) \in SUBSET DOMAIN weight
  BY DEF IsWay, IsOnRails, Ridden
<1> QED BY <1>1, TollIsSum DEF CostOf, Price

\* The search has expanded what it visited, and its links are cheapest ways where
\* no ride costs less than nothing (findPathBetween).
THEOREM SearchInvariant == Spec => [](RouteInv /\ Climbing /\ Cheapest)
<1>1. Init => Cheapest
  <2>1. ASSUME Init PROVE Laid
    BY <2>1 DEF Init, Connections, Laid
  <2> QED BY <2>1 DEF Init, Cheapest, Excused, Exact
<1>2. RouteInv /\ Climbing /\ Cheapest /\ [Next]_routeVars => Cheapest'
  BY CheapestStep
<1> QED BY <1>1, <1>2, ClimbingInvariant, PTL DEF Spec

\* What findRoute adds for a leg is a way over the rails to the next stop, and
\* where no ride costs less than nothing no way is cheaper.
THEOREM LegsAreCheapest == Spec => []LegIsCheapest
<1>1. ASSUME RouteInv, Cheapest, Traced
      PROVE  trail \in Legs /\ (NoGain => \A way \in Legs : CostOf(trail) <= CostOf(way))
  <2>1. /\ pc = "trace" /\ Tracing /\ Links /\ Laid /\ TypeOK
        /\ trail \in Seq(Nodes) /\ trail # << >> /\ previous[trail[1]] = NoNode
        /\ trail[1] \in DOMAIN distances
    <3>1. pc = "trace" /\ Tracing /\ Links /\ Laid /\ TypeOK
      BY <1>1 DEF Traced, RouteInv, Phases, Cheapest
    <3>2. trail \in Seq(Nodes) /\ trail # << >> /\ trail[1] \in DOMAIN distances
      BY <3>1, TrailBegins DEF Tracing, TypeOK
    <3> QED BY <1>1, <3>1, <3>2 DEF Traced
  <2>2. trail[1] \in Stops[leg]
    BY <2>1, RouteAssumption DEF Links, TypeOK
  <2>3. IsInjective(trail)
    BY <2>1, TracedIsSimple
  <2>4. IsWay(trail) /\ trail \in Legs
    BY <2>1, <2>2, <2>3, LegsAre DEF IsWay, Tracing
  <2>5. ASSUME NoGain, NEW way \in Legs PROVE CostOf(trail) <= CostOf(way)
    <3>1. Linked /\ Measured
      BY <1>1, <2>1, <2>5 DEF Cheapest, Exact
    <3>2. distances[trail[1]] = 0
      BY <2>1, <3>1 DEF Linked
    <3>3. Price(trail) \in Nat
      <4>1. Ridden(trail) \in SUBSET DOMAIN weight
        BY <2>4 DEF IsWay, IsOnRails, Ridden
      <4> QED BY <2>1, <2>5, <4>1, CostsAreNatural, TollGrows DEF Price
    <3>4. Price(trail) <= Price(way)
      BY <3>1, <3>2, <3>3 DEF Measured
    <3> QED BY <2>1, <2>4, <2>5, <3>4, LegsAre, CostIsPrice
  <2> QED BY <2>4, <2>5
<1>2. RouteInv /\ Climbing /\ Cheapest => LegIsCheapest
  BY <1>1 DEF LegIsCheapest
<1> QED BY <1>2, SearchInvariant, PTL

\* findPathBetween finds no path only when no rails join the stops; where no ride
\* costs less than nothing, it meets the cap only when more nodes than that are no
\* farther than the next stop.
THEOREM FailuresAreTrue == Spec => []FailureIsTrue
<1>1. ASSUME RouteInv, Cheapest PROVE FailureIsTrue
  <2>1. ASSUME NoGain PROVE AsNear = Nearer
    <3>1. \A way \in Legs : CostOf(way) = Price(way)
      BY <1>1, <2>1, LegsAre, CostIsPrice DEF Cheapest, RouteInv
    <3>2. ASSUME NEW n \in Nodes, NEW way \in Ways(Stops[leg], {n})
          PROVE  CostOf(way) = Price(way)
      BY <1>1, <2>1, WaysAre, CostIsPrice DEF Cheapest, RouteInv
    <3> QED BY <3>1, <3>2 DEF AsNear, Nearer
  <2> QED BY <1>1, <2>1 DEF Cheapest, Excused, FailureIsTrue
<1>2. RouteInv /\ Climbing /\ Cheapest => FailureIsTrue
  BY <1>1
<1> QED BY <1>2, SearchInvariant, PTL
=============================================================================

------------------------------- MODULE Routes -------------------------------
(***************************************************************************)
(* The order in which to visit a selection (routing/service.py,            *)
(* api/routing.py): the trick of the ghost node over a solver that is not  *)
(* of the repository and is taken here at its best, as one that answers    *)
(* with a cycle of least cost by its own accounts.  Two attempts stand for  *)
(* the four.                                                               *)
(***************************************************************************)
EXTENDS Crews

CONSTANTS
  StartsAt,     \* explicit points to start from
  MIN_STOPS, MAX_STOPS

ASSUME RoutesGiven ==
  MIN_STOPS \in Nat \ {0} /\ MAX_STOPS \in Nat /\ StartsAt \subseteq Int

VARIABLE route   \* the last answer, until it is read

Ghost == NoPlace
NoStart == NoPlace
NoRoute == [stops |-> <<>>]

Distance(a, b) == IF a < b THEN b - a ELSE a - b

\* `_path_distance_m`
Path(points) == SumOf([i \in 1 .. Len(points) - 1 |-> Distance(points[i], points[i + 1])])
From(start, points) == IF start = NoStart THEN points ELSE <<start>> \o points

-----------------------------------------------------------------------------
(* `_solve` *)

\* Mutant: the ghost is a point like any other, at the origin.
with_an_origin(a, b) == Distance(IF a = Ghost THEN 0 ELSE a, IF b = Ghost THEN 0 ELSE b)

\* The ghost is at no distance from anything.
distance_callback(a, b) == IF a = Ghost \/ b = Ghost THEN 0 ELSE Distance(a, b)

Permuted(n) == {s \in [1 .. n -> 1 .. n] : IsInjective(s)}

\* Where each step of a cycle is: the depot first, which is the start or the
\* ghost, and the ghost anywhere among the stops when it is not the depot.
Cycles(points, start) ==
  LET n == Len(points)
  IN IF start = NoStart
     THEN {[visits |-> s, places |-> <<Ghost>> \o [i \in 1 .. n |-> points[s[i]]]] : s \in Permuted(n)}
     ELSE {[visits |-> s,
            places |-> <<start>> \o InsertAt([i \in 1 .. n |-> points[s[i]]], k, Ghost)] :
              s \in Permuted(n), k \in 1 .. n + 1}

Cost(places) ==
  SumOf([i \in DOMAIN places |-> distance_callback(places[i], places[(i % Len(places)) + 1])])

\* What an attempt may answer.
attempt(points, start) ==
  LET cycles == Cycles(points, start)
      least == Min({Cost(c.places) : c \in cycles})
  IN {c.visits : c \in {c \in cycles : Cost(c.places) = least}}

\* The attempt that is really the shortest.
_solve(attempts, points, start) ==
  LET real(s) == Path(From(start, [i \in DOMAIN s |-> points[s[i]]]))
  IN CHOOSE s \in attempts : \A other \in attempts : real(s) <= real(other)

-----------------------------------------------------------------------------
(* The request *)

\* `device_position`: the last one, however old.
StartPoints == {NoStart} \cup StartsAt \cup {fixes[p].place : p \in {p \in CrewPhones : fixes[p] # NoPlace}}

RoutesInit == CrewsInit /\ route = NoRoute

\* `suggest_route`: none that is not seen, none without a place.
SuggestRoute(asked, start) ==
  /\ Len(asked) \in MIN_STOPS .. MAX_STOPS
  /\ {who \in Planners : \A o \in ToSet(asked) : work_order_scope(who, o)} # {}
  /\ \A o \in ToSet(asked) : TaskOf[o].place # NoPlace
  /\ LET points == [i \in DOMAIN asked |-> TaskOf[asked[i]].place]
         attempts == attempt(points, start)
     IN \E first, second \in attempts :
          LET s == _solve({first, second}, points, start)
              visited == [i \in DOMAIN s |-> points[s[i]]]
              before == From(start, visited)
          IN route' = [asked |-> asked, start |-> start,
               stops |-> [i \in DOMAIN s |->
                 [order |-> asked[s[i]],
                  leg |-> IF start = NoStart
                          THEN (IF i = 1 THEN 0 ELSE Distance(visited[i - 1], visited[i]))
                          ELSE Distance(before[i], visited[i])]],
               naive |-> Path(From(start, points))]
  /\ UNCHANGED crvars

Travelled == route' = NoRoute /\ UNCHANGED crvars

RoutesNext ==
  \/ /\ route = NoRoute
     /\ \/ \E n \in MIN_STOPS .. MAX_STOPS :
             \E asked \in [1 .. n -> Tasks], start \in StartPoints : SuggestRoute(asked, start)
        \/ \E p \in CrewPhones : ReportPlace(p) /\ UNCHANGED route
  \/ route # NoRoute /\ Travelled
RoutesSpec == RoutesInit /\ [][RoutesNext]_<<crvars, route>>

-----------------------------------------------------------------------------
(* Properties *)

total_distance == SumOf([i \in DOMAIN route.stops |-> route.stops[i].leg])
PlaceOf(stop) == TaskOf[stop.order].place

\* A route goes once to every order asked for and to no other, and its length is
\* that of going from the start through its stops; with both ends free, no other
\* order of the same stops is shorter, the one they were asked in among them.
RouteIsShortest ==
  route # NoRoute =>
    LET places == [i \in DOMAIN route.stops |-> PlaceOf(route.stops[i])] IN
    /\ \A o \in ToSet(route.asked) :
         Cardinality({i \in DOMAIN route.stops : route.stops[i].order = o})
           = Cardinality({i \in DOMAIN route.asked : route.asked[i] = o})
    /\ Len(route.stops) = Len(route.asked)
    /\ total_distance = Path(From(route.start, places))
    /\ route.start = NoStart =>
         \A s \in Permuted(Len(places)) : total_distance <= Path([i \in DOMAIN s |-> places[s[i]]])

(* What the documents say and the code does not keep *)

\* "Closing the cycle is free wherever it is", so that one depot serves both forms
\* of the problem: with a fixed start the ghost may stand between two stops, the
\* solver counts two ways out of the start and the crew walks from the end of one
\* to the beginning of the other.  However many attempts are compared, the route
\* may then be longer than the order in which its stops were asked for.
FixedStartIsShortest ==
  \A asked \in [1 .. MAX_STOPS -> Tasks], start \in StartsAt :
    (\A i \in DOMAIN asked : TaskOf[asked[i]].place # NoPlace) =>
      LET points == [i \in DOMAIN asked |-> TaskOf[asked[i]].place]
          s == _solve(attempt(points, start), points, start)
      IN Path(<<start>> \o [i \in DOMAIN s |-> points[s[i]]]) <= Path(<<start>> \o points)
=============================================================================

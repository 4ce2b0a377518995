--------------------------- MODULE AdaptiveSampling ---------------------------
(***************************************************************************)
(* The adaptive sampling of a one-parameter flow for a reduced-order model *)
(* (testing/pod_adaptive_sampling.cpp with reduced_order's POD basis,      *)
(* nearest neighbours and test locations).                                 *)
(*                                                                         *)
(* Full-order solutions at the sampled parameters, the snapshots, span the *)
(* POD basis.  Reduced-order solutions at test locations between them tell *)
(* where the basis is poor: the error of each is interpolated, a snapshot  *)
(* is added where the interpolant is largest, the basis is computed again  *)
(* and the errors are corrected for the new basis.                         *)
(*                                                                         *)
(* Parameters are points of 0 .. LastPoint; an error is named by the basis *)
(* it estimates the distance to, and its size is left open, so that the    *)
(* largest one may be anywhere and an outlier may be any location.  Two    *)
(* parameters that are approximately equal are equal.                      *)
(***************************************************************************)
EXTENDS Integers, Sequences, SequencesExt, FiniteSetsExt

CONSTANTS
  LastPoint,        \* the largest parameter; a power of two
  HaltonNumbers,    \* the numbers of Halton points a user may ask for
  SamplePoints,     \* bound: where the interpolant may have its maximum
  MaxSnapshots,     \* bound: of how many snapshots the sampling stops
  None

ASSUME SamplingAssumption ==
  /\ LastPoint \in Nat \ {0} /\ LastPoint % 4 = 0
  /\ HaltonNumbers \subseteq 0 .. 2
  /\ SamplePoints \subseteq 0 .. LastPoint /\ \A p \in SamplePoints : p % 2 = 0

VARIABLES
  num_halton,           \* the Halton points of the initial snapshots
  pc,
  snapshot_parameters,  \* the sampled parameters, in order
  nearest_neighbors,    \* the parameters of its table and of its solutions
  snapshotMatrix,       \* the parameters of its columns
  basis,                \* the columns the basis was last computed from
  rom_locations,        \* the test locations, in order
  rom_points,           \* the points where locations are still to be placed
  max_error_params,     \* where the interpolated error was largest
  index                 \* the location the recomputation loop is at

vars == <<num_halton, pc, snapshot_parameters, nearest_neighbors, snapshotMatrix, basis,
          rom_locations, rom_points, max_error_params, index>>

Snapshots == ToSet(snapshot_parameters)
Locations == {rom_locations[i].parameter : i \in DOMAIN rom_locations}

\* A location whose reduced-order solution is of the current basis.
NewLocation(p) == [parameter |-> p, rom_basis |-> basis, error_basis |-> basis]

\* configureInitialParameterSpace: both ends, the center, and the Halton sequence
\* from its third point on.
InitialParameters(n) ==
  <<0, LastPoint, LastPoint \div 2>>
    \o SubSeq(<<LastPoint \div 4, 3 * (LastPoint \div 4)>>, 1, n)

(***************************************************************************)
(* NearestNeighbors.  The sort leaves the order of equal distances open.   *)
(***************************************************************************)
Distance(p, q) == IF p < q THEN q - p ELSE p - q
\* Fault: the sum of the two is not halved.
SumOfPoints(p, q) == p + q

Midpoint(p, q) == (p + q) \div 2

\* The "parameters + 1" nearest of the points other than p itself.
Nearest(p, points) ==
  {near \in kSubset(2, points \ {p}) :
     \A q \in near, r \in points \ (near \cup {p}) : Distance(p, q) <= Distance(p, r)}

kPairwiseNearestNeighborsMidpoint ==
  LET points == ToSet(nearest_neighbors.snapshot_params)
  IN  {UNION {{Midpoint(p, q) : q \in near[p]} : p \in points} :
         near \in {f \in [points -> kSubset(2, points)] :
                     \A p \in points : f[p] \in Nearest(p, points)}}

kNearestNeighborsMidpoint(p) ==
  {{Midpoint(p, q) : q \in near} :
     near \in Nearest(p, ToSet(nearest_neighbors.snapshot_params))}

Init ==
  /\ num_halton \in HaltonNumbers
  /\ pc = "snapshots"
  /\ snapshot_parameters = InitialParameters(num_halton)
  /\ nearest_neighbors = [snapshot_params |-> << >>, snapshots |-> << >>]
  /\ snapshotMatrix = << >>
  /\ basis = << >>
  /\ rom_locations = << >>
  /\ rom_points = {}
  /\ max_error_params = None
  /\ index = 0

updateSnapshots(parameters, fom_solution) ==
  nearest_neighbors' =
    [snapshot_params |-> parameters,
     snapshots |-> Append(nearest_neighbors.snapshots, fom_solution)]

\* placeInitialSnapshots, one of them: updateSnapshots is given the parameters
\* of them all.
PlaceSnapshot ==
  /\ pc = "snapshots"
  /\ Len(snapshotMatrix) < Len(snapshot_parameters)
  /\ LET fom_solution == snapshot_parameters[Len(snapshotMatrix) + 1]
     IN  /\ updateSnapshots(snapshot_parameters, fom_solution)
         /\ snapshotMatrix' = Append(snapshotMatrix, fom_solution)
  /\ UNCHANGED <<num_halton, pc, snapshot_parameters, basis, rom_locations, rom_points,
                 max_error_params, index>>

FirstLocations ==
  /\ pc = "snapshots"
  /\ Len(snapshotMatrix) = Len(snapshot_parameters)
  /\ basis' = snapshotMatrix
  /\ rom_points' \in kPairwiseNearestNeighborsMidpoint
  /\ pc' = "place"
  /\ UNCHANGED <<num_halton, snapshot_parameters, nearest_neighbors, snapshotMatrix,
                 rom_locations, max_error_params, index>>

AlreadyComputed(p) == p \in Locations \/ p \in Snapshots

\* placeROMLocations, one point.
PlaceROMLocation ==
  /\ pc = "place"
  /\ \E p \in rom_points :
       /\ rom_points' = rom_points \ {p}
       /\ rom_locations' = IF AlreadyComputed(p) THEN rom_locations
                           ELSE Append(rom_locations, NewLocation(p))
  /\ UNCHANGED <<num_halton, pc, snapshot_parameters, nearest_neighbors, snapshotMatrix,
                 basis, max_error_params, index>>

\* Fault: the location where the error is largest stays a location.
KeptLocations(p) == {rom_locations}

\* The first location where the error is largest is erased, if there is one.
RemainingLocations(p) ==
  IF p \notin Locations THEN {rom_locations}
  ELSE {RemoveAt(rom_locations, i) :
          i \in {j \in DOMAIN rom_locations :
                   /\ rom_locations[j].parameter = p
                   /\ \A k \in 1 .. j - 1 : rom_locations[k].parameter # p}}

\* getMaxErrorROM: the interpolant is zero at the snapshots.  The location is
\* removed whether or not the error is above the tolerance.
GetMaxErrorROM ==
  /\ pc = "place" /\ rom_points = {}
  /\ \E p \in SamplePoints \ Snapshots :
       /\ max_error_params' = p
       /\ rom_locations' \in RemainingLocations(p)
  /\ pc' \in IF rom_locations = << >> THEN {"done"} ELSE {"sample", "done"}
  /\ UNCHANGED <<num_halton, snapshot_parameters, nearest_neighbors, snapshotMatrix, basis,
                 rom_points, index>>

computeBasis == snapshotMatrix'

\* The snapshot at the largest error, and the basis with it.
SampleSnapshot ==
  /\ pc = "sample"
  /\ Len(snapshot_parameters) < MaxSnapshots
  /\ snapshot_parameters' = Append(snapshot_parameters, max_error_params)
  /\ updateSnapshots(snapshot_parameters', max_error_params)
  /\ snapshotMatrix' = Append(snapshotMatrix, max_error_params)
  /\ basis' = computeBasis
  /\ pc' = "update"
  /\ UNCHANGED <<num_halton, rom_locations, rom_points, max_error_params, index>>

\* Fault: only the last location is given an error for the new basis.
UpdateLastError ==
  /\ pc = "update"
  /\ rom_locations' =
       [i \in DOMAIN rom_locations |->
          IF i < Len(rom_locations) THEN rom_locations[i]
          ELSE [rom_locations[i] EXCEPT !.error_basis = basis]]
  /\ index' = 1
  /\ pc' = "recompute"
  /\ UNCHANGED <<num_halton, snapshot_parameters, nearest_neighbors, snapshotMatrix, basis,
                 rom_points, max_error_params>>

\* compute_initial_rom_to_final_rom_error and compute_total_error
UpdateErrors ==
  /\ pc = "update"
  /\ rom_locations' = [i \in DOMAIN rom_locations |->
                         [rom_locations[i] EXCEPT !.error_basis = basis]]
  /\ index' = 1
  /\ pc' = "recompute"
  /\ UNCHANGED <<num_halton, snapshot_parameters, nearest_neighbors, snapshotMatrix, basis,
                 rom_points, max_error_params>>

\* updateNearestExistingROMs, one location, whose error is compared with those
\* of the two nearest locations: it may be an outlier.
RecomputeOutlier ==
  /\ pc = "recompute"
  /\ index <= Len(rom_locations) /\ Len(rom_locations) > 2
  /\ \/ UNCHANGED rom_locations
     \/ rom_locations' = [rom_locations EXCEPT ![index] = NewLocation(@.parameter)]
  /\ index' = index + 1
  /\ UNCHANGED <<num_halton, pc, snapshot_parameters, nearest_neighbors, snapshotMatrix,
                 basis, rom_points, max_error_params>>

\* There are no two other locations: the errors read are beyond the end of the
\* list, or the scaling of one point divides by zero and aborts.
TooFewLocations ==
  /\ pc = "recompute"
  /\ Len(rom_locations) \in 1 .. 2
  /\ pc' = IF Len(rom_locations) = 1 THEN "aborted" ELSE "undefined"
  /\ UNCHANGED <<num_halton, snapshot_parameters, nearest_neighbors, snapshotMatrix, basis,
                 rom_locations, rom_points, max_error_params, index>>

NewLocations ==
  /\ pc = "recompute"
  /\ index > Len(rom_locations)
  /\ rom_points' \in kNearestNeighborsMidpoint(max_error_params)
  /\ pc' = "place"
  /\ UNCHANGED <<num_halton, snapshot_parameters, nearest_neighbors, snapshotMatrix, basis,
                 rom_locations, max_error_params, index>>

Next ==
  \/ PlaceSnapshot \/ FirstLocations \/ PlaceROMLocation \/ GetMaxErrorROM
  \/ SampleSnapshot \/ UpdateErrors \/ RecomputeOutlier \/ TooFewLocations
  \/ NewLocations

Spec == Init /\ [][Next]_vars

-----------------------------------------------------------------------------
(* Properties.                                                             *)

Points == 0 .. LastPoint

\* The values of the variables.
TypeOK ==
  /\ num_halton \in HaltonNumbers
  /\ pc \in {"snapshots", "place", "sample", "update", "recompute", "done",
             "aborted", "undefined"}
  /\ snapshot_parameters \in Seq(Points)
  /\ nearest_neighbors \in [snapshot_params: Seq(Points), snapshots: Seq(Points)]
  /\ snapshotMatrix \in Seq(Points) /\ basis \in Seq(Points)
  /\ rom_locations \in
       Seq([parameter: Points, rom_basis: Seq(Points), error_basis: Seq(Points)])
  /\ rom_points \subseteq Points
  /\ max_error_params \in Points \cup {None}
  /\ index \in Nat

\* The errors that are interpolated together are all estimates of the distance
\* to the same basis, that of all the snapshots.
ErrorsOfCurrentBasis ==
  pc \in {"place", "recompute"} =>
    /\ basis = snapshot_parameters
    /\ \A i \in DOMAIN rom_locations : rom_locations[i].error_basis = basis

\* The points that are interpolated are distinct: no two locations have the same
\* parameter, no snapshot has that of a location, and none is sampled twice.
PointsAreDistinct ==
  pc \in {"place", "recompute"} =>
    /\ \A i, j \in DOMAIN rom_locations :
         rom_locations[i].parameter = rom_locations[j].parameter => i = j
    /\ Locations \cap Snapshots = {}
    /\ Cardinality(Snapshots) = Len(snapshot_parameters)

\* The errors that the recomputation compares a location with exist.
NeighborsExist == pc \notin {"undefined", "aborted"}
=============================================================================

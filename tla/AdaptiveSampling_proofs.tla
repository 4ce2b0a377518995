------------------------ MODULE AdaptiveSampling_proofs ------------------------
(***************************************************************************)
(* The adaptive sampling, for any number of parameters, any points where   *)
(* the interpolant can be largest and any number of snapshots: its types,  *)
(* that the errors interpolated together are of one basis, and that the    *)
(* interpolated points are distinct.                                       *)
(*                                                                         *)
(* The invariant relates the lists that are kept beside each other: the    *)
(* columns of the snapshot matrix are the sampled parameters placed so     *)
(* far, the neighbour table and the basis are of all of them after the     *)
(* first location, and the point about to be sampled is neither a snapshot *)
(* nor, since getMaxErrorROM has erased it, a location.                    *)
(***************************************************************************)
EXTENDS AdaptiveSampling, SequenceTheorems, FiniteSetTheorems, TLAPS

Location ==
  [parameter: Points, rom_basis: Seq(Points), error_basis: Seq(Points)]

Placing ==
  pc = "snapshots" =>
    /\ rom_locations = << >> /\ rom_points = {}
    /\ Len(snapshotMatrix) <= Len(snapshot_parameters)
    /\ \A i \in 1 .. Len(snapshotMatrix) :
         snapshotMatrix[i] = snapshot_parameters[i]
    /\ \/ snapshotMatrix = << >>
       \/ nearest_neighbors.snapshot_params = snapshot_parameters

Placed ==
  pc # "snapshots" =>
    /\ snapshotMatrix = snapshot_parameters /\ basis = snapshot_parameters
    /\ nearest_neighbors.snapshot_params = snapshot_parameters

Sampling ==
  /\ pc = "sample" => max_error_params \notin Snapshots \cup Locations
  /\ pc \in {"sample", "update", "recompute"} => max_error_params \in Points
  /\ pc = "recompute" => index >= 1

Distinct ==
  /\ \A i, j \in DOMAIN rom_locations :
       rom_locations[i].parameter = rom_locations[j].parameter => i = j
  /\ Locations \cap Snapshots = {}

Counted ==
  /\ IsFiniteSet(Snapshots)
  /\ Cardinality(Snapshots) = Len(snapshot_parameters)
  /\ Len(snapshot_parameters) >= 3

ErrorsKept ==
  pc \in {"place", "recompute"} =>
    \A i \in DOMAIN rom_locations : rom_locations[i].error_basis = basis

Inv ==
  /\ TypeOK /\ Placing /\ Placed /\ Sampling /\ Distinct /\ Counted /\ ErrorsKept

(***************************************************************************)
(* Sequences and points.                                                   *)
(***************************************************************************)
\* The elements of a sequence are in the set that it is a sequence of.
LEMMA ElementsIn ==
  ASSUME NEW S, NEW s \in Seq(S)
  PROVE  /\ ToSet(s) \subseteq S
         /\ DOMAIN s = 1 .. Len(s) /\ Len(s) \in Nat
<1>1. s \in [1 .. Len(s) -> S] /\ DOMAIN s = 1 .. Len(s) /\ Len(s) \in Nat
  BY LenProperties
<1> QED
  BY <1>1 DEF ToSet

\* An appended element is the only new one.
LEMMA Appended ==
  ASSUME NEW S, NEW s \in Seq(S), NEW e \in S
  PROVE  /\ Append(s, e) \in Seq(S)
         /\ Len(Append(s, e)) = Len(s) + 1
         /\ \A i \in 1 .. Len(s) : Append(s, e)[i] = s[i]
         /\ Append(s, e)[Len(s) + 1] = e
         /\ ToSet(Append(s, e)) = ToSet(s) \cup {e}
<1> DEFINE t == Append(s, e)
<1>1. /\ t \in Seq(S) /\ Len(t) = Len(s) + 1
      /\ \A i \in 1 .. Len(s) : t[i] = s[i]
      /\ t[Len(s) + 1] = e
  OBVIOUS
<1>2. /\ DOMAIN t = 1 .. Len(s) + 1 /\ DOMAIN s = 1 .. Len(s) /\ Len(s) \in Nat
  BY <1>1, ElementsIn
<1> HIDE DEF t
<1>3. ToSet(t) = ToSet(s) \cup {e}
  <2>1. 1 .. Len(s) + 1 = (1 .. Len(s)) \cup {Len(s) + 1}
    BY <1>2
  <2> QED
    BY <1>1, <1>2, <2>1 DEF ToSet
<1> QED
  BY <1>1, <1>3 DEF t

\* An element that is removed leaves the others in their order.
LEMMA Removed ==
  ASSUME NEW S, NEW s \in Seq(S), NEW i \in 1 .. Len(s)
  PROVE  LET t == RemoveAt(s, i)
         IN  /\ t \in Seq(S)
             /\ Len(t) = Len(s) - 1
             /\ \A j \in 1 .. Len(t) : t[j] = IF j < i THEN s[j] ELSE s[j + 1]
<1> DEFINE a == SubSeq(s, 1, i - 1)
           b == SubSeq(s, i + 1, Len(s))
           t == RemoveAt(s, i)
<1>1. Len(s) \in Nat /\ i \in Nat /\ \A j \in 1 .. Len(s) : s[j] \in S
  BY ElementsIn, ElementOfSeq
<1>2. a \in Seq(S) /\ Len(a) = i - 1 /\ \A j \in 1 .. i - 1 : a[j] = s[j]
  <2>1. \A j \in 1 .. i - 1 : s[j] \in S
    BY <1>1
  <2>2. /\ a \in Seq(S)
        /\ Len(a) = IF 1 <= i - 1 THEN (i - 1) - 1 + 1 ELSE 0
        /\ \A j \in 1 .. (i - 1) - 1 + 1 : a[j] = s[1 + j - 1]
    BY <1>1, <2>1, SubSeqProperties
  <2> QED
    BY <1>1, <2>2
<1>3. b \in Seq(S) /\ Len(b) = Len(s) - i
      /\ \A j \in 1 .. Len(s) - i : b[j] = s[i + j]
  <2>1. \A j \in i + 1 .. Len(s) : s[j] \in S
    BY <1>1
  <2>2. /\ b \in Seq(S)
        /\ Len(b) = IF i + 1 <= Len(s) THEN Len(s) - (i + 1) + 1 ELSE 0
        /\ \A j \in 1 .. Len(s) - (i + 1) + 1 : b[j] = s[(i + 1) + j - 1]
    BY <1>1, <2>1, SubSeqProperties
  <2> QED
    BY <1>1, <2>2
<1>4. t = a \o b
  BY DEF RemoveAt
<1> HIDE DEF a, b, t
<1>5. /\ t \in Seq(S) /\ Len(t) = Len(a) + Len(b)
      /\ \A j \in 1 .. Len(a) + Len(b) :
           t[j] = IF j <= Len(a) THEN a[j] ELSE b[j - Len(a)]
  BY <1>2, <1>3, <1>4, ConcatProperties
<1>6. Len(t) = Len(s) - 1
  BY <1>1, <1>2, <1>3, <1>5
<1>7. ASSUME NEW j \in 1 .. Len(t)
      PROVE  t[j] = IF j < i THEN s[j] ELSE s[j + 1]
  <2>1. CASE j < i
    BY <1>1, <1>2, <1>3, <1>5, <1>6, <2>1
  <2>2. CASE ~(j < i)
    <3>1. /\ j - Len(a) \in 1 .. Len(s) - i
          /\ t[j] = b[j - Len(a)]
      BY <1>1, <1>2, <1>3, <1>5, <1>6, <2>2
    <3>2. i + (j - Len(a)) = j + 1
      BY <1>1, <1>2, <1>6
    <3> QED
      BY <1>3, <2>2, <3>1, <3>2
  <2> QED
    BY <2>1, <2>2
<1> QED
  BY <1>5, <1>6, <1>7 DEF t

\* The point between two points is a point.
LEMMA MidpointType ==
  ASSUME NEW p \in Points, NEW q \in Points
  PROVE  Midpoint(p, q) \in Points
<1>1. LastPoint \in Nat
  BY SamplingAssumption
<1> QED
  BY <1>1 DEF Midpoint, Points

\* The midpoints of neighbours are points.
LEMMA MidpointsType ==
  ASSUME nearest_neighbors.snapshot_params \in Seq(Points)
  PROVE  /\ \A m \in kPairwiseNearestNeighborsMidpoint : m \subseteq Points
         /\ \A p \in Points : \A m \in kNearestNeighborsMidpoint(p) : m \subseteq Points
<1> DEFINE points == ToSet(nearest_neighbors.snapshot_params)
<1>1. points \subseteq Points
  BY ElementsIn
<1> HIDE DEF points
<1>2. ASSUME NEW m \in kPairwiseNearestNeighborsMidpoint
      PROVE  m \subseteq Points
  <2>1. PICK near \in [points -> kSubset(2, points)] :
          m = UNION {{Midpoint(p, q) : q \in near[p]} : p \in points}
    BY DEF kPairwiseNearestNeighborsMidpoint, points
  <2>2. ASSUME NEW p \in points, NEW q \in near[p]
        PROVE  Midpoint(p, q) \in Points
    <3>1. near[p] \subseteq points
      BY <2>1 DEF kSubset
    <3> QED
      BY <1>1, <3>1, MidpointType
  <2> QED
    BY <2>1, <2>2
<1>3. ASSUME NEW p \in Points, NEW m \in kNearestNeighborsMidpoint(p)
      PROVE  m \subseteq Points
  <2>1. PICK near \in Nearest(p, points) : m = {Midpoint(p, q) : q \in near}
    BY DEF kNearestNeighborsMidpoint, points
  <2>2. near \subseteq points
    BY <2>1 DEF Nearest, kSubset
  <2>3. \A q \in near : Midpoint(p, q) \in Points
    BY <1>1, <2>2, MidpointType
  <2> QED
    BY <2>1, <2>3
<1> QED
  BY <1>2, <1>3

(***************************************************************************)
(* The first snapshots.                                                    *)
(***************************************************************************)
\* Both ends, the center and the Halton points are distinct points.
LEMMA InitialDistinct ==
  ASSUME NEW n \in 0 .. 2
  PROVE  LET s == InitialParameters(n)
         IN  /\ s \in Seq(Points) /\ Len(s) = 3 + n
             /\ IsFiniteSet(ToSet(s)) /\ Cardinality(ToSet(s)) = Len(s)
<1> DEFINE h == LastPoint \div 2
           q == LastPoint \div 4
           r == 3 * (LastPoint \div 4)
<1>1. /\ LastPoint \in Nat /\ q \in Nat /\ h = 2 * q /\ LastPoint = 4 * q /\ q > 0
      /\ r = 3 * q
  BY SamplingAssumption
<1>2. /\ 0 \in Points /\ LastPoint \in Points /\ h \in Points
      /\ q \in Points /\ r \in Points
  BY <1>1 DEF Points
<1>3. /\ LastPoint # 0 /\ h \notin {0, LastPoint} /\ q \notin {0, LastPoint, h}
      /\ r \notin {0, LastPoint, h, q}
  BY <1>1
<1> DEFINE a == <<0, LastPoint, h>>
           b == <<q, r>>
<1>4. a \in Seq(Points) /\ b \in Seq(Points) /\ Len(a) = 3 /\ Len(b) = 2
  BY <1>2
<1> DEFINE t == SubSeq(b, 1, n)
           s == a \o t
<1>5. t \in Seq(Points) /\ Len(t) = n /\ \A i \in 1 .. n : t[i] = b[i]
  <2>1. n \in Int /\ \A i \in 1 .. n : b[i] \in Points
    BY <1>2
  <2>2. /\ t \in Seq(Points)
        /\ Len(t) = IF 1 <= n THEN n - 1 + 1 ELSE 0
        /\ \A i \in 1 .. n - 1 + 1 : t[i] = b[1 + i - 1]
    BY <2>1, SubSeqProperties
  <2> QED
    BY <2>1, <2>2
<1>6. InitialParameters(n) = s
  BY DEF InitialParameters
<1> HIDE DEF s, t
<1>7. /\ s \in Seq(Points) /\ Len(s) = 3 + n
      /\ \A i \in 1 .. 3 + n : s[i] = IF i <= 3 THEN a[i] ELSE t[i - 3]
  BY <1>4, <1>5, ConcatProperties DEF s
<1>8. ToSet(s) = CASE n = 0 -> {s[1], s[2], s[3]}
                   [] n = 1 -> {s[1], s[2], s[3], s[4]}
                   [] n = 2 -> {s[1], s[2], s[3], s[4], s[5]}
  <2>1. DOMAIN s = 1 .. 3 + n
    BY <1>7, ElementsIn
  <2>3. ToSet(s) = {s[i] : i \in DOMAIN s}
    BY DEF ToSet
  <2>4. CASE n = 0
    <3>1. DOMAIN s = {1, 2, 3}
      BY <2>1, <2>4
    <3>2. ToSet(s) = {s[1], s[2], s[3]}
      BY <2>3, <3>1
    <3> QED
      BY <2>4, <3>2
  <2>5. CASE n = 1
    <3>1. DOMAIN s = {1, 2, 3, 4}
      BY <2>1, <2>5
    <3>2. ToSet(s) = {s[1], s[2], s[3], s[4]}
      BY <2>3, <3>1
    <3> QED
      BY <2>5, <3>2
  <2>6. CASE n = 2
    <3>1. DOMAIN s = {1, 2, 3, 4, 5}
      BY <2>1, <2>6
    <3>2. ToSet(s) = {s[1], s[2], s[3], s[4], s[5]}
      BY <2>3, <3>1
    <3> QED
      BY <2>6, <3>2
  <2> QED
    BY <2>4, <2>5, <2>6
<1>9. IsFiniteSet({0, LastPoint, h}) /\ Cardinality({0, LastPoint, h}) = 3
  <2>1. IsFiniteSet({}) /\ Cardinality({}) = 0
    BY FS_EmptySet
  <2>2. IsFiniteSet({} \cup {0}) /\ Cardinality({} \cup {0}) = 1
    BY <2>1, FS_AddElement
  <2>3. IsFiniteSet({0}) /\ Cardinality({0}) = 1
    <3>1. {} \cup {0} = {0}
      OBVIOUS
    <3> QED
      BY <2>2, <3>1
  <2>4. IsFiniteSet({0} \cup {LastPoint}) /\ Cardinality({0} \cup {LastPoint}) = 2
    BY <1>3, <2>3, FS_AddElement
  <2>5. IsFiniteSet(({0} \cup {LastPoint}) \cup {h})
        /\ Cardinality(({0} \cup {LastPoint}) \cup {h}) = 3
    BY <1>3, <2>4, FS_AddElement
  <2>6. ({0} \cup {LastPoint}) \cup {h} = {0, LastPoint, h}
    OBVIOUS
  <2> QED
    BY <2>5, <2>6
<1>10. s[1] = 0 /\ s[2] = LastPoint /\ s[3] = h
  BY <1>7
<1>11. n \in {1, 2} => s[4] = q
  BY <1>5, <1>7
<1>12. n = 2 => s[5] = r
  BY <1>5, <1>7
<1> DEFINE ends == {0, LastPoint, h}
<1>13. q \notin ends /\ r \notin ends \cup {q}
  BY <1>3
<1>14. IsFiniteSet(ends) /\ Cardinality(ends) = 3
  BY <1>9
<1> HIDE DEF h, q, r
<1>15. IsFiniteSet(ToSet(s)) /\ Cardinality(ToSet(s)) = 3 + n
  <2>1. CASE n = 0
    <3>1. ToSet(s) = ends
      BY <1>8, <1>10, <2>1
    <3> QED
      BY <1>14, <2>1, <3>1
  <2>2. IsFiniteSet(ends \cup {q}) /\ Cardinality(ends \cup {q}) = 4
    BY <1>13, <1>14, FS_AddElement
  <2>3. CASE n = 1
    <3>1. ToSet(s) = ends \cup {q}
      BY <1>8, <1>10, <1>11, <2>3
    <3> QED
      BY <2>2, <2>3, <3>1
  <2>4. CASE n = 2
    <3>1. IsFiniteSet((ends \cup {q}) \cup {r})
          /\ Cardinality((ends \cup {q}) \cup {r}) = 5
      BY <1>13, <2>2, FS_AddElement
    <3>2. ToSet(s) = {s[1], s[2], s[3], s[4], s[5]}
      BY <1>8, <2>4
    <3>3. {s[1], s[2], s[3], s[4], s[5]} = (ends \cup {q}) \cup {r}
      BY <1>10, <1>11, <1>12, <2>4
    <3> QED
      BY <2>4, <3>1, <3>2, <3>3
  <2> QED
    BY <2>1, <2>3, <2>4
<1> QED
  BY <1>6, <1>7, <1>15

LEMMA InitInv == Init => Inv
<1> SUFFICES ASSUME Init PROVE Inv
  OBVIOUS
<1>1. /\ num_halton \in HaltonNumbers /\ num_halton \in 0 .. 2
      /\ snapshot_parameters = InitialParameters(num_halton)
  BY SamplingAssumption DEF Init
<1>2. /\ snapshot_parameters \in Seq(Points)
      /\ Len(snapshot_parameters) = 3 + num_halton
      /\ IsFiniteSet(Snapshots)
      /\ Cardinality(Snapshots) = Len(snapshot_parameters)
  BY <1>1, InitialDistinct DEF Snapshots
<1>3. /\ pc = "snapshots" /\ snapshotMatrix = << >> /\ basis = << >>
      /\ nearest_neighbors = [snapshot_params |-> << >>, snapshots |-> << >>]
      /\ rom_locations = << >> /\ rom_points = {} /\ max_error_params = None
      /\ index = 0
  BY DEF Init
<1>4. /\ << >> \in Seq(Points) /\ << >> \in Seq(Location) /\ DOMAIN << >> = {}
      /\ Len(<< >>) = 0
  OBVIOUS
<1>5. TypeOK
  BY <1>1, <1>2, <1>3, <1>4 DEF TypeOK, Location
<1>6. Locations = {}
  BY <1>3, <1>4 DEF Locations
<1>7. Placing
  BY <1>1, <1>2, <1>3, <1>4 DEF Placing
<1> QED
  BY <1>1, <1>2, <1>3, <1>4, <1>5, <1>6, <1>7
     DEF Inv, Placed, Sampling, Distinct, Counted, ErrorsKept

(***************************************************************************)
(* Every step keeps the invariant.                                         *)
(***************************************************************************)
\* A snapshot is placed beside the parameter that it was computed at.
LEMMA PlaceSnapshotInv == Inv /\ PlaceSnapshot => Inv'
<1> SUFFICES ASSUME Inv, PlaceSnapshot PROVE Inv'
  OBVIOUS
<1> DEFINE n == Len(snapshotMatrix)
           fom == snapshot_parameters[n + 1]
<1>1. /\ snapshot_parameters \in Seq(Points) /\ snapshotMatrix \in Seq(Points)
      /\ nearest_neighbors.snapshots \in Seq(Points)
      /\ n < Len(snapshot_parameters) /\ pc = "snapshots"
      /\ rom_locations = << >> /\ rom_points = {}
      /\ \A i \in 1 .. n : snapshotMatrix[i] = snapshot_parameters[i]
  BY DEF Inv, TypeOK, Placing, PlaceSnapshot
<1>2. n \in Nat /\ n + 1 \in 1 .. Len(snapshot_parameters)
  BY <1>1, ElementsIn
<1>3. fom \in Points
  BY <1>1, <1>2, ElementOfSeq
<1>4. /\ snapshotMatrix' = Append(snapshotMatrix, fom)
      /\ nearest_neighbors' = [snapshot_params |-> snapshot_parameters,
                               snapshots |-> Append(nearest_neighbors.snapshots, fom)]
      /\ UNCHANGED <<num_halton, pc, snapshot_parameters, basis, rom_locations,
                     rom_points, max_error_params, index>>
  BY DEF PlaceSnapshot, updateSnapshots
<1>5. /\ snapshotMatrix' \in Seq(Points) /\ Len(snapshotMatrix') = n + 1
      /\ \A i \in 1 .. n : snapshotMatrix'[i] = snapshotMatrix[i]
      /\ snapshotMatrix'[n + 1] = fom
      /\ Append(nearest_neighbors.snapshots, fom) \in Seq(Points)
  BY <1>1, <1>3, <1>4, Appended
<1>6. TypeOK'
  BY <1>1, <1>4, <1>5 DEF Inv, TypeOK
<1>7. Placing'
  <2>1. \A i \in 1 .. n + 1 : snapshotMatrix'[i] = snapshot_parameters[i]
    BY <1>1, <1>2, <1>5
  <2>2. n + 1 <= Len(snapshot_parameters)
    BY <1>2
  <2> QED
    BY <1>1, <1>4, <1>5, <2>1, <2>2 DEF Placing
<1> QED
  BY <1>1, <1>4, <1>6, <1>7
     DEF Inv, Placed, Sampling, Distinct, Counted, ErrorsKept, Snapshots, Locations

\* All the snapshots are placed before the first basis.
LEMMA FirstLocationsInv == Inv /\ FirstLocations => Inv'
<1> SUFFICES ASSUME Inv, FirstLocations PROVE Inv'
  OBVIOUS
<1>1. /\ snapshot_parameters \in Seq(Points) /\ snapshotMatrix \in Seq(Points)
      /\ Len(snapshotMatrix) = Len(snapshot_parameters)
      /\ Len(snapshot_parameters) >= 3
      /\ \A i \in 1 .. Len(snapshotMatrix) :
           snapshotMatrix[i] = snapshot_parameters[i]
      /\ pc = "snapshots" /\ rom_locations = << >>
  BY DEF Inv, TypeOK, Placing, Counted, FirstLocations
<1>2. snapshotMatrix = snapshot_parameters
  BY <1>1, SeqEqual
<1>3. snapshotMatrix # << >>
  BY <1>1
<1>4. /\ basis' = snapshotMatrix /\ pc' = "place"
      /\ rom_points' \in kPairwiseNearestNeighborsMidpoint
      /\ UNCHANGED <<num_halton, snapshot_parameters, nearest_neighbors,
                     snapshotMatrix, rom_locations, max_error_params, index>>
  BY DEF FirstLocations
<1>5. nearest_neighbors.snapshot_params = snapshot_parameters
  BY <1>1, <1>3 DEF Inv, Placing
<1>6. rom_points' \subseteq Points
  BY <1>1, <1>4, <1>5, MidpointsType
<1>7. DOMAIN rom_locations = {}
  BY <1>1
<1>8. TypeOK'
  BY <1>1, <1>4, <1>6 DEF Inv, TypeOK
<1> QED
  BY <1>2, <1>4, <1>5, <1>7, <1>8
     DEF Inv, Placing, Placed, Sampling, Distinct, Counted, ErrorsKept, Snapshots,
         Locations

\* A location is added only where there is none, nor a snapshot.
LEMMA PlaceROMLocationInv == Inv /\ PlaceROMLocation => Inv'
<1> SUFFICES ASSUME Inv, PlaceROMLocation PROVE Inv'
  OBVIOUS
<1>1. PICK p \in rom_points :
        /\ rom_points' = rom_points \ {p}
        /\ rom_locations' = IF AlreadyComputed(p) THEN rom_locations
                            ELSE Append(rom_locations, NewLocation(p))
  BY DEF PlaceROMLocation
<1>2. /\ pc = "place" /\ p \in Points /\ rom_locations \in Seq(Location)
      /\ basis \in Seq(Points) /\ rom_points \subseteq Points
      /\ UNCHANGED <<num_halton, pc, snapshot_parameters, nearest_neighbors,
                     snapshotMatrix, basis, max_error_params, index>>
  BY DEF PlaceROMLocation, Inv, TypeOK, Location
<1>3. NewLocation(p) \in Location
      /\ NewLocation(p).parameter = p /\ NewLocation(p).error_basis = basis
  BY <1>2 DEF NewLocation, Location
<1>4. /\ rom_locations' \in Seq(Location)
      /\ (Distinct /\ ErrorsKept)'
  <2>1. CASE AlreadyComputed(p)
    BY <1>1, <1>2, <2>1
       DEF Inv, Distinct, ErrorsKept, Locations, Snapshots
  <2>2. CASE ~AlreadyComputed(p)
    <3> DEFINE n == Len(rom_locations)
    <3>1. /\ rom_locations' \in Seq(Location)
          /\ Len(rom_locations') = n + 1
          /\ \A i \in 1 .. n : rom_locations'[i] = rom_locations[i]
          /\ rom_locations'[n + 1] = NewLocation(p)
      BY <1>1, <1>2, <1>3, <2>2, Appended
    <3>2. /\ DOMAIN rom_locations = 1 .. n /\ DOMAIN rom_locations' = 1 .. n + 1
          /\ n \in Nat
      BY <1>2, <3>1, ElementsIn
    <3>3. p \notin Snapshots /\ \A i \in 1 .. n : rom_locations[i].parameter # p
      BY <2>2, <3>2 DEF AlreadyComputed, Locations
    <3>4. \A i \in 1 .. n + 1 :
            /\ rom_locations'[i].error_basis = basis
            /\ rom_locations'[i].parameter \notin Snapshots
      <4>1. \A i \in 1 .. n : /\ rom_locations[i].error_basis = basis
                              /\ rom_locations[i].parameter \notin Snapshots
        BY <1>2, <3>2 DEF Inv, ErrorsKept, Distinct, Locations
      <4> QED
        BY <1>3, <3>1, <3>2, <3>3, <4>1
    <3>5. \A i, j \in 1 .. n + 1 :
            rom_locations'[i].parameter = rom_locations'[j].parameter => i = j
      <4>1. \A i, j \in 1 .. n :
              rom_locations[i].parameter = rom_locations[j].parameter => i = j
        BY <3>2 DEF Inv, Distinct
      <4>2. rom_locations'[n + 1].parameter = p
        BY <1>3, <3>1
      <4>3. \A i \in 1 .. n + 1 : i \in 1 .. n \/ i = n + 1
        BY <3>2
      <4> QED
        BY <3>1, <3>3, <4>1, <4>2, <4>3
    <3> QED
      BY <1>2, <3>1, <3>2, <3>4, <3>5 DEF Distinct, ErrorsKept, Locations, Snapshots
  <2> QED
    BY <2>1, <2>2
<1>5. TypeOK'
  BY <1>1, <1>2, <1>4 DEF Inv, TypeOK, Location
<1> QED
  BY <1>2, <1>4, <1>5
     DEF Inv, Placing, Placed, Sampling, Counted, Snapshots

\* The location where the error is largest is erased, so that none is left there.
LEMMA GetMaxErrorROMInv == Inv /\ GetMaxErrorROM => Inv'
<1> SUFFICES ASSUME Inv, GetMaxErrorROM PROVE Inv'
  OBVIOUS
<1>1. PICK p \in SamplePoints \ Snapshots :
        /\ max_error_params' = p
        /\ rom_locations' \in RemainingLocations(p)
  BY DEF GetMaxErrorROM
<1>2. /\ pc = "place" /\ pc' \in {"sample", "done"} /\ p \in Points
      /\ rom_locations \in Seq(Location)
      /\ UNCHANGED <<num_halton, snapshot_parameters, nearest_neighbors,
                     snapshotMatrix, basis, rom_points, index>>
  BY SamplingAssumption DEF GetMaxErrorROM, Inv, TypeOK, Location, Points
<1> DEFINE n == Len(rom_locations)
<1>3. DOMAIN rom_locations = 1 .. n /\ n \in Nat
  BY <1>2, ElementsIn
<1>4. \A i, j \in 1 .. n :
        rom_locations[i].parameter = rom_locations[j].parameter => i = j
  BY <1>3 DEF Inv, Distinct
<1>5. \A i \in 1 .. n : rom_locations[i].parameter \notin Snapshots
  BY <1>3 DEF Inv, Distinct, Locations
<1>6. /\ rom_locations' \in Seq(Location) /\ Distinct'
      /\ p \notin Locations'
  <2>1. CASE p \notin Locations
    <3>1. rom_locations' = rom_locations
      BY <1>1, <2>1 DEF RemainingLocations
    <3> QED
      BY <1>2, <2>1, <3>1 DEF Inv, Distinct, Locations, Snapshots
  <2>2. CASE p \in Locations
    <3>1. PICK i \in 1 .. n : /\ rom_locations[i].parameter = p
                              /\ rom_locations' = RemoveAt(rom_locations, i)
      BY <1>1, <1>3, <2>2 DEF RemainingLocations
    <3>2. /\ rom_locations' \in Seq(Location)
          /\ Len(rom_locations') = n - 1
          /\ \A j \in 1 .. n - 1 :
               rom_locations'[j] = rom_locations[IF j < i THEN j ELSE j + 1]
      BY <1>2, <3>1, Removed
    <3>3. DOMAIN rom_locations' = 1 .. n - 1
      BY <3>2, ElementsIn
    <3> DEFINE k(j) == IF j < i THEN j ELSE j + 1
    <3>4. \A j \in 1 .. n - 1 : k(j) \in 1 .. n /\ k(j) # i
      BY <1>3
    <3>5. \A j, l \in 1 .. n - 1 : k(j) = k(l) => j = l
      BY <1>3
    <3>6. \A j \in 1 .. n - 1 : rom_locations'[j] = rom_locations[k(j)]
      BY <3>2
    <3> HIDE DEF k
    <3>7. \A j \in 1 .. n - 1 : /\ rom_locations'[j].parameter # p
                                /\ rom_locations'[j].parameter \notin Snapshots
      BY <1>4, <1>5, <3>1, <3>4, <3>6
    <3>8. \A j, l \in 1 .. n - 1 :
            rom_locations'[j].parameter = rom_locations'[l].parameter => j = l
      BY <1>4, <3>4, <3>5, <3>6
    <3> QED
      BY <1>2, <3>2, <3>3, <3>7, <3>8 DEF Distinct, Locations, Snapshots
  <2> QED
    BY <2>1, <2>2
<1>7. TypeOK'
  BY <1>1, <1>2, <1>6 DEF Inv, TypeOK, Location
<1> QED
  BY <1>1, <1>2, <1>6, <1>7
     DEF Inv, Placing, Placed, Sampling, Counted, ErrorsKept, Snapshots

\* The new snapshot is at no other, and at no location.
LEMMA SampleSnapshotInv == Inv /\ SampleSnapshot => Inv'
<1> SUFFICES ASSUME Inv, SampleSnapshot PROVE Inv'
  OBVIOUS
<1> DEFINE p == max_error_params
<1>1. /\ pc = "sample" /\ pc' = "update" /\ p \in Points
      /\ p \notin Snapshots /\ p \notin Locations
      /\ snapshot_parameters \in Seq(Points)
      /\ nearest_neighbors.snapshots \in Seq(Points)
      /\ snapshotMatrix = snapshot_parameters
      /\ IsFiniteSet(Snapshots)
      /\ Cardinality(Snapshots) = Len(snapshot_parameters)
      /\ Len(snapshot_parameters) >= 3
  BY DEF SampleSnapshot, Inv, TypeOK, Sampling, Placed, Counted
<1>2. /\ snapshot_parameters' = Append(snapshot_parameters, p)
      /\ snapshotMatrix' = Append(snapshot_parameters, p)
      /\ basis' = Append(snapshot_parameters, p)
      /\ nearest_neighbors' =
           [snapshot_params |-> Append(snapshot_parameters, p),
            snapshots |-> Append(nearest_neighbors.snapshots, p)]
      /\ UNCHANGED <<num_halton, rom_locations, rom_points, max_error_params, index>>
  BY <1>1 DEF SampleSnapshot, updateSnapshots, computeBasis
<1>3. /\ Append(snapshot_parameters, p) \in Seq(Points)
      /\ Len(Append(snapshot_parameters, p)) = Len(snapshot_parameters) + 1
      /\ ToSet(Append(snapshot_parameters, p)) = Snapshots \cup {p}
      /\ Append(nearest_neighbors.snapshots, p) \in Seq(Points)
      /\ Len(snapshot_parameters) \in Nat
  BY <1>1, Appended, ElementsIn DEF Snapshots
<1>4. /\ IsFiniteSet(Snapshots \cup {p})
      /\ Cardinality(Snapshots \cup {p}) = Cardinality(Snapshots) + 1
  BY <1>1, FS_AddElement
<1>5. Snapshots' = Snapshots \cup {p} /\ Locations' = Locations
  BY <1>2, <1>3 DEF Snapshots, Locations
<1>6. Counted'
  BY <1>1, <1>2, <1>3, <1>4, <1>5 DEF Counted
<1>7. Distinct'
  BY <1>1, <1>2, <1>5 DEF Inv, Distinct
<1>8. TypeOK'
  BY <1>1, <1>2, <1>3 DEF Inv, TypeOK
<1> QED
  BY <1>1, <1>2, <1>6, <1>7, <1>8 DEF Inv, Placing, Placed, Sampling, ErrorsKept

\* A change of the errors keeps the points of the locations.
LEMMA LocationsStay ==
  ASSUME Inv,
         rom_locations' \in Seq(Location),
         Len(rom_locations') = Len(rom_locations),
         \A i \in 1 .. Len(rom_locations) :
           rom_locations'[i].parameter = rom_locations[i].parameter,
         UNCHANGED snapshot_parameters
  PROVE  Distinct' /\ Locations' = Locations
<1>1. DOMAIN rom_locations = 1 .. Len(rom_locations)
      /\ DOMAIN rom_locations' = 1 .. Len(rom_locations)
  BY ElementsIn DEF Inv, TypeOK, Location
<1>2. Locations' = Locations
  BY <1>1 DEF Locations
<1> QED
  BY <1>1, <1>2 DEF Inv, Distinct, Snapshots

\* Every location is given an error for the new basis.
LEMMA UpdateErrorsInv == Inv /\ UpdateErrors => Inv'
<1> SUFFICES ASSUME Inv, UpdateErrors PROVE Inv'
  OBVIOUS
<1> DEFINE n == Len(rom_locations)
<1>1. /\ pc = "update" /\ pc' = "recompute" /\ index' = 1
      /\ rom_locations \in Seq(Location) /\ basis \in Seq(Points)
      /\ rom_locations' = [i \in DOMAIN rom_locations |->
                             [rom_locations[i] EXCEPT !.error_basis = basis]]
      /\ UNCHANGED <<num_halton, snapshot_parameters, nearest_neighbors,
                     snapshotMatrix, basis, rom_points, max_error_params>>
  BY DEF UpdateErrors, Inv, TypeOK, Location
<1>2. DOMAIN rom_locations = 1 .. n /\ n \in Nat
      /\ \A i \in 1 .. n : rom_locations[i] \in Location
  BY <1>1, ElementsIn, ElementOfSeq
<1>3. \A i \in 1 .. n : /\ rom_locations'[i] \in Location
                        /\ rom_locations'[i].parameter = rom_locations[i].parameter
                        /\ rom_locations'[i].error_basis = basis
  BY <1>1, <1>2 DEF Location
<1>4. rom_locations' \in [1 .. n -> Location]
  BY <1>1, <1>2, <1>3
<1>5. rom_locations' \in Seq(Location) /\ Len(rom_locations') = n
      /\ DOMAIN rom_locations' = 1 .. n
  BY <1>2, <1>4
<1>6. Distinct' /\ Locations' = Locations
  BY <1>1, <1>3, <1>5, LocationsStay
<1>7. ErrorsKept'
  BY <1>1, <1>3, <1>5 DEF ErrorsKept
<1>8. TypeOK'
  BY <1>1, <1>5 DEF Inv, TypeOK, Location
<1> QED
  BY <1>1, <1>6, <1>7, <1>8 DEF Inv, Placing, Placed, Sampling, Counted, Snapshots

\* A location that is computed again has an error for the basis it was computed on.
LEMMA RecomputeOutlierInv == Inv /\ RecomputeOutlier => Inv'
<1> SUFFICES ASSUME Inv, RecomputeOutlier PROVE Inv'
  OBVIOUS
<1> DEFINE n == Len(rom_locations)
<1>1. /\ pc = "recompute" /\ index \in 1 .. n /\ index' = index + 1
      /\ rom_locations \in Seq(Location) /\ basis \in Seq(Points)
      /\ index \in Nat
      /\ UNCHANGED <<num_halton, pc, snapshot_parameters, nearest_neighbors,
                     snapshotMatrix, basis, rom_points, max_error_params>>
  <2>1. index \in Nat /\ index >= 1 /\ index <= n /\ rom_locations \in Seq(Location)
    BY DEF RecomputeOutlier, Inv, TypeOK, Sampling, Location
  <2>2. n \in Nat
    BY <2>1, ElementsIn
  <2>3. index \in 1 .. n
    BY <2>1, <2>2
  <2> QED
    BY <2>1, <2>3 DEF RecomputeOutlier, Inv, TypeOK
<1>2. DOMAIN rom_locations = 1 .. n /\ n \in Nat
      /\ \A i \in 1 .. n : /\ rom_locations[i] \in Location
                           /\ rom_locations[i].error_basis = basis
  BY <1>1, ElementsIn, ElementOfSeq DEF Inv, ErrorsKept
<1> DEFINE e == NewLocation(rom_locations[index].parameter)
<1>3. /\ e \in Location /\ e.error_basis = basis
      /\ e.parameter = rom_locations[index].parameter
  <2>1. rom_locations[index] \in Location
    BY <1>1, <1>2
  <2> QED
    BY <1>1, <2>1 DEF NewLocation, Location
<1>4. \/ rom_locations' = rom_locations
      \/ rom_locations' = [rom_locations EXCEPT ![index] = e]
  BY DEF RecomputeOutlier
<1> HIDE DEF e
<1>5. /\ rom_locations' \in Seq(Location) /\ Len(rom_locations') = n
      /\ \A i \in 1 .. n :
           /\ rom_locations'[i].parameter = rom_locations[i].parameter
           /\ rom_locations'[i].error_basis = basis
  <2>1. CASE rom_locations' = rom_locations
    BY <1>1, <1>2, <2>1
  <2>2. CASE rom_locations' = [rom_locations EXCEPT ![index] = e]
    <3>1. /\ rom_locations' \in Seq(Location) /\ Len(rom_locations') = n
          /\ \A i \in 1 .. n :
               rom_locations'[i] = IF i = index THEN e ELSE rom_locations[i]
      BY <1>1, <1>3, <2>2, ExceptSeq
    <3> QED
      BY <1>2, <1>3, <3>1
  <2> QED
    BY <1>4, <2>1, <2>2
<1>6. Distinct' /\ Locations' = Locations
  BY <1>1, <1>5, LocationsStay
<1>7. DOMAIN rom_locations' = 1 .. n
  BY <1>5, ElementsIn
<1>8. ErrorsKept'
  BY <1>1, <1>5, <1>7 DEF ErrorsKept
<1>9. TypeOK'
  BY <1>1, <1>5 DEF Inv, TypeOK, Location
<1>10. Sampling'
  BY <1>1 DEF Inv, Sampling
<1> QED
  BY <1>1, <1>6, <1>8, <1>9, <1>10 DEF Inv, Placing, Placed, Counted, Snapshots

\* The next points to place are between the new snapshot and its neighbours.
LEMMA NewLocationsInv == Inv /\ NewLocations => Inv'
<1> SUFFICES ASSUME Inv, NewLocations PROVE Inv'
  OBVIOUS
<1>1. /\ pc = "recompute" /\ pc' = "place" /\ max_error_params \in Points
      /\ rom_points' \in kNearestNeighborsMidpoint(max_error_params)
      /\ UNCHANGED <<num_halton, snapshot_parameters, nearest_neighbors,
                     snapshotMatrix, basis, rom_locations, max_error_params, index>>
  BY DEF NewLocations, Inv, Sampling
<1>2. rom_points' \subseteq Points
  BY <1>1, MidpointsType DEF Inv, TypeOK
<1>3. TypeOK'
  BY <1>1, <1>2 DEF Inv, TypeOK
<1> QED
  BY <1>1, <1>3
     DEF Inv, Placing, Placed, Sampling, Distinct, Counted, ErrorsKept, Snapshots,
         Locations

LEMMA NextInv == Inv /\ [Next]_vars => Inv'
<1> SUFFICES ASSUME Inv, [Next]_vars PROVE Inv'
  OBVIOUS
<1>1. CASE TooFewLocations
  BY <1>1 DEF TooFewLocations, Inv, TypeOK, Placing, Placed, Sampling, Distinct,
              Counted, ErrorsKept, Snapshots, Locations
<1>2. CASE UNCHANGED vars
  BY <1>2 DEF vars, Inv, TypeOK, Placing, Placed, Sampling, Distinct, Counted,
              ErrorsKept, Snapshots, Locations
<1> QED
  BY <1>1, <1>2, PlaceSnapshotInv, FirstLocationsInv, PlaceROMLocationInv,
     GetMaxErrorROMInv, SampleSnapshotInv, UpdateErrorsInv, RecomputeOutlierInv,
     NewLocationsInv DEF Next

\* The invariant of the specification.
LEMMA Invariance == Spec => []Inv
  BY InitInv, NextInv, PTL DEF Spec

(***************************************************************************)
(* The theorems.                                                           *)
(***************************************************************************)
\* The sampling keeps the types of what it works on; in particular every midpoint
\* is a parameter of the flow.
THEOREM TypeCorrect == Spec => []TypeOK
  BY Invariance, PTL DEF Inv

\* The errors that are interpolated together are estimates of the distance to the
\* same basis, that of all the snapshots.
THEOREM ErrorsCorrect == Spec => []ErrorsOfCurrentBasis
<1>1. Inv => ErrorsOfCurrentBasis
  BY DEF Inv, Placed, ErrorsKept, ErrorsOfCurrentBasis
<1> QED
  BY <1>1, Invariance, PTL

\* No point is sampled or interpolated twice, wherever the interpolant is largest.
THEOREM PointsCorrect == Spec => []PointsAreDistinct
<1>1. Inv => PointsAreDistinct
  BY DEF Inv, Distinct, Counted, PointsAreDistinct
<1> QED
  BY <1>1, Invariance, PTL
=============================================================================

-------------------------------- MODULE GeoV2 --------------------------------
(***************************************************************************)
(* The v2 geo service: a GPS point becomes { inside the campus boundary,   *)
(* associated landmark, suggested address }.  Coordinates are integers     *)
(* <<lng, lat>>; what haversineMeters returns is an input, in quarters of  *)
(* a metre, so that rounding matters.  Floating point error is left out.   *)
(***************************************************************************)
EXTENDS Integers, Sequences, FiniteSets, SequencesExt

CONSTANTS
  Landmarks,
  Boundaries,         \* TenantGeoV2.boundary: sequences of entries
  Malformed,          \* an entry of the JSON column that is no pair of numbers
  GpsPoints,
  Quarters,           \* distances, in quarters of a metre
  Radii,              \* radiusM, in metres
  NotConfigured       \* no row, no landmark, null

MaxAssociationM == 400

\* The landmark the loop has kept.
Best == [id : Landmarks, distanceM : Nat]

ASSUME GeoAssumption ==
  /\ Boundaries \subseteq Seq((Int \X Int) \cup {Malformed}) /\ Malformed \notin Int \X Int
  /\ GpsPoints \subseteq Int \X Int /\ NotConfigured \notin Boundaries
  /\ IsFiniteSet(Landmarks) /\ Quarters \subseteq Nat /\ Radii \subseteq Nat
  /\ NotConfigured \notin Landmarks \cup BOOLEAN /\ NotConfigured \notin Best

VARIABLES
  config,             \* the tenant's boundary, or NotConfigured
  landmark,           \* CampusLandmarkV2: [q: distance of the point, radius]
  found,              \* the rows in the order findMany returned them
  gps,                \* the point asked about
  next,               \* index of the loop over landmarks
  inside, best, address, resolved

geoVars == <<config, landmark, found, gps, next, inside, best, address, resolved>>

-----------------------------------------------------------------------------
(* The boundary *)

\* Each pair of numbers is pushed, in the order of the column.
ParseBoundary(boundary) ==
  LET ring[i \in 0..Len(boundary)] ==
        IF i = 0 THEN <<>>
        ELSE IF boundary[i] = Malformed THEN ring[i - 1] ELSE Append(ring[i - 1], boundary[i])
  IN ring[Len(boundary)]

\* The edge from b to a crosses the ray from p towards growing longitude: the
\* quotient of the code, cross-multiplied.
Crosses(p, a, b) ==
  /\ (a[2] > p[2]) # (b[2] > p[2])
  /\ LET run == (b[1] - a[1]) * (p[2] - a[2])
         off == (p[1] - a[1]) * (b[2] - a[2])
     IN IF b[2] > a[2] THEN off < run ELSE off > run

\* Mutant: the closing edge, from the last vertex to the first, is forgotten.
PointInOpenRing(p, ring) ==
  LET hit[i \in 0..Len(ring)] ==
        IF i = 0 THEN FALSE
        ELSE hit[i - 1] # (i > 1 /\ Crosses(p, ring[i], ring[i - 1]))
  IN Len(ring) >= 3 /\ hit[Len(ring)]

PointInRing(p, ring) ==
  LET hit[i \in 0..Len(ring)] ==
        IF i = 0 THEN FALSE
        ELSE hit[i - 1] # Crosses(p, ring[i], ring[IF i = 1 THEN Len(ring) ELSE i - 1])
  IN Len(ring) >= 3 /\ hit[Len(ring)]

-----------------------------------------------------------------------------
(* resolveLocation *)

\* Mutant: a distance is rounded up.
RoundUp(q) == (q + 3) \div 4

\* Math.round on quarters of a metre.
Round(q) == (q + 2) \div 4

InsideCampus(p, conf) ==
  IF conf # NotConfigured /\ Len(ParseBoundary(conf)) >= 3
  THEN PointInRing(p, ParseBoundary(conf)) ELSE NotConfigured

InRadius(lm) == lm.q <= 4 * (IF lm.radius < MaxAssociationM THEN lm.radius ELSE MaxAssociationM)

\* The running best keeps its distance rounded, and is compared rounded.
CloserThan(b, lm) == b = NotConfigured \/ lm.q < 4 * b.distanceM

GeoInit ==
  /\ config \in Boundaries \cup {NotConfigured}
  /\ landmark \in [Landmarks -> [q : Quarters, radius : Radii]]
  /\ gps \in GpsPoints
  /\ found = <<>>
  /\ next = 0
  /\ inside = NotConfigured
  /\ best = NotConfigured
  /\ address = {}
  /\ resolved = FALSE

\* Both queries have answered.
ReadPlace ==
  /\ next = 0
  /\ found' \in SetToSeqs(Landmarks)
  /\ inside' = InsideCampus(gps, config)
  /\ next' = 1
  /\ UNCHANGED <<config, landmark, gps, best, address, resolved>>

Consider ==
  /\ next \in 1..Len(found)
  /\ LET l == found[next] IN
       best' = IF InRadius(landmark[l]) /\ CloserThan(best, landmark[l])
               THEN [id |-> l, distanceM |-> Round(landmark[l].q)] ELSE best
  /\ next' = next + 1
  /\ UNCHANGED <<config, landmark, found, gps, inside, address, resolved>>

\* The parts of the address: the landmark's name, and the campus name after it
\* or, inside the campus, alone.
Suggest ==
  /\ next > Len(found) /\ next > 0 /\ ~resolved
  /\ address' = (IF best # NotConfigured THEN {best.id} ELSE {})
                 \cup (IF config # NotConfigured /\ (best # NotConfigured \/ inside = TRUE)
                       THEN {"campus"} ELSE {})
  /\ resolved' = TRUE
  /\ UNCHANGED <<config, landmark, found, gps, next, inside, best>>

GeoNext == ReadPlace \/ Consider \/ Suggest
GeoSpec == GeoInit /\ [][GeoNext]_geoVars

-----------------------------------------------------------------------------
(* Properties *)

Turn(a, b, p) == (b[1] - a[1]) * (p[2] - a[2]) - (b[2] - a[2]) * (p[1] - a[1])

StrictlyIn(p, a, b, c) ==
  \/ Turn(a, b, p) > 0 /\ Turn(b, c, p) > 0 /\ Turn(c, a, p) > 0
  \/ Turn(a, b, p) < 0 /\ Turn(b, c, p) < 0 /\ Turn(c, a, p) < 0

\* The triangles that the first vertex makes with each edge of the ring, and
\* those of them that hold the point.
FanOver(p, ring) == {i \in 2..(Len(ring) - 1) : StrictlyIn(p, ring[1], ring[i], ring[i + 1])}
OnALine(p, ring) ==
  \E i \in 1..Len(ring), j \in 1..Len(ring) : ring[i] # ring[j] /\ Turn(ring[i], ring[j], p) = 0

\* Of the first n entries, how many are pairs.
PairsIn(boundary, n) == Cardinality({i \in 1..n : boundary[i] # Malformed})

\* Ray casting (pointInRing, "open or closed") agrees with the definition it
\* stands for: a point on no line of the figure is inside when an odd number of
\* the fan's triangles hold it, whether or not the ring repeats its first vertex,
\* and the ring is the column's pairs in their order, whatever else the column
\* has; one with fewer than three pairs answers null.
InsideIsParity ==
  next > 0 =>
    IF config = NotConfigured THEN inside = NotConfigured
    ELSE LET ring == ParseBoundary(config) IN
         /\ Len(ring) = PairsIn(config, Len(config))
         /\ \A i \in DOMAIN config :
              config[i] # Malformed => ring[PairsIn(config, i)] = config[i]
         /\ IF Len(ring) < 3 THEN inside = NotConfigured
            ELSE OnALine(gps, ring) \/ inside = (Cardinality(FanOver(gps, ring)) % 2 = 1)

Considered == {found[i] : i \in 1..(next - 1)}
Eligible(l) == landmark[l].q <= 4 * landmark[l].radius /\ landmark[l].q <= 4 * MaxAssociationM

HalfMetre == 2   \* in quarters

\* Comparing with the rounded best, the loop may answer a landmark that is not
\* the nearest, but however many it has passed over, the errors of rounding do not
\* add up: none in reach is nearer by half a metre, and none beats the distance in
\* metres that is reported; and it answers one exactly when one is in reach.
NearestWhenRounded ==
  next > 0 =>
    IF best = NotConfigured THEN \A l \in Considered : ~Eligible(l)
    ELSE /\ best.id \in Considered /\ Eligible(best.id)
         /\ best.distanceM = Round(landmark[best.id].q)
         /\ \A l \in Considered : Eligible(l) =>
              /\ landmark[best.id].q < landmark[l].q + HalfMetre
              /\ best.distanceM <= Round(landmark[l].q)
=============================================================================

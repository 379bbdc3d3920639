---------------------------- MODULE PhotosV1Proofs ----------------------------
(***************************************************************************)
(* Numbers stay fresh, uploads are kept and each try makes one report, for *)
(* any drafts, photographs and tries.  The invariant says what a handler   *)
(* under way has stored and has read, what its client waits for, and that  *)
(* a submission is a create handler or a report but not both.              *)
(***************************************************************************)
EXTENDS PhotosV1, TLAPS, FiniteSetTheorems, WellFoundedInduction

PhotoRow == [draft : Drafts \cup {Missing}, evidence : Keys \cup {NoKey}, photos : Seq(Keys)]
Composer == [step : {"draft", "creating", "put", "confirm", "confirming", "legacy", "cleared"},
             tries : Nat, number : Nat, photo : Nat]
PhotoJob == [draft : Drafts, what : {"create", "direct", "legacy"},
             step : {"find", "take", "ingest", "insert", "put", "read", "write", "done"},
             heard : BOOLEAN, try : Nat, number : Nat, photo : Nat,
             seen : Seq(Keys) \cup {<<c>> : c \in Nat \cup {Missing}}]

PhotosTypeOK ==
  /\ counter \in Nat \cup {Missing}
  /\ DOMAIN reports \subseteq Nat /\ IsFiniteSet(DOMAIN reports)
  /\ reports \in [DOMAIN reports -> PhotoRow]
  /\ bucket \subseteq Keys
  /\ composer \in [Drafts -> Composer]
  /\ jobs \subseteq PhotoJob /\ IsFiniteSet(jobs)
  /\ abandoned \in [Drafts -> Nat]
  /\ uploaded \subseteq (DOMAIN reports) \X Nat /\ doubted \subseteq Nat \X Nat /\ overlapped \subseteq Nat

Holds(j) == j.step \in {"ingest", "insert"}
Attaches(j) == j.what \in {"direct", "legacy"}
Pending(j) == Attaches(j) /\ j.step # "done"
Writes(j) == Attaches(j) /\ j.step = "write"
Uploading(c) == c.step \in {"put", "confirm", "confirming", "legacy"}

\* Numbers only grow.
NumbersGrow ==
  /\ counter \in Nat => \A n \in DOMAIN reports : n <= counter
  /\ \A j \in jobs : Holds(j) => counter \in Nat /\ j.number <= counter
  /\ NumbersAreFresh

\* A create handler: what it has stored, and the report it has made.
CreateStands(j) ==
  /\ j.step \in {"find", "take", "ingest", "insert", "done"}
  /\ j.step \in {"find", "take"} => j.photo = 0
  /\ j.step = "ingest" =>
       /\ j.draft \in Inline
       /\ j.photo <= PhotosOf[j.draft]
       /\ j.photo > 0 => Key(j.number, 1, "evidence") \in bucket
       /\ \A p \in 1..(j.photo - 1) : Key(j.number, p, "inline") \in bucket
  /\ j.step = "insert" /\ j.draft \in Inline =>
       /\ Key(j.number, 1, "evidence") \in bucket
       /\ \A p \in 1..PhotosOf[j.draft] : Key(j.number, p, "inline") \in bucket
  /\ j.step = "done" => j.number \in RowsOf(j.draft)

\* An attach handler: its report and photograph, and its object.
AttachStands(j) ==
  /\ j.step \in {"put", "read", "write", "done"}
  /\ j.draft \notin Inline /\ j.number \in RowsOf(j.draft)
  /\ j.number = composer[j.draft].number
  /\ j.photo \in 1..composer[j.draft].photo
  /\ j.photo = composer[j.draft].photo => composer[j.draft].step \notin {"put", "confirm"}
  /\ j.step \in {"read", "write"} => AttachKey(j) \in bucket
  /\ j.step = "write" => j.seen \in Seq(Keys) /\ Range(j.seen) \subseteq bucket

JobStands(j) == IF Attaches(j) THEN AttachStands(j) ELSE CreateStands(j)
JobsStand == \A j \in jobs : JobStands(j)

\* A client: the report it uploads to, and the photograph it has put.
ComposersStand ==
  \A d \in Drafts :
    LET c == composer[d] IN
    /\ c.step \in {"draft", "creating"} => c.photo = 0
    /\ Uploading(c) => d \notin Inline /\ c.number \in RowsOf(d) /\ c.photo > 0
    /\ c.step = "confirm" => Key(c.number, c.photo, "direct") \in bucket

\* A client listens to one handler at most, the one it has asked for.
HeardInTurn ==
  \A j \in jobs : j.heard =>
    /\ \A k \in jobs : k.heard /\ k.draft = j.draft => k = j
    /\ CASE j.what = "create" -> composer[j.draft].step = "creating"
         [] j.what = "direct" -> composer[j.draft].step = "confirming"
         [] j.what = "legacy" -> composer[j.draft].step = "legacy"
    /\ Attaches(j) => j.number = composer[j.draft].number /\ j.photo = composer[j.draft].photo

\* Handlers that have not overlapped write to the array they have read.
OverlapsAreKnown ==
  \A j \in jobs : Writes(j) /\ j.number \notin overlapped =>
    /\ j.seen = reports[j.number].photos
    /\ \A k \in jobs : Writes(k) /\ k.number = j.number => k = j

EvidenceIsFirst ==
  \A n \in DOMAIN reports : reports[n].evidence # NoKey => reports[n].evidence[2] = 1

DoneIsShown ==
  \A j \in jobs : Attaches(j) /\ j.step = "done" /\ j.number \notin overlapped =>
    \E k \in ShownKeys(j.number) : k[2] = j.photo

\* An array of an Android report, stored or read by a handler: what it shows is
\* behind the client, and a photograph the client has no doubt about is shown once
\* and no longer under way.
ArrayStands(n, s) ==
  LET d == reports[n].draft IN
  d \in Drafts \ Inline =>
    \A i \in 1..Len(s) :
      /\ composer[d].number = n /\ s[i][2] <= composer[d].photo
      /\ <<n, s[i][2]>> \notin doubted =>
           /\ s[i][2] = composer[d].photo => composer[d].step \notin {"put", "confirm"}
           /\ \A j \in jobs : Pending(j) /\ j.number = n => j.photo # s[i][2]
           /\ \A k \in 1..Len(s) : k # i => s[k][2] # s[i][2]

ArraysStand ==
  /\ \A n \in DOMAIN reports : ArrayStands(n, reports[n].photos)
  /\ \A j \in jobs : Writes(j) => ArrayStands(j.number, j.seen)
  /\ \A j, k \in jobs : /\ Attaches(j) /\ Attaches(k) /\ j.number = k.number /\ j.photo = k.photo
                        /\ <<j.number, j.photo>> \notin doubted
                        => j = k

\* Each submission is a create handler or a report at most.
Creating(d) == {j \in jobs : j.draft = d /\ j.what = "create" /\ j.step # "done"}
SubmissionsCount ==
  \A d \in Drafts :
    /\ Cardinality(RowsOf(d)) + Cardinality(Creating(d)) <= composer[d].tries
    /\ composer[d].tries <= abandoned[d] + (IF composer[d].step = "draft" THEN 0 ELSE 1)
    /\ composer[d].step = "cleared" => RowsOf(d) # {}

PhotosInv ==
  /\ PhotosTypeOK /\ NumbersGrow /\ JobsStand /\ ComposersStand /\ HeardInTurn
  /\ OverlapsAreKnown /\ EvidenceIsFirst /\ DoneIsShown /\ ArraysStand /\ SubmissionsCount
  /\ ShownIsStored /\ UploadedIsShown

\* Facts about finite sets: the largest of some numbers, and an image.
LEMMA LargestExists ==
  ASSUME NEW S \in SUBSET Nat, IsFiniteSet(S), S # {}
  PROVE  Largest(S) \in S /\ \A n \in S : n <= Largest(S)
<1> DEFINE T == {A \in SUBSET S : A # {} /\ ~ \E n \in A : \A k \in A : k <= n}
<1>1. T = {}
  <2> SUFFICES ASSUME T # {} PROVE FALSE
    OBVIOUS
  <2>1. IsWellFoundedOn(StrictSubsetOrdering(S), SUBSET S)
    BY FS_StrictSubsetOrderingWellFounded, FS_FiniteSubsetsOfFinite
  <2>2. T \subseteq SUBSET S
    OBVIOUS
  <2> HIDE DEF T
  <2>3. PICK A \in T : \A B \in T : <<B, A>> \notin StrictSubsetOrdering(S)
    BY <2>1, <2>2, WFMin
  <2> USE DEF T
  <2>4. PICK x \in A : x \in Nat
    OBVIOUS
  <2>5. A \ {x} \notin T
    BY <2>3, <2>4 DEF StrictSubsetOrdering
  <2>6. PICK y \in A : (A \ {x} = {} => y = x) /\ \A k \in A \ {x} : k <= y
    BY <2>5
  <2>7. x \in Nat /\ y \in Nat /\ \A k \in A : k \in Nat
    OBVIOUS
  <2>8. \A k \in A : k <= (IF x <= y THEN y ELSE x)
    BY <2>6, <2>7
  <2> QED
    BY <2>4, <2>8
<1>2. \E n \in S : \A k \in S : k <= n
  BY <1>1
<1> QED
  BY <1>2 DEF Largest

LEMMA ImageIsFinite ==
  ASSUME NEW S, IsFiniteSet(S), NEW m, NEW T, T \subseteq {m[a] : a \in S}
  PROVE  IsFiniteSet(T) /\ Cardinality(T) <= Cardinality(S)
<1> DEFINE f == [a \in S |-> m[a]]
           U == {m[a] : a \in S}
<1>1. f \in Surjection(S, U)
  BY DEF Surjection
<1> HIDE DEF f
<1>2. IsFiniteSet(U) /\ Cardinality(U) <= Cardinality(S)
  BY <1>1, FS_Surjection
<1>3. IsFiniteSet(T) /\ Cardinality(T) <= Cardinality(U)
  BY <1>2, FS_Subset
<1> QED
  BY <1>2, <1>3, FS_CardinalityType

LEMMA JobIs ==
  ASSUME NEW j \in PhotoJob
  PROVE  /\ j.draft \in Drafts /\ j.what \in {"create", "direct", "legacy"} /\ j.heard \in BOOLEAN
         /\ j.number \in Nat /\ j.photo \in Nat
BY DEF PhotoJob

-----------------------------------------------------------------------------
(* What the handlers become in a step: each remains, with some fields changed, *)
(* or is gone; and one may be new.                                             *)

Become(m, new) ==
  /\ m \in [jobs -> PhotoJob] /\ new \subseteq PhotoJob
  /\ jobs' \subseteq {m[a] : a \in jobs} \cup new /\ IsFiniteSet(jobs')

\* Nothing but whether its client listens.
Quieter(m) ==
  \A a \in jobs :
    /\ m[a].draft = a.draft /\ m[a].what = a.what /\ m[a].step = a.step
    /\ m[a].number = a.number /\ m[a].photo = a.photo /\ m[a].seen = a.seen
    /\ m[a].heard => m[a] = a

LEMMA AdvanceBecomes ==
  ASSUME PhotosTypeOK, NEW j \in jobs, NEW k \in PhotoJob,
         jobs' \subseteq (jobs \ {j}) \cup {k}
  PROVE  Become([a \in jobs |-> IF a = j THEN k ELSE a], {})
<1>1. IsFiniteSet((jobs \ {j}) \cup {k})
  BY FS_AddElement, FS_RemoveElement DEF PhotosTypeOK
<1>2. IsFiniteSet(jobs')
  BY <1>1, FS_Subset
<1> QED
  BY <1>2 DEF Become, PhotosTypeOK

LEMMA SameBecomes ==
  ASSUME PhotosTypeOK, NEW new \in SUBSET PhotoJob, IsFiniteSet(new), jobs' \subseteq jobs \cup new
  PROVE  Become([a \in jobs |-> a], new) /\ Quieter([a \in jobs |-> a])
<1>1. IsFiniteSet(jobs \cup new)
  BY FS_Union DEF PhotosTypeOK
<1>2. IsFiniteSet(jobs')
  BY <1>1, FS_Subset
<1> QED
  BY <1>2 DEF Become, Quieter, PhotosTypeOK

\* A client stops listening.
Quieted(d) == [a \in jobs |-> IF a.draft = d /\ a.heard THEN [a EXCEPT !.heard = FALSE] ELSE a]

LEMMA UnheardBecomes ==
  ASSUME PhotosTypeOK, NEW d \in Drafts, NEW new \in SUBSET PhotoJob, IsFiniteSet(new),
         jobs' = Unheard(d) \cup new
  PROVE  /\ Become(Quieted(d), new) /\ Quieter(Quieted(d))
         /\ \A b \in jobs' : b.heard /\ b.draft = d => b \in new
<1>1. ASSUME NEW a \in jobs, NEW q, q = [a EXCEPT !.heard = FALSE]
      PROVE  /\ q \in PhotoJob /\ q.draft = a.draft /\ q.what = a.what /\ q.step = a.step
             /\ q.number = a.number /\ q.photo = a.photo /\ q.seen = a.seen /\ ~q.heard
  <2>1. a \in PhotoJob
    BY DEF PhotosTypeOK
  <2>2. q \in PhotoJob
    BY <1>1, <2>1, FALSE \in BOOLEAN, Zenon DEF PhotoJob
  <2> QED
    BY <1>1, <2>1, <2>2 DEF PhotoJob
<1>2. Quieted(d) \in [jobs -> PhotoJob]
  BY <1>1 DEF Quieted, PhotosTypeOK
<1>3. Quieter(Quieted(d))
  <2>1. SUFFICES ASSUME NEW a \in jobs
                 PROVE  LET b == Quieted(d)[a] IN
                        /\ b.draft = a.draft /\ b.what = a.what /\ b.step = a.step
                        /\ b.number = a.number /\ b.photo = a.photo /\ b.seen = a.seen
                        /\ b.heard => b = a
    BY DEF Quieter
  <2>2. CASE a.draft = d /\ a.heard
    <3>1. PICK q : q = [a EXCEPT !.heard = FALSE]
      OBVIOUS
    <3>2. Quieted(d)[a] = q
      BY <2>2, <3>1 DEF Quieted
    <3> QED
      BY <1>1, <3>1, <3>2
  <2>3. CASE ~(a.draft = d /\ a.heard)
    <3>1. Quieted(d)[a] = a
      BY <2>3 DEF Quieted
    <3> QED
      BY <3>1
  <2> QED
    BY <2>2, <2>3
<1>4. Unheard(d) \subseteq {Quieted(d)[a] : a \in jobs}
  <2>1. ASSUME NEW b \in Unheard(d) PROVE \E a \in jobs : Quieted(d)[a] = b
    BY <2>1 DEF Unheard, Quieted
  <2> QED
    BY <2>1
<1>5. IsFiniteSet(jobs')
  <2>1. IsFiniteSet(Unheard(d))
    BY <1>4, ImageIsFinite DEF PhotosTypeOK
  <2> QED
    BY <2>1, FS_Union
<1>6. ASSUME NEW b \in Unheard(d), b.heard, b.draft = d PROVE FALSE
  <2>1. CASE b \in jobs /\ (b.draft # d \/ ~b.heard)
    BY <1>6, <2>1
  <2>2. CASE \E a \in jobs : b = [a EXCEPT !.heard = FALSE]
    BY <1>1, <1>6, <2>2
  <2> QED
    BY <2>1, <2>2 DEF Unheard
<1> QED
  BY <1>2, <1>3, <1>4, <1>5, <1>6 DEF Become

LEMMA RolesAreKept ==
  ASSUME NEW a, NEW b, b.what = a.what, b.step = a.step
  PROVE  /\ Attaches(b) <=> Attaches(a)
         /\ Pending(b) <=> Pending(a)
         /\ Writes(b) <=> Writes(a)
         /\ Holds(b) <=> Holds(a)
BY DEF Attaches, Pending, Writes, Holds

-----------------------------------------------------------------------------
(* What stays true in a step, part by part *)

\* Objects and reports stay; a client goes on with its report, photograph by photograph.
WorldGrows ==
  /\ bucket \subseteq bucket'
  /\ \A n \in DOMAIN reports : n \in DOMAIN reports' /\ reports'[n].draft = reports[n].draft
ClientsPass ==
  \A d \in Drafts :
    \/ composer[d].photo = 0
    \/ /\ composer'[d].number = composer[d].number /\ composer'[d].photo >= composer[d].photo
       /\ composer'[d].photo = composer[d].photo /\ composer'[d].step \in {"put", "confirm"}
            => composer[d].step \in {"put", "confirm"}

LEMMA RowsStay ==
  ASSUME WorldGrows, NEW d PROVE RowsOf(d) \subseteq RowsOf(d)'
BY DEF WorldGrows, RowsOf

\* Numbers: those held were held before, and no report is new.
LEMMA NumbersStay ==
  ASSUME NumbersGrow, NEW m, UNCHANGED counter, DOMAIN reports' = DOMAIN reports,
         \A b \in jobs' : Holds(b) => \E a \in jobs : Holds(a) /\ a.number = b.number /\ b = m[a]
  PROVE  NumbersGrow'
<1>1. ASSUME NEW b \in jobs', Holds(b)
      PROVE  counter \in Nat /\ b.number <= counter /\ b.number \notin DOMAIN reports
  BY <1>1 DEF NumbersGrow, NumbersAreFresh, Holds
<1>2. ASSUME NEW b \in jobs', NEW c \in jobs', Holds(b), Holds(c), b.number = c.number PROVE b = c
  <2>1. PICK a \in jobs : Holds(a) /\ a.number = b.number /\ b = m[a]
    BY <1>2
  <2>2. PICK e \in jobs : Holds(e) /\ e.number = c.number /\ c = m[e]
    BY <1>2
  <2>3. a = e
    BY <1>2, <2>1, <2>2 DEF NumbersGrow, NumbersAreFresh, Holds
  <2> QED
    BY <2>1, <2>2, <2>3
<1>3. NumbersAreFresh'
  BY <1>1, <1>2 DEF NumbersAreFresh, Holds
<1> QED
  BY <1>1, <1>3 DEF NumbersGrow, Holds

LEMMA StandsStay ==
  ASSUME PhotosTypeOK, NEW a \in jobs, JobStands(a), WorldGrows, ClientsPass,
         composer' \in [Drafts -> Composer],
         NEW b, b.draft = a.draft, b.what = a.what, b.step = a.step,
         b.number = a.number, b.photo = a.photo, b.seen = a.seen
  PROVE  JobStands(b)'
<1>1. a.draft \in Drafts /\ a.photo \in Nat /\ a.number \in Nat
  BY JobIs DEF PhotosTypeOK
<1>2. Attaches(b) <=> Attaches(a)
  BY RolesAreKept
<1>3. CASE Attaches(a)
  <2>1. AttachStands(a)
    BY <1>3 DEF JobStands
  <2>2. PICK c \in Composer : c = composer[a.draft]
    BY <1>1 DEF PhotosTypeOK
  <2>3. PICK e \in Composer : e = composer'[a.draft]
    BY <1>1
  <2>4. c.photo \in Nat /\ e.photo \in Nat
    BY DEF Composer
  <2>5. a.photo \in 1..c.photo
    BY <2>1, <2>2 DEF AttachStands
  <2>6. /\ e.number = c.number /\ e.photo >= c.photo
        /\ e.photo = c.photo /\ e.step \in {"put", "confirm"} => c.step \in {"put", "confirm"}
    BY <1>1, <2>2, <2>3, <2>4, <2>5 DEF ClientsPass
  <2>7. /\ b.number = e.number /\ b.photo \in 1..e.photo
        /\ b.photo = e.photo => e.step \notin {"put", "confirm"}
    BY <1>1, <2>1, <2>2, <2>4, <2>5, <2>6 DEF AttachStands
  <2>8. b.number \in RowsOf(b.draft)'
    BY <2>1, RowsStay DEF AttachStands
  <2>9. AttachKey(b) = AttachKey(a)
    BY DEF AttachKey
  <2>10. AttachStands(b)'
    BY <2>1, <2>3, <2>7, <2>8, <2>9 DEF AttachStands, WorldGrows
  <2> QED
    BY <1>2, <1>3, <2>10 DEF JobStands, Attaches
<1>4. CASE ~Attaches(a)
  <2>1. CreateStands(a)
    BY <1>4 DEF JobStands
  <2>2. a.step = "done" => b.number \in RowsOf(b.draft)'
    BY <2>1, RowsStay DEF CreateStands
  <2>3. CreateStands(b)'
    BY <2>1, <2>2 DEF CreateStands, WorldGrows
  <2> QED
    BY <1>2, <1>4, <2>3 DEF JobStands, Attaches
<1> QED
  BY <1>3, <1>4

\* A client that does nothing, while no object and no report is lost.
LEMMA ClientStands ==
  ASSUME NEW d, NEW c,
         /\ c.step \in {"draft", "creating"} => c.photo = 0
         /\ Uploading(c) => d \notin Inline /\ c.number \in RowsOf(d) /\ c.photo > 0
         /\ c.step = "confirm" => Key(c.number, c.photo, "direct") \in bucket,
         WorldGrows
  PROVE  /\ c.step \in {"draft", "creating"} => c.photo = 0
         /\ Uploading(c) => d \notin Inline /\ c.number \in RowsOf(d)' /\ c.photo > 0
         /\ c.step = "confirm" => Key(c.number, c.photo, "direct") \in bucket'
BY RowsStay DEF WorldGrows

LEMMA ComposersStay == ASSUME ComposersStand, WorldGrows, UNCHANGED composer PROVE ComposersStand'
<1>1. SUFFICES ASSUME NEW d \in Drafts
               PROVE  LET c == composer[d] IN
                      /\ c.step \in {"draft", "creating"} => c.photo = 0
                      /\ Uploading(c) => d \notin Inline /\ c.number \in RowsOf(d)' /\ c.photo > 0
                      /\ c.step = "confirm" => Key(c.number, c.photo, "direct") \in bucket'
  BY DEF ComposersStand, Uploading
<1> QED
  BY ClientStands DEF ComposersStand

\* The array of a report no handler has written to.
LEMMA ArrayStays ==
  ASSUME PhotosTypeOK, NEW n \in DOMAIN reports, NEW s \in Seq(Keys), ArrayStands(n, s),
         reports'[n].draft = reports[n].draft, doubted \subseteq doubted', ClientsPass,
         composer' \in [Drafts -> Composer],
         \A j \in jobs' : Pending(j) /\ j.number = n =>
           \/ \E a \in jobs : Pending(a) /\ a.number = n /\ a.photo = j.photo
           \/ <<n, j.photo>> \in doubted'
           \/ \A i \in 1..Len(s) : <<n, j.photo>> \notin doubted => s[i][2] # j.photo
  PROVE  ArrayStands(n, s)'
<1> SUFFICES ASSUME NEW d, d = reports[n].draft, d \in Drafts \ Inline, NEW i \in 1..Len(s)
    PROVE  /\ composer'[d].number = n /\ s[i][2] <= composer'[d].photo
           /\ <<n, s[i][2]>> \notin doubted' =>
                /\ s[i][2] = composer'[d].photo => composer'[d].step \notin {"put", "confirm"}
                /\ \A j \in jobs' : Pending(j) /\ j.number = n => j.photo # s[i][2]
                /\ \A k \in 1..Len(s) : k # i => s[k][2] # s[i][2]
  BY DEF ArrayStands, Pending, Attaches
<1>1. s[i] \in Keys
  OBVIOUS
<1>2. PICK p \in Nat \ {0} : p = s[i][2]
  BY <1>1 DEF Keys
<1>3. /\ composer[d].number = n /\ p <= composer[d].photo
      /\ <<n, p>> \notin doubted =>
           /\ p = composer[d].photo => composer[d].step \notin {"put", "confirm"}
           /\ \A j \in jobs : Pending(j) /\ j.number = n => j.photo # p
           /\ \A k \in 1..Len(s) : k # i => s[k][2] # p
  BY <1>2 DEF ArrayStands
<1>4. PICK c \in Composer : c = composer[d]
  BY DEF PhotosTypeOK
<1>5. PICK e \in Composer : e = composer'[d]
  OBVIOUS
<1>6. c.photo \in Nat /\ e.photo \in Nat
  BY DEF Composer
<1>7. /\ e.number = c.number /\ e.photo >= c.photo
      /\ e.photo = c.photo /\ e.step \in {"put", "confirm"} => c.step \in {"put", "confirm"}
  BY <1>3, <1>4, <1>5, <1>6 DEF ClientsPass
<1>8. ASSUME <<n, p>> \notin doubted', NEW j \in jobs', Pending(j), j.number = n PROVE j.photo # p
  BY <1>2, <1>3, <1>8
<1>9. e.number = n /\ p <= e.photo /\ (<<n, p>> \notin doubted' /\ p = e.photo => e.step \notin {"put", "confirm"})
  BY <1>3, <1>4, <1>6, <1>7
<1> QED
  BY <1>2, <1>3, <1>5, <1>8, <1>9

LEMMA ArraysStay ==
  ASSUME PhotosTypeOK, JobsStand, ArraysStand, NEW m, NEW new, Become(m, new), UNCHANGED reports,
         doubted \subseteq doubted', ClientsPass, composer' \in [Drafts -> Composer],
         \A a \in jobs :
           /\ Attaches(m[a]) <=> Attaches(a)
           /\ Attaches(a) => m[a].number = a.number /\ m[a].photo = a.photo
           /\ Pending(m[a]) => Pending(a)
           /\ Writes(m[a]) /\ (~Writes(a) \/ m[a].seen # a.seen) =>
                m[a].seen = reports[a.number].photos /\ a.number \in DOMAIN reports,
         \A b \in new :
           /\ ~Writes(b) /\ new = {b}
           /\ Attaches(b) => \/ <<b.number, b.photo>> \in doubted'
                             \/ /\ b.number \in RowsOf(b.draft) /\ b.draft \in Drafts \ Inline
                                /\ composer[b.draft].step \in {"put", "confirm"}
                                /\ composer[b.draft].number = b.number
                                /\ composer[b.draft].photo = b.photo
  PROVE  ArraysStand'
<1>1. ASSUME NEW b \in jobs' PROVE (\E a \in jobs : b = m[a]) \/ b \in new
  BY DEF Become
\* No array shows what a client uploads next, and no handler attaches it.
<1>2. ASSUME NEW b \in new, Attaches(b), <<b.number, b.photo>> \notin doubted'
      PROVE  /\ \A a \in jobs : Attaches(a) /\ a.number = b.number => a.photo # b.photo
             /\ \A s \in Seq(Keys) : ArrayStands(b.number, s) => \A i \in 1..Len(s) : s[i][2] # b.photo
  <2>1. /\ b.number \in RowsOf(b.draft) /\ b.draft \in Drafts \ Inline
        /\ composer[b.draft].step \in {"put", "confirm"} /\ composer[b.draft].number = b.number
        /\ composer[b.draft].photo = b.photo
    BY <1>2
  <2>2. ASSUME NEW a \in jobs, Attaches(a), a.number = b.number, a.photo = b.photo PROVE FALSE
    <3>1. AttachStands(a)
      BY <2>2 DEF JobsStand, JobStands
    <3>2. a.draft = b.draft
      BY <2>1, <2>2, <3>1 DEF AttachStands, RowsOf
    <3> QED
      BY <2>1, <2>2, <3>1, <3>2 DEF AttachStands
  <2>3. ASSUME NEW s \in Seq(Keys), ArrayStands(b.number, s), NEW i \in 1..Len(s), s[i][2] = b.photo
        PROVE  FALSE
    <3>1. reports[b.number].draft = b.draft
      BY <2>1 DEF RowsOf
    <3>2. <<b.number, b.photo>> \notin doubted
      BY <1>2
    <3> QED
      BY <2>1, <2>3, <3>1, <3>2 DEF ArrayStands
  <2> QED
    BY <2>2, <2>3
<1>3. ASSUME NEW n \in DOMAIN reports, NEW s \in Seq(Keys), ArrayStands(n, s) PROVE ArrayStands(n, s)'
  <2>1. ASSUME NEW b \in jobs', Pending(b), b.number = n
        PROVE  \/ \E a \in jobs : Pending(a) /\ a.number = n /\ a.photo = b.photo
               \/ <<n, b.photo>> \in doubted'
               \/ \A i \in 1..Len(s) : <<n, b.photo>> \notin doubted => s[i][2] # b.photo
    <3>1. CASE \E a \in jobs : b = m[a]
      <4>1. PICK a \in jobs : b = m[a]
        BY <3>1
      <4>2. Pending(a) /\ a.number = n /\ a.photo = b.photo
        BY <2>1, <4>1 DEF Pending
      <4> QED
        BY <4>2
    <3>2. CASE b \in new
      BY <1>2, <1>3, <2>1, <3>2 DEF Pending
    <3> QED
      BY <1>1, <3>1, <3>2
  <2> QED
    BY <1>3, <2>1, ArrayStays
<1>4. ASSUME NEW n \in DOMAIN reports' PROVE ArrayStands(n, reports[n].photos)'
  <2>1. reports[n].photos \in Seq(Keys) /\ ArrayStands(n, reports[n].photos)
    BY DEF PhotosTypeOK, PhotoRow, ArraysStand
  <2>2. ArrayStands(n, reports[n].photos)'
    <3>1. PICK s \in Seq(Keys) : s = reports[n].photos
      BY <2>1
    <3>2. ArrayStands(n, s)'
      BY <1>3, <2>1, <3>1
    <3> QED
      BY <3>1, <3>2 DEF ArrayStands
  <2> QED
    BY <2>2
<1>5. ASSUME NEW b \in jobs', Writes(b) PROVE ArrayStands(b.number, b.seen)'
  <2>1. PICK a \in jobs : b = m[a]
    BY <1>1, <1>5
  <2>2. CASE Writes(a) /\ b.seen = a.seen
    <3>1. AttachStands(a) /\ ArrayStands(a.number, a.seen)
      BY <2>2 DEF Writes, JobsStand, JobStands, ArraysStand
    <3>2. a.number \in DOMAIN reports /\ a.seen \in Seq(Keys)
      BY <2>2, <3>1 DEF AttachStands, RowsOf, Writes
    <3>3. ArrayStands(a.number, a.seen)'
      BY <1>3, <3>1, <3>2
    <3>4. b.number = a.number
      BY <2>1, <2>2 DEF Writes
    <3> QED
      BY <2>2, <3>3, <3>4
  <2>3. CASE ~(Writes(a) /\ b.seen = a.seen)
    <3>1. b.number = a.number /\ b.seen = reports[a.number].photos /\ a.number \in DOMAIN reports
      BY <1>5, <2>1, <2>3 DEF Writes
    <3>2. ArrayStands(a.number, reports[a.number].photos)'
      BY <1>4, <3>1
    <3> QED
      BY <3>1, <3>2 DEF ArrayStands
  <2> QED
    BY <2>2, <2>3
<1>6. ASSUME NEW b \in jobs', NEW c \in jobs', Attaches(b), Attaches(c),
             b.number = c.number, b.photo = c.photo, <<b.number, b.photo>> \notin doubted'
      PROVE  b = c
  <2>1. CASE b \in new \/ c \in new
    BY <1>1, <1>2, <1>6, <2>1
  <2>2. CASE b \notin new /\ c \notin new
    <3>1. PICK a \in jobs : b = m[a]
      BY <1>1, <2>2
    <3>2. PICK e \in jobs : c = m[e]
      BY <1>1, <2>2
    <3>3. a = e
      BY <1>6, <3>1, <3>2 DEF ArraysStand
    <3> QED
      BY <3>1, <3>2, <3>3
  <2> QED
    BY <2>1, <2>2
<1> QED
  BY <1>4, <1>5, <1>6 DEF ArraysStand, Writes, Attaches

\* Submissions: no handler that creates is new, and no report.
LEMMA CountsStay ==
  ASSUME PhotosTypeOK, SubmissionsCount, NEW m, NEW new, Become(m, new),
         \A d \in Drafts : RowsOf(d)' = RowsOf(d),
         \A a \in jobs : m[a].what = "create" /\ m[a].step # "done" =>
           a.what = "create" /\ a.step # "done" /\ m[a].draft = a.draft,
         NEW d \in Drafts, \A b \in new : b.what = "create" => b.draft # d
  PROVE  Cardinality(RowsOf(d)') + Cardinality(Creating(d)') <= composer[d].tries
<1>1. IsFiniteSet(Creating(d)) /\ IsFiniteSet(RowsOf(d))
  BY FS_Subset DEF Creating, RowsOf, PhotosTypeOK
<1>2. Creating(d)' \subseteq {m[a] : a \in Creating(d)}
  BY DEF Creating, Become
<1>3. IsFiniteSet(Creating(d)') /\ Cardinality(Creating(d)') <= Cardinality(Creating(d))
  BY <1>1, <1>2, ImageIsFinite
<1>4. Cardinality(RowsOf(d)) + Cardinality(Creating(d)) <= composer[d].tries
  BY DEF SubmissionsCount
<1>5. composer[d].tries \in Nat
  BY DEF PhotosTypeOK, Composer
<1>6. RowsOf(d)' = RowsOf(d)
  OBVIOUS
<1>7. /\ Cardinality(RowsOf(d)) \in Nat /\ Cardinality(Creating(d)) \in Nat
      /\ Cardinality(Creating(d)') \in Nat
  BY <1>1, <1>3, FS_CardinalityType
<1> QED
  BY <1>3, <1>4, <1>5, <1>6, <1>7

-----------------------------------------------------------------------------
(* A step of a client: no report and no number changes *)

ServerStands ==
  /\ NumbersGrow /\ JobsStand /\ OverlapsAreKnown /\ EvidenceIsFirst /\ DoneIsShown
  /\ ArraysStand /\ ShownIsStored

LEMMA ClientSteps ==
  ASSUME PhotosInv, NEW m, NEW new, Become(m, new), Quieter(m),
         UNCHANGED <<counter, reports, overlapped>>, bucket \subseteq bucket', doubted \subseteq doubted',
         ClientsPass, composer' \in [Drafts -> Composer],
         \A b \in new :
           /\ JobStands(b)' /\ b.step \in {"find", "put", "read"} /\ new = {b}
           /\ Attaches(b) => \/ <<b.number, b.photo>> \in doubted'
                             \/ /\ b.number \in RowsOf(b.draft) /\ b.draft \in Drafts \ Inline
                                /\ composer[b.draft].step \in {"put", "confirm"}
                                /\ composer[b.draft].number = b.number
                                /\ composer[b.draft].photo = b.photo
  PROVE  ServerStands'
<1>1. ASSUME NEW b \in jobs', b \notin new PROVE \E a \in jobs : b = m[a]
  BY <1>1 DEF Become
<1>2. ASSUME NEW a \in jobs
      PROVE  /\ m[a].draft = a.draft /\ m[a].what = a.what /\ m[a].step = a.step
             /\ m[a].number = a.number /\ m[a].photo = a.photo /\ m[a].seen = a.seen
             /\ Attaches(m[a]) <=> Attaches(a)
             /\ Pending(m[a]) <=> Pending(a)
             /\ Writes(m[a]) <=> Writes(a)
             /\ Holds(m[a]) <=> Holds(a)
  BY RolesAreKept DEF Quieter
<1>3. \A b \in new : ~Writes(b) /\ ~Holds(b) /\ b.step # "done"
  BY DEF Writes, Holds
<1>4. NumbersGrow'
  <2>1. ASSUME NEW b \in jobs', Holds(b)
        PROVE  \E a \in jobs : Holds(a) /\ a.number = b.number /\ b = m[a]
    BY <1>1, <1>2, <1>3, <2>1
  <2> QED
    BY <2>1, NumbersStay DEF PhotosInv
<1>5. JobsStand'
  <2>1. WorldGrows
    BY DEF WorldGrows
  <2>2. ASSUME NEW b \in jobs' PROVE JobStands(b)'
    <3>1. CASE b \in new
      BY <3>1
    <3>2. CASE b \notin new
      <4>1. PICK a \in jobs : b = m[a]
        BY <1>1, <3>2
      <4>2. JobStands(a)
        BY DEF PhotosInv, JobsStand
      <4> QED
        BY <1>2, <2>1, <4>1, <4>2, StandsStay DEF PhotosInv
    <3> QED
      BY <3>1, <3>2
  <2> QED
    BY <2>2 DEF JobsStand
<1>6. OverlapsAreKnown'
  <2>1. ASSUME NEW b \in jobs', Writes(b), b.number \notin overlapped'
        PROVE  /\ b.seen = reports'[b.number].photos
               /\ \A c \in jobs' : Writes(c) /\ c.number = b.number => c = b
    <3>1. PICK a \in jobs : b = m[a] /\ Writes(a) /\ a.number = b.number /\ a.seen = b.seen
      BY <1>1, <1>2, <1>3, <2>1
    <3>2. a.seen = reports[a.number].photos /\ \A c \in jobs : Writes(c) /\ c.number = a.number => c = a
      BY <2>1, <3>1 DEF PhotosInv, OverlapsAreKnown
    <3>3. ASSUME NEW c \in jobs', Writes(c), c.number = b.number PROVE c = b
      <4>1. PICK e \in jobs : c = m[e] /\ Writes(e) /\ e.number = c.number
        BY <1>1, <1>2, <1>3, <3>3
      <4> QED
        BY <3>1, <3>2, <3>3, <4>1
    <3> QED
      BY <3>1, <3>2, <3>3
  <2> QED
    BY <2>1 DEF OverlapsAreKnown, Writes, Attaches
<1>7. DoneIsShown'
  <2>1. ASSUME NEW b \in jobs', Attaches(b), b.step = "done", b.number \notin overlapped'
        PROVE  \E k \in ShownKeys(b.number)' : k[2] = b.photo
    <3>1. PICK a \in jobs : b = m[a] /\ Attaches(a) /\ a.step = "done" /\ a.number = b.number /\ a.photo = b.photo
      BY <1>1, <1>2, <1>3, <2>1
    <3>2. \E k \in ShownKeys(a.number) : k[2] = a.photo
      BY <2>1, <3>1 DEF PhotosInv, DoneIsShown
    <3>3. ShownKeys(b.number)' = ShownKeys(b.number)
      BY DEF ShownKeys
    <3> QED
      BY <3>1, <3>2, <3>3
  <2> QED
    BY <2>1 DEF DoneIsShown, Attaches
<1>8. ArraysStand'
  <2>1. \A a \in jobs :
          /\ Attaches(m[a]) <=> Attaches(a)
          /\ Attaches(a) => m[a].number = a.number /\ m[a].photo = a.photo
          /\ Pending(m[a]) => Pending(a)
          /\ ~(Writes(m[a]) /\ (~Writes(a) \/ m[a].seen # a.seen))
    BY <1>2
  <2> QED
    BY <1>3, <2>1, ArraysStay DEF PhotosInv
<1>9. EvidenceIsFirst' /\ ShownIsStored'
  BY DEF PhotosInv, EvidenceIsFirst, ShownIsStored, ShownKeys
<1> QED
  BY <1>4, <1>5, <1>6, <1>7, <1>8, <1>9 DEF ServerStands

LEMMA ClientHears ==
  ASSUME PhotosTypeOK, HeardInTurn, NEW m, NEW new, Become(m, new), Quieter(m), NEW d \in Drafts,
         \A e \in Drafts \ {d} : composer'[e] = composer[e],
         \A b \in jobs' : b.heard /\ b.draft = d => b \in new,
         \A b \in new :
           /\ new = {b} /\ b.draft = d
           /\ b.what = "create" => composer'[d].step = "creating"
           /\ b.what = "direct" => composer'[d].step = "confirming"
           /\ b.what = "legacy" => composer'[d].step = "legacy"
           /\ Attaches(b) => b.number = composer'[d].number /\ b.photo = composer'[d].photo
  PROVE  HeardInTurn'
<1>1. ASSUME NEW b \in jobs', b.heard PROVE \/ b \in new
                                            \/ b \in jobs /\ b.draft \in Drafts \ {d}
  <2>1. CASE b \in new
    BY <2>1
  <2>2. CASE b \notin new
    <3>1. PICK a \in jobs : b = m[a]
      BY <2>2 DEF Become
    <3>2. b = a
      BY <1>1, <3>1 DEF Quieter
    <3>3. b.draft \in Drafts
      BY <3>2, JobIs DEF PhotosTypeOK
    <3> QED
      BY <1>1, <2>2, <3>2, <3>3
  <2> QED
    BY <2>1, <2>2
<1>2. \A b \in new : b.what \in {"create", "direct", "legacy"}
  BY JobIs DEF Become
<1>3. ASSUME NEW b \in jobs', b.heard
      PROVE  \A c \in jobs' : c.heard /\ c.draft = b.draft => c = b
  BY <1>1, <1>3 DEF HeardInTurn
<1>4. ASSUME NEW b \in jobs', b.heard
      PROVE  /\ b.what = "create" => composer'[b.draft].step = "creating"
             /\ b.what = "direct" => composer'[b.draft].step = "confirming"
             /\ b.what = "legacy" => composer'[b.draft].step = "legacy"
             /\ b.what \in {"create", "direct", "legacy"}
             /\ Attaches(b) => b.number = composer'[b.draft].number /\ b.photo = composer'[b.draft].photo
  <2>1. CASE b \in new
    BY <1>2, <2>1
  <2>2. CASE b \in jobs /\ b.draft \in Drafts \ {d}
    <3>1. composer'[b.draft] = composer[b.draft] /\ b.what \in {"create", "direct", "legacy"}
      BY <2>2, JobIs DEF PhotosTypeOK
    <3>2. /\ b.what = "create" => composer[b.draft].step = "creating"
          /\ b.what = "direct" => composer[b.draft].step = "confirming"
          /\ b.what = "legacy" => composer[b.draft].step = "legacy"
          /\ Attaches(b) => b.number = composer[b.draft].number /\ b.photo = composer[b.draft].photo
      BY <1>4, <2>2, <3>1 DEF HeardInTurn
    <3> QED
      BY <3>1, <3>2
  <2> QED
    BY <1>1, <1>4, <2>1, <2>2
<1>5. ASSUME NEW b \in jobs', b.heard
      PROVE  CASE b.what = "create" -> composer'[b.draft].step = "creating"
               [] b.what = "direct" -> composer'[b.draft].step = "confirming"
               [] b.what = "legacy" -> composer'[b.draft].step = "legacy"
  BY <1>4, <1>5
<1> QED
  BY <1>3, <1>4, <1>5 DEF HeardInTurn, Attaches

\* What a step of client d has to show: for its composer, the handlers, what is stored,
\* the submissions and the photographs it has been told of.
ClientMoves(d, c) ==
  /\ c \in Composer /\ composer' = [composer EXCEPT ![d] = c]
  /\ \/ composer[d].photo = 0
     \/ /\ c.number = composer[d].number /\ c.photo >= composer[d].photo
        /\ c.photo = composer[d].photo /\ c.step \in {"put", "confirm"}
             => composer[d].step \in {"put", "confirm"}
  /\ c.step \in {"draft", "creating"} => c.photo = 0
  /\ Uploading(c) => d \notin Inline /\ c.number \in RowsOf(d) /\ c.photo > 0
  /\ c.step = "confirm" => Key(c.number, c.photo, "direct") \in bucket'
  /\ c.step = "cleared" => RowsOf(d) # {}

HandlersFollow(d, c, m, new) ==
  /\ Become(m, new) /\ Quieter(m)
  /\ \A b \in jobs' : b.heard /\ b.draft = d => b \in new
  /\ \A b \in new :
       /\ JobStands(b)' /\ b.step \in {"find", "put", "read"} /\ new = {b} /\ b.draft = d
       /\ b.what = "create" => c.step = "creating"
       /\ b.what = "direct" => c.step = "confirming" /\ composer[d].step \in {"put", "confirm"}
       /\ b.what = "legacy" => c.step = "legacy" /\ <<b.number, b.photo>> \in doubted'
       /\ Attaches(b) => /\ b.number = c.number /\ b.photo = c.photo
                         /\ composer[d].number = c.number /\ composer[d].photo = c.photo
                         /\ d \notin Inline /\ c.number \in RowsOf(d)

StoreStays ==
  /\ UNCHANGED <<counter, reports, overlapped>>
  /\ bucket \subseteq bucket' /\ bucket' \subseteq Keys
  /\ doubted \subseteq doubted' /\ doubted' \subseteq Nat \X Nat

SubmissionsAdd(d, c) ==
  /\ abandoned' \in [Drafts -> Nat] /\ \A e \in Drafts \ {d} : abandoned'[e] = abandoned[e]
  /\ Cardinality(RowsOf(d)') + Cardinality(Creating(d)') <= c.tries
  /\ c.tries <= abandoned'[d] + (IF c.step = "draft" THEN 0 ELSE 1)

UploadsAdd ==
  /\ uploaded' \subseteq (DOMAIN reports) \X Nat
  /\ \A u \in uploaded' : u \in uploaded \/ u[1] \in overlapped \/ \E k \in ShownKeys(u[1]) : k[2] = u[2]

LEMMA ClientKeeps ==
  ASSUME PhotosInv, NEW d \in Drafts, NEW c, NEW m, NEW new,
         ClientMoves(d, c), HandlersFollow(d, c, m, new), StoreStays, SubmissionsAdd(d, c), UploadsAdd
  PROVE  PhotosInv'
<1> USE DEF ClientMoves, HandlersFollow, StoreStays, SubmissionsAdd, UploadsAdd
<1>1. composer' \in [Drafts -> Composer] /\ composer'[d] = c /\ \A e \in Drafts \ {d} : composer'[e] = composer[e]
  BY DEF PhotosInv, PhotosTypeOK
<1>2. PhotosTypeOK'
  <2>1. jobs' \subseteq PhotoJob /\ IsFiniteSet(jobs')
    BY DEF Become
  <2> QED
    BY <1>1, <2>1 DEF PhotosInv, PhotosTypeOK
<1>3. ClientsPass
  <2>1. ASSUME NEW e \in Drafts \ {d} PROVE composer'[e] = composer[e] /\ composer[e].photo \in Nat
    BY <1>1 DEF PhotosInv, PhotosTypeOK, Composer
  <2> QED
    BY <1>1, <2>1 DEF ClientsPass
<1>4. ServerStands'
  <2>1. \A b \in new :
          /\ JobStands(b)' /\ b.step \in {"find", "put", "read"} /\ new = {b}
          /\ Attaches(b) => \/ <<b.number, b.photo>> \in doubted'
                            \/ /\ b.number \in RowsOf(b.draft) /\ b.draft \in Drafts \ Inline
                               /\ composer[b.draft].step \in {"put", "confirm"}
                               /\ composer[b.draft].number = b.number
                               /\ composer[b.draft].photo = b.photo
    BY DEF Attaches
  <2> QED
    BY <1>1, <1>3, <2>1, ClientSteps
<1>5. ComposersStand'
  <2>1. WorldGrows
    BY DEF WorldGrows
  <2>2. ASSUME NEW e \in Drafts
        PROVE  /\ composer'[e].step \in {"draft", "creating"} => composer'[e].photo = 0
               /\ Uploading(composer'[e]) => /\ e \notin Inline /\ composer'[e].number \in RowsOf(e)'
                                             /\ composer'[e].photo > 0
               /\ composer'[e].step = "confirm" =>
                    Key(composer'[e].number, composer'[e].photo, "direct") \in bucket'
    <3>1. CASE e = d
      BY <1>1, <2>1, <3>1, RowsStay
    <3>2. CASE e # d
      <4>1. composer'[e] = composer[e]
        BY <1>1, <3>2
      <4>2. /\ composer[e].step \in {"draft", "creating"} => composer[e].photo = 0
            /\ Uploading(composer[e]) => e \notin Inline /\ composer[e].number \in RowsOf(e) /\ composer[e].photo > 0
            /\ composer[e].step = "confirm" => Key(composer[e].number, composer[e].photo, "direct") \in bucket
        BY DEF PhotosInv, ComposersStand
      <4> QED
        BY <2>1, <4>1, <4>2, ClientStands
    <3> QED
      BY <3>1, <3>2
  <2> QED
    BY <2>2 DEF ComposersStand, Uploading
<1>6. HeardInTurn'
  <2>1. \A b \in new :
          /\ new = {b} /\ b.draft = d
          /\ b.what = "create" => composer'[d].step = "creating"
          /\ b.what = "direct" => composer'[d].step = "confirming"
          /\ b.what = "legacy" => composer'[d].step = "legacy"
          /\ Attaches(b) => b.number = composer'[d].number /\ b.photo = composer'[d].photo
    BY <1>1
  <2> QED
    BY <1>1, <2>1, ClientHears DEF PhotosInv
<1>7. SubmissionsCount'
  <2>1. ASSUME NEW e \in Drafts \ {d}
        PROVE  Cardinality(RowsOf(e)') + Cardinality(Creating(e)') <= composer[e].tries
    <3>1. \A f \in Drafts : RowsOf(f)' = RowsOf(f)
      BY DEF RowsOf
    <3>2. \A a \in jobs : m[a].what = "create" /\ m[a].step # "done" =>
            a.what = "create" /\ a.step # "done" /\ m[a].draft = a.draft
      BY DEF Quieter
    <3>3. \A b \in new : b.what = "create" => b.draft # e
      OBVIOUS
    <3> QED
      BY <3>1, <3>2, <3>3, CountsStay DEF PhotosInv
  <2>2. ASSUME NEW e \in Drafts
        PROVE  /\ Cardinality(RowsOf(e)') + Cardinality(Creating(e)') <= composer'[e].tries
               /\ composer'[e].tries <= abandoned'[e] + (IF composer'[e].step = "draft" THEN 0 ELSE 1)
               /\ composer'[e].step = "cleared" => RowsOf(e)' # {}
    <3>1. RowsOf(e)' = RowsOf(e)
      BY DEF RowsOf
    <3>2. CASE e = d
      BY <1>1, <3>1, <3>2
    <3>3. CASE e # d
      <4>1. composer'[e] = composer[e] /\ abandoned'[e] = abandoned[e]
        BY <1>1, <3>3
      <4>2. /\ composer[e].tries <= abandoned[e] + (IF composer[e].step = "draft" THEN 0 ELSE 1)
            /\ composer[e].step = "cleared" => RowsOf(e) # {}
        BY DEF PhotosInv, SubmissionsCount
      <4> QED
        BY <2>1, <3>1, <3>3, <4>1, <4>2
    <3> QED
      BY <3>2, <3>3
  <2> QED
    BY <2>2 DEF SubmissionsCount
<1>8. UploadedIsShown'
  <2>1. \A n : ShownKeys(n)' = ShownKeys(n)
    BY DEF ShownKeys
  <2> QED
    BY <2>1 DEF PhotosInv, UploadedIsShown
<1> QED
  BY <1>2, <1>4, <1>5, <1>6, <1>7, <1>8 DEF PhotosInv, ServerStands

-----------------------------------------------------------------------------
(* The steps of a client *)

LEMMA ComposerIs ==
  ASSUME PhotosInv, NEW d \in Drafts
  PROVE  /\ composer[d] \in Composer /\ composer[d].tries \in Nat /\ composer[d].number \in Nat
         /\ composer[d].photo \in Nat
         /\ composer[d].step \in {"draft", "creating"} => composer[d].photo = 0
         /\ Uploading(composer[d]) => d \notin Inline /\ composer[d].number \in RowsOf(d) /\ composer[d].photo > 0
         /\ composer[d].step = "confirm" => Key(composer[d].number, composer[d].photo, "direct") \in bucket
         /\ composer[d].step = "cleared" => RowsOf(d) # {}
         /\ composer[d].tries <= abandoned[d] + (IF composer[d].step = "draft" THEN 0 ELSE 1)
         /\ abandoned[d] \in Nat
BY DEF PhotosInv, PhotosTypeOK, Composer, ComposersStand, SubmissionsCount

LEMMA JobBegins ==
  ASSUME PhotosInv, NEW d \in Drafts, NEW what \in {"create", "direct", "legacy"},
         NEW step \in {"find", "put", "read"}, NEW b, b = Job(d, what, step)
  PROVE  /\ b \in PhotoJob /\ b.draft = d /\ b.what = what /\ b.step = step
         /\ b.number = composer[d].number /\ b.photo = composer[d].photo
<1>1. composer[d].number \in Nat /\ composer[d].photo \in Nat
  BY ComposerIs
<1>2. <<>> \in Seq(Keys)
  OBVIOUS
<1>3. b \in PhotoJob
  BY <1>1, <1>2, TRUE \in BOOLEAN, 0 \in Nat, Zenon DEF Job, PhotoJob
<1> QED
  BY <1>3 DEF Job

\* Who awaits no answer listens to nobody.
LEMMA NobodyIsHeard ==
  ASSUME PhotosInv, NEW d \in Drafts, composer[d].step \notin {"creating", "confirming", "legacy"},
         NEW j \in jobs, j.draft = d
  PROVE  ~j.heard
<1>1. j.what \in {"create", "direct", "legacy"}
  BY JobIs DEF PhotosInv, PhotosTypeOK
<1> QED
  BY <1>1 DEF PhotosInv, HeardInTurn

LEMMA AnswerIs ==
  ASSUME PhotosInv, NEW d \in Drafts, NEW j, Answer(d, j)
  PROVE  /\ j \in jobs /\ j.draft = d /\ j.step = "done"
         /\ composer[d].step = "creating" => j.what = "create" /\ j.number \in RowsOf(d)
         /\ composer[d].step \in {"confirming", "legacy"} =>
              /\ Attaches(j) /\ j.number = composer[d].number /\ j.photo = composer[d].photo
         /\ \A k \in jobs \ {j} : k.draft = d => ~k.heard
<1>1. j \in jobs /\ j.draft = d /\ j.step = "done" /\ j.heard /\ JobStands(j)
  BY DEF Answer, PhotosInv, JobsStand
<1>2. j.what \in {"create", "direct", "legacy"}
  BY <1>1, JobIs DEF PhotosInv, PhotosTypeOK
<1>3. /\ \A k \in jobs : k.heard /\ k.draft = d => k = j
      /\ CASE j.what = "create" -> composer[d].step = "creating"
           [] j.what = "direct" -> composer[d].step = "confirming"
           [] j.what = "legacy" -> composer[d].step = "legacy"
      /\ Attaches(j) => j.number = composer[d].number /\ j.photo = composer[d].photo
  BY <1>1 DEF PhotosInv, HeardInTurn
<1> QED
  BY <1>1, <1>2, <1>3 DEF JobStands, Attaches, CreateStands

\* Nobody creates a report anew.
LEMMA CreatingStays ==
  ASSUME PhotosInv, NEW d \in Drafts, NEW m, NEW new, Become(m, new), Quieter(m), UNCHANGED reports,
         \A b \in new : b.what # "create"
  PROVE  Cardinality(RowsOf(d)') + Cardinality(Creating(d)') <= composer[d].tries
<1>1. \A e \in Drafts : RowsOf(e)' = RowsOf(e)
  BY DEF RowsOf
<1>2. \A a \in jobs : m[a].what = "create" /\ m[a].step # "done" =>
        a.what = "create" /\ a.step # "done" /\ m[a].draft = a.draft
  BY DEF Quieter
<1> QED
  BY <1>1, <1>2, CountsStay DEF PhotosInv

LEMMA SubmitKeeps == ASSUME PhotosInv, NEW d \in Drafts, Submit(d) PROVE PhotosInv'
<1>1. composer[d].step = "draft" /\ composer[d].photo = 0 /\ composer[d].tries \in Nat
  BY ComposerIs DEF Submit, NotSubmitting
<1>2. PICK c : c = [composer[d] EXCEPT !.step = "creating", !.tries = @ + 1]
  OBVIOUS
<1>3. /\ c \in Composer /\ c.step = "creating" /\ c.tries = composer[d].tries + 1
      /\ c.number = composer[d].number /\ c.photo = 0
  <2>1. composer[d].tries + 1 \in Nat /\ composer[d] \in Composer
    BY <1>1, ComposerIs
  <2> QED
    BY <1>1, <1>2, <2>1 DEF Composer
<1>4. composer' = [composer EXCEPT ![d] = c] /\ composer'[d].tries \in Nat
  <2>1. composer' = [composer EXCEPT ![d] = c]
    BY <1>2 DEF Submit
  <2>2. composer'[d] = c /\ c.tries \in Nat
    BY <1>1, <1>3, <2>1 DEF PhotosInv, PhotosTypeOK
  <2> QED
    BY <2>1, <2>2
<1>5. PICK e : e = Job(d, "create", "find")
  OBVIOUS
<1>6. e \in PhotoJob /\ e.draft = d /\ e.what = "create" /\ e.step = "find" /\ e.photo = 0
  BY <1>1, <1>5, JobBegins
<1>7. PICK b : b = [e EXCEPT !.try = composer'[d].tries]
  OBVIOUS
<1>8. b \in PhotoJob /\ b.draft = d /\ b.what = "create" /\ b.step = "find" /\ b.photo = 0
  BY <1>4, <1>6, <1>7 DEF PhotoJob
<1>9. jobs' = jobs \cup {b} /\ UNCHANGED <<storeVars, toldVars>>
  BY <1>5, <1>7 DEF Submit
<1> DEFINE m == [a \in jobs |-> a]
<1>10. Become(m, {b}) /\ Quieter(m)
  <2>1. {b} \in SUBSET PhotoJob /\ IsFiniteSet({b}) /\ jobs' \subseteq jobs \cup {b}
    BY <1>8, <1>9, FS_Singleton
  <2> QED
    BY <2>1, SameBecomes DEF PhotosInv
<1> HIDE DEF m
<1>11. JobStands(b)'
  BY <1>8 DEF JobStands, Attaches, CreateStands
<1>12. \A k \in jobs' : k.heard /\ k.draft = d => k = b
  BY <1>1, <1>9, NobodyIsHeard
<1>13. Cardinality(RowsOf(d)') + Cardinality(Creating(d)') <= c.tries
  <2>1. RowsOf(d)' = RowsOf(d) /\ Creating(d)' = Creating(d) \cup {b}
    BY <1>8, <1>9 DEF RowsOf, Creating, storeVars
  <2>2. IsFiniteSet(Creating(d)) /\ IsFiniteSet(RowsOf(d))
    BY FS_Subset DEF Creating, RowsOf, PhotosInv, PhotosTypeOK
  <2>3. Cardinality(Creating(d)') <= Cardinality(Creating(d)) + 1 /\ Cardinality(Creating(d)') \in Nat
    <3>1. Cardinality(Creating(d)) \in Nat /\ IsFiniteSet(Creating(d) \cup {b})
      BY <2>2, FS_CardinalityType, FS_AddElement
    <3>2. Cardinality(Creating(d) \cup {b}) \in {Cardinality(Creating(d)), Cardinality(Creating(d)) + 1}
      BY <2>2, FS_AddElement
    <3> QED
      BY <2>1, <3>1, <3>2
  <2>4. Cardinality(RowsOf(d)) + Cardinality(Creating(d)) <= composer[d].tries
    BY DEF PhotosInv, SubmissionsCount
  <2>5. Cardinality(RowsOf(d)) \in Nat /\ Cardinality(Creating(d)) \in Nat
    BY <2>2, FS_CardinalityType
  <2> QED
    BY <1>1, <1>3, <2>1, <2>3, <2>4, <2>5
<1>14. c.tries <= abandoned'[d] + (IF c.step = "draft" THEN 0 ELSE 1)
  BY <1>1, <1>3, <1>9, ComposerIs DEF toldVars
<1>15. /\ UNCHANGED <<counter, reports, overlapped, bucket, doubted, abandoned, uploaded>>
       /\ bucket \subseteq Keys /\ doubted \subseteq Nat \X Nat /\ abandoned \in [Drafts -> Nat]
       /\ uploaded \subseteq (DOMAIN reports) \X Nat
  BY <1>9 DEF storeVars, toldVars, PhotosInv, PhotosTypeOK
<1>16. ~Attaches(b) /\ ~Uploading(c)
  BY <1>3, <1>8 DEF Attaches, Uploading
<1>17. ClientMoves(d, c)
  BY <1>1, <1>3, <1>4, <1>16 DEF ClientMoves
<1>18. HandlersFollow(d, c, m, {b})
  BY <1>3, <1>8, <1>10, <1>11, <1>12, <1>16 DEF HandlersFollow
<1>19. StoreStays /\ SubmissionsAdd(d, c) /\ UploadsAdd
  BY <1>13, <1>14, <1>15 DEF StoreStays, SubmissionsAdd, UploadsAdd
<1> QED
  BY <1>17, <1>18, <1>19, ClientKeeps

LEMMA CreateAnsweredKeeps == ASSUME PhotosInv, NEW d \in Drafts, CreateAnswered(d) PROVE PhotosInv'
<1>1. PICK j \in jobs :
        /\ Answer(d, j) /\ jobs' = jobs \ {j}
        /\ composer' = [composer EXCEPT ![d] =
             IF d \in Inline \/ PhotosOf[d] = 0
               THEN [composer[d] EXCEPT !.step = "cleared"]
               ELSE [composer[d] EXCEPT !.step = "put", !.number = j.number, !.photo = 1]]
  BY DEF CreateAnswered
<1>2. composer[d].step = "creating" /\ composer[d].photo = 0 /\ j.number \in RowsOf(d) /\ j.number \in Nat
  BY <1>1, AnswerIs, ComposerIs, JobIs DEF CreateAnswered, PhotosInv, PhotosTypeOK
<1>3. PICK c : c = IF d \in Inline \/ PhotosOf[d] = 0
                     THEN [composer[d] EXCEPT !.step = "cleared"]
                     ELSE [composer[d] EXCEPT !.step = "put", !.number = j.number, !.photo = 1]
  OBVIOUS
<1>4. /\ c \in Composer /\ c.tries = composer[d].tries
      /\ \/ c.step = "cleared"
         \/ c.step = "put" /\ c.number = j.number /\ c.photo = 1 /\ d \notin Inline
  <2>1. CASE d \in Inline \/ PhotosOf[d] = 0
    BY <1>3, <2>1, ComposerIs DEF Composer
  <2>2. CASE ~(d \in Inline \/ PhotosOf[d] = 0)
    BY <1>2, <1>3, <2>2, ComposerIs DEF Composer
  <2> QED
    BY <2>1, <2>2
<1>5. composer' = [composer EXCEPT ![d] = c]
  BY <1>1, <1>3
<1> DEFINE m == [a \in jobs |-> a]
<1>6. Become(m, {}) /\ Quieter(m)
  BY <1>1, FS_EmptySet, SameBecomes DEF PhotosInv
<1> HIDE DEF m
<1>7. \A k \in jobs' : ~(k.heard /\ k.draft = d)
  BY <1>1, AnswerIs
<1>8. /\ UNCHANGED <<counter, reports, overlapped, bucket, doubted, abandoned, uploaded>>
      /\ bucket \subseteq Keys /\ doubted \subseteq Nat \X Nat /\ abandoned \in [Drafts -> Nat]
      /\ uploaded \subseteq (DOMAIN reports) \X Nat
  BY DEF CreateAnswered, storeVars, toldVars, PhotosInv, PhotosTypeOK
<1>9. Cardinality(RowsOf(d)') + Cardinality(Creating(d)') <= c.tries
  BY <1>4, <1>6, <1>8, CreatingStays
<1>10. c.tries <= abandoned'[d] + (IF c.step = "draft" THEN 0 ELSE 1)
  BY <1>2, <1>4, <1>8, ComposerIs
<1>11. /\ c.step \in {"draft", "creating"} => c.photo = 0
       /\ Uploading(c) => d \notin Inline /\ c.number \in RowsOf(d) /\ c.photo > 0
       /\ c.step # "confirm" /\ RowsOf(d) # {}
  BY <1>2, <1>4 DEF Uploading
<1>12. ClientMoves(d, c)
  BY <1>2, <1>4, <1>5, <1>11 DEF ClientMoves
<1>13. HandlersFollow(d, c, m, {})
  BY <1>6, <1>7 DEF HandlersFollow
<1>14. StoreStays /\ SubmissionsAdd(d, c) /\ UploadsAdd
  BY <1>8, <1>9, <1>10 DEF StoreStays, SubmissionsAdd, UploadsAdd
<1> QED
  BY <1>12, <1>13, <1>14, ClientKeeps

LEMMA GiveUpCreateKeeps == ASSUME PhotosInv, NEW d \in Drafts, GiveUpCreate(d) PROVE PhotosInv'
<1>1. composer[d].step = "creating" /\ composer[d].photo = 0
  BY ComposerIs DEF GiveUpCreate
<1>2. PICK c : c = [composer[d] EXCEPT !.step = "draft"]
  OBVIOUS
<1>3. c \in Composer /\ c.step = "draft" /\ c.tries = composer[d].tries /\ c.photo = 0
  BY <1>1, <1>2, ComposerIs DEF Composer
<1>4. composer' = [composer EXCEPT ![d] = c] /\ jobs' = Unheard(d) \cup {}
  BY <1>2 DEF GiveUpCreate, FormKept
<1>5. Become(Quieted(d), {}) /\ Quieter(Quieted(d)) /\ \A k \in jobs' : ~(k.heard /\ k.draft = d)
  BY <1>4, FS_EmptySet, UnheardBecomes DEF PhotosInv
<1>6. /\ UNCHANGED <<counter, reports, overlapped, bucket, doubted, uploaded>>
      /\ bucket \subseteq Keys /\ doubted \subseteq Nat \X Nat
      /\ uploaded \subseteq (DOMAIN reports) \X Nat
  BY DEF GiveUpCreate, storeVars, PhotosInv, PhotosTypeOK
<1>7. /\ abandoned' \in [Drafts -> Nat] /\ abandoned'[d] = abandoned[d] + 1
      /\ \A e \in Drafts \ {d} : abandoned'[e] = abandoned[e]
  BY DEF GiveUpCreate, PhotosInv, PhotosTypeOK
<1>8. Cardinality(RowsOf(d)') + Cardinality(Creating(d)') <= c.tries
  BY <1>3, <1>5, <1>6, CreatingStays
<1>9. c.tries <= abandoned'[d] + (IF c.step = "draft" THEN 0 ELSE 1)
  BY <1>1, <1>3, <1>7, ComposerIs
<1>10. ~Uploading(c)
  BY <1>3 DEF Uploading
<1>11. ClientMoves(d, c)
  BY <1>1, <1>3, <1>4, <1>10 DEF ClientMoves
<1>12. HandlersFollow(d, c, Quieted(d), {})
  BY <1>5 DEF HandlersFollow
<1>13. StoreStays /\ SubmissionsAdd(d, c) /\ UploadsAdd
  BY <1>6, <1>7, <1>8, <1>9 DEF StoreStays, SubmissionsAdd, UploadsAdd
<1> QED
  BY <1>11, <1>12, <1>13, ClientKeeps

\* The steps of an upload: only where the composer is may change.
LEMMA UploadMoves ==
  ASSUME PhotosInv, NEW d \in Drafts, Uploading(composer[d]),
         NEW step \in {"put", "confirm", "confirming", "legacy", "cleared"},
         NEW c, c = [composer[d] EXCEPT !.step = step], composer' = [composer EXCEPT ![d] = c],
         bucket \subseteq bucket',
         step = "confirm" => Key(composer[d].number, composer[d].photo, "direct") \in bucket',
         step \in {"put", "confirm"} => composer[d].step \in {"put", "confirm"}
  PROVE  /\ ClientMoves(d, c) /\ c.step = step /\ c.tries = composer[d].tries
         /\ c.number = composer[d].number /\ c.photo = composer[d].photo
<1>1. /\ c \in Composer /\ c.step = step /\ c.tries = composer[d].tries
      /\ c.number = composer[d].number /\ c.photo = composer[d].photo
  BY ComposerIs DEF Composer
<1>2. /\ d \notin Inline /\ composer[d].number \in RowsOf(d) /\ composer[d].photo > 0
      /\ composer[d].photo \in Nat
  BY ComposerIs
<1> QED
  BY <1>1, <1>2 DEF ClientMoves

LEMMA SubmissionsStay ==
  ASSUME PhotosInv, NEW d \in Drafts, Uploading(composer[d]), NEW c, c.tries = composer[d].tries, c.step # "draft",
         NEW m, NEW new, Become(m, new), Quieter(m), UNCHANGED <<reports, abandoned>>,
         \A b \in new : b.what # "create"
  PROVE  SubmissionsAdd(d, c)
<1>1. Cardinality(RowsOf(d)') + Cardinality(Creating(d)') <= c.tries
  BY CreatingStays
<1>2. /\ composer[d].tries <= abandoned[d] + (IF composer[d].step = "draft" THEN 0 ELSE 1)
      /\ composer[d].step # "draft"
  BY ComposerIs DEF Uploading
<1>3. abandoned \in [Drafts -> Nat]
  BY DEF PhotosInv, PhotosTypeOK
<1> QED
  BY <1>1, <1>2, <1>3 DEF SubmissionsAdd

LEMMA StoreIsSame ==
  ASSUME PhotosInv, UNCHANGED <<counter, reports, overlapped, bucket, doubted>>
  PROVE  StoreStays
BY DEF StoreStays, PhotosInv, PhotosTypeOK

LEMMA UploadsAreSame == ASSUME PhotosInv, UNCHANGED uploaded PROVE UploadsAdd
BY DEF UploadsAdd, PhotosInv, PhotosTypeOK

LEMMA PutPhotoKeeps == ASSUME PhotosInv, NEW d \in Drafts, PutPhoto(d) PROVE PhotosInv'
<1>1. composer[d].step = "put" /\ Uploading(composer[d])
  BY DEF PutPhoto, Uploading
<1>2. PICK c : c = [composer[d] EXCEPT !.step = "confirm"]
  OBVIOUS
<1>3. /\ composer' = [composer EXCEPT ![d] = c]
      /\ bucket' = bucket \cup {Key(composer[d].number, composer[d].photo, "direct")}
      /\ UNCHANGED <<counter, reports, jobs, abandoned, uploaded, doubted, overlapped>>
  BY <1>2 DEF PutPhoto, toldVars
<1>4. ClientMoves(d, c) /\ c.tries = composer[d].tries /\ c.step # "draft"
  BY <1>1, <1>2, <1>3, UploadMoves
<1> DEFINE m == [a \in jobs |-> a]
<1>5. Become(m, {}) /\ Quieter(m)
  BY <1>3, FS_EmptySet, SameBecomes DEF PhotosInv
<1> HIDE DEF m
<1>6. HandlersFollow(d, c, m, {})
  BY <1>1, <1>3, <1>5, NobodyIsHeard DEF HandlersFollow
<1>7. SubmissionsAdd(d, c)
  BY <1>1, <1>3, <1>4, <1>5, SubmissionsStay
<1>8. StoreStays
  <2>1. composer[d].number \in Nat /\ composer[d].photo \in Nat \ {0}
    BY <1>1, ComposerIs
  <2>2. Key(composer[d].number, composer[d].photo, "direct") \in Keys
    BY <2>1 DEF Key, Keys
  <2> QED
    BY <1>3, <2>2 DEF StoreStays, PhotosInv, PhotosTypeOK
<1> QED
  BY <1>3, <1>4, <1>6, <1>7, <1>8, UploadsAreSame, ClientKeeps

LEMMA ConfirmPhotoKeeps == ASSUME PhotosInv, NEW d \in Drafts, ConfirmPhoto(d) PROVE PhotosInv'
<1>1. composer[d].step = "confirm" /\ Uploading(composer[d])
  BY DEF ConfirmPhoto, ObjectPut, Uploading
<1>2. PICK c : c = [composer[d] EXCEPT !.step = "confirming"]
  OBVIOUS
<1>3. PICK b : b = Job(d, "direct", "read")
  OBVIOUS
<1>4. /\ composer' = [composer EXCEPT ![d] = c] /\ jobs' = jobs \cup {b}
      /\ UNCHANGED <<counter, reports, bucket, abandoned, uploaded, doubted, overlapped>>
  BY <1>2, <1>3 DEF ConfirmPhoto, storeVars, toldVars
<1>5. /\ ClientMoves(d, c) /\ c.tries = composer[d].tries /\ c.step = "confirming"
      /\ c.number = composer[d].number /\ c.photo = composer[d].photo
  BY <1>1, <1>2, <1>4, UploadMoves
<1>6. /\ b \in PhotoJob /\ b.draft = d /\ b.what = "direct" /\ b.step = "read"
      /\ b.number = c.number /\ b.photo = c.photo
  BY <1>3, <1>5, JobBegins
<1>7. /\ d \notin Inline /\ c.number \in RowsOf(d) /\ c.photo \in Nat \ {0}
      /\ Key(c.number, c.photo, "direct") \in bucket
  BY <1>1, <1>5, ComposerIs
<1> DEFINE m == [a \in jobs |-> a]
<1>8. Become(m, {b}) /\ Quieter(m)
  <2>1. {b} \in SUBSET PhotoJob /\ IsFiniteSet({b}) /\ jobs' \subseteq jobs \cup {b}
    BY <1>4, <1>6, FS_Singleton
  <2> QED
    BY <2>1, SameBecomes DEF PhotosInv
<1> HIDE DEF m
<1>9. JobStands(b)'
  <2>1. composer'[d] = c
    BY <1>4 DEF PhotosInv, PhotosTypeOK
  <2>2. RowsOf(d)' = RowsOf(d) /\ AttachKey(b) \in bucket'
    BY <1>4, <1>6, <1>7 DEF RowsOf, AttachKey
  <2>3. c.photo \in 1..c.photo
    BY <1>7
  <2>4. AttachStands(b)'
    BY <1>5, <1>6, <1>7, <2>1, <2>2, <2>3 DEF AttachStands
  <2> QED
    BY <1>6, <2>4 DEF JobStands, Attaches
<1>10. HandlersFollow(d, c, m, {b})
  <2>1. \A k \in jobs' : k.heard /\ k.draft = d => k = b
    BY <1>1, <1>4, NobodyIsHeard
  <2> QED
    BY <1>1, <1>5, <1>6, <1>7, <1>8, <1>9, <2>1 DEF HandlersFollow
<1>11. SubmissionsAdd(d, c)
  BY <1>1, <1>4, <1>5, <1>6, <1>8, SubmissionsStay
<1> QED
  BY <1>4, <1>5, <1>10, <1>11, StoreIsSame, UploadsAreSame, ClientKeeps

LEMMA FallBackKeeps == ASSUME PhotosInv, NEW d \in Drafts, FallBack(d) PROVE PhotosInv'
<1>1. Uploading(composer[d])
  BY DEF FallBack, Uploading
<1>2. PICK c : c = [composer[d] EXCEPT !.step = "legacy"]
  OBVIOUS
<1>3. PICK b : b = Job(d, "legacy", "put")
  OBVIOUS
<1>4. /\ composer' = [composer EXCEPT ![d] = c] /\ jobs' = Unheard(d) \cup {b}
      /\ doubted' = doubted \cup {<<composer[d].number, composer[d].photo>>}
      /\ UNCHANGED <<counter, reports, bucket, abandoned, uploaded, overlapped>>
  BY <1>2, <1>3 DEF FallBack, storeVars
<1>5. /\ ClientMoves(d, c) /\ c.tries = composer[d].tries /\ c.step = "legacy"
      /\ c.number = composer[d].number /\ c.photo = composer[d].photo
  BY <1>1, <1>2, <1>4, UploadMoves
<1>6. /\ b \in PhotoJob /\ b.draft = d /\ b.what = "legacy" /\ b.step = "put"
      /\ b.number = c.number /\ b.photo = c.photo
  BY <1>3, <1>5, JobBegins
<1>7. d \notin Inline /\ c.number \in RowsOf(d) /\ c.number \in Nat /\ c.photo \in Nat \ {0}
  BY <1>1, <1>5, ComposerIs
<1>8. /\ Become(Quieted(d), {b}) /\ Quieter(Quieted(d))
      /\ \A k \in jobs' : k.heard /\ k.draft = d => k = b
  <2>1. {b} \in SUBSET PhotoJob /\ IsFiniteSet({b})
    BY <1>6, FS_Singleton
  <2> QED
    BY <1>4, <2>1, UnheardBecomes DEF PhotosInv
<1>9. JobStands(b)'
  <2>1. composer'[d] = c
    BY <1>4 DEF PhotosInv, PhotosTypeOK
  <2>2. RowsOf(d)' = RowsOf(d)
    BY <1>4 DEF RowsOf
  <2>3. c.photo \in 1..c.photo
    BY <1>7
  <2>4. AttachStands(b)'
    BY <1>5, <1>6, <1>7, <2>1, <2>2, <2>3 DEF AttachStands
  <2> QED
    BY <1>6, <2>4 DEF JobStands, Attaches
<1>10. HandlersFollow(d, c, Quieted(d), {b})
  <2>1. <<b.number, b.photo>> \in doubted'
    BY <1>4, <1>5, <1>6
  <2> QED
    BY <1>5, <1>6, <1>7, <1>8, <1>9, <2>1 DEF HandlersFollow
<1>11. SubmissionsAdd(d, c)
  BY <1>1, <1>4, <1>5, <1>6, <1>8, SubmissionsStay
<1>12. StoreStays
  BY <1>4, <1>5, <1>7 DEF StoreStays, PhotosInv, PhotosTypeOK
<1> QED
  BY <1>4, <1>5, <1>10, <1>11, <1>12, UploadsAreSame, ClientKeeps

\* The photograph is done with, and the next one begun if there is one.
LEMMA NextPhotoMoves ==
  ASSUME PhotosInv, NEW d \in Drafts, composer[d].step \in {"confirming", "legacy"},
         composer' = [composer EXCEPT ![d] = NextPhoto(composer[d], d)], UNCHANGED bucket
  PROVE  /\ ClientMoves(d, NextPhoto(composer[d], d)) /\ NextPhoto(composer[d], d).step # "draft"
         /\ NextPhoto(composer[d], d).tries = composer[d].tries
<1>1. /\ composer[d] \in Composer /\ d \notin Inline /\ composer[d].number \in RowsOf(d)
      /\ composer[d].photo \in Nat \ {0}
  BY ComposerIs DEF Uploading
<1>2. PICK c : c = NextPhoto(composer[d], d)
  OBVIOUS
<1>3. /\ c \in Composer /\ c.tries = composer[d].tries /\ c.number = composer[d].number
      /\ \/ c.step = "put" /\ c.photo = composer[d].photo + 1
         \/ c.step = "cleared" /\ c.photo = composer[d].photo
  <2>1. composer[d].photo + 1 \in Nat
    BY <1>1
  <2>2. CASE composer[d].photo < PhotosOf[d]
    BY <1>1, <1>2, <2>1, <2>2 DEF NextPhoto, Composer
  <2>3. CASE ~(composer[d].photo < PhotosOf[d])
    BY <1>1, <1>2, <2>3 DEF NextPhoto, Composer
  <2> QED
    BY <2>2, <2>3
<1>4. ClientMoves(d, c)
  BY <1>1, <1>2, <1>3 DEF ClientMoves
<1> QED
  BY <1>2, <1>3, <1>4

LEMMA PhotoAnsweredKeeps == ASSUME PhotosInv, NEW d \in Drafts, PhotoAnswered(d) PROVE PhotosInv'
<1>1. PICK j \in jobs : Answer(d, j) /\ jobs' = jobs \ {j}
  BY DEF PhotoAnswered
<1>2. composer[d].step \in {"confirming", "legacy"} /\ Uploading(composer[d])
  BY DEF PhotoAnswered, Uploading
<1>3. PICK c : c = NextPhoto(composer[d], d)
  OBVIOUS
<1>4. /\ composer' = [composer EXCEPT ![d] = NextPhoto(composer[d], d)]
      /\ uploaded' = uploaded \cup {<<composer[d].number, composer[d].photo>>}
      /\ UNCHANGED <<counter, reports, bucket, abandoned, doubted, overlapped>>
  BY DEF PhotoAnswered, storeVars
<1>5. ClientMoves(d, c) /\ c.tries = composer[d].tries /\ c.step # "draft"
  BY <1>2, <1>3, <1>4, NextPhotoMoves
<1> DEFINE m == [a \in jobs |-> a]
<1>6. Become(m, {}) /\ Quieter(m)
  BY <1>1, FS_EmptySet, SameBecomes DEF PhotosInv
<1> HIDE DEF m
<1>7. HandlersFollow(d, c, m, {})
  <2>1. \A k \in jobs' : ~(k.heard /\ k.draft = d)
    BY <1>1, AnswerIs
  <2> QED
    BY <1>6, <2>1 DEF HandlersFollow
<1>8. SubmissionsAdd(d, c)
  BY <1>2, <1>4, <1>5, <1>6, SubmissionsStay
<1>9. UploadsAdd
  <2>1. Attaches(j) /\ j.step = "done" /\ j.number = composer[d].number /\ j.photo = composer[d].photo
    BY <1>1, <1>2, AnswerIs
  <2>2. j.number \in overlapped \/ \E k \in ShownKeys(j.number) : k[2] = j.photo
    BY <2>1 DEF PhotosInv, DoneIsShown
  <2>3. composer[d].number \in DOMAIN reports /\ composer[d].photo \in Nat
    BY <1>2, ComposerIs DEF RowsOf
  <2>4. uploaded' \subseteq (DOMAIN reports) \X Nat
    BY <1>4, <2>3 DEF PhotosInv, PhotosTypeOK
  <2>5. ASSUME NEW u \in uploaded', u \notin uploaded
        PROVE  u[1] \in overlapped \/ \E k \in ShownKeys(u[1]) : k[2] = u[2]
    <3>1. u = <<j.number, j.photo>>
      BY <1>4, <2>1, <2>5
    <3> QED
      BY <2>2, <3>1
  <2> QED
    BY <2>4, <2>5 DEF UploadsAdd
<1> QED
  BY <1>4, <1>5, <1>7, <1>8, <1>9, StoreIsSame, ClientKeeps

LEMMA GiveUpKeeps ==
  ASSUME PhotosInv, NEW d \in Drafts, GiveUpPhoto(d) \/ BudgetSpent(d)
  PROVE  PhotosInv'
<1>1. Uploading(composer[d]) /\ jobs' = Unheard(d) \cup {}
  BY DEF GiveUpPhoto, BudgetSpent, Uploading
<1>2. UNCHANGED <<counter, reports, bucket, abandoned, uploaded, doubted, overlapped>>
  BY DEF GiveUpPhoto, BudgetSpent, storeVars, toldVars
<1>3. PICK c : ClientMoves(d, c) /\ c.tries = composer[d].tries /\ c.step # "draft"
  <2>1. CASE GiveUpPhoto(d)
    BY <1>2, <2>1, NextPhotoMoves DEF GiveUpPhoto
  <2>2. CASE BudgetSpent(d)
    <3>1. PICK c : c = [composer[d] EXCEPT !.step = "cleared"]
      OBVIOUS
    <3>2. composer' = [composer EXCEPT ![d] = c]
      BY <2>2, <3>1 DEF BudgetSpent
    <3>3. ClientMoves(d, c) /\ c.tries = composer[d].tries /\ c.step # "draft"
      BY <1>1, <1>2, <3>1, <3>2, UploadMoves
    <3> QED
      BY <3>3
  <2> QED
    BY <2>1, <2>2
<1>4. Become(Quieted(d), {}) /\ Quieter(Quieted(d)) /\ \A k \in jobs' : ~(k.heard /\ k.draft = d)
  BY <1>1, FS_EmptySet, UnheardBecomes DEF PhotosInv
<1>5. HandlersFollow(d, c, Quieted(d), {})
  BY <1>4 DEF HandlersFollow
<1>6. SubmissionsAdd(d, c)
  BY <1>1, <1>2, <1>3, <1>4, SubmissionsStay
<1> QED
  BY <1>2, <1>3, <1>5, <1>6, StoreIsSame, UploadsAreSame, ClientKeeps

-----------------------------------------------------------------------------
(* The steps of a handler *)

Moved(j, k) ==
  /\ j \in jobs /\ k \in PhotoJob /\ jobs' \subseteq (jobs \ {j}) \cup {k}
  /\ k.draft = j.draft /\ k.what = j.what /\ (k.heard <=> j.heard)
  /\ Attaches(j) => k.number = j.number /\ k.photo = j.photo
  /\ UNCHANGED <<composer, abandoned, uploaded, doubted>>

Becoming(j, k) == [a \in jobs |-> IF a = j THEN k ELSE a]

LEMMA MovedBecomes ==
  ASSUME PhotosInv, NEW j, NEW k, Moved(j, k)
  PROVE  /\ Become(Becoming(j, k), {}) /\ Becoming(j, k)[j] = k
         /\ \A a \in jobs : a # j => Becoming(j, k)[a] = a
BY AdvanceBecomes DEF Moved, Becoming, PhotosInv

LEMMA HandlerStands ==
  ASSUME PhotosInv, NEW j, NEW k, Moved(j, k), WorldGrows, JobStands(k)'
  PROVE  /\ jobs' \subseteq PhotoJob /\ IsFiniteSet(jobs') /\ ClientsPass
         /\ JobsStand' /\ ComposersStand' /\ HeardInTurn'
<1>1. jobs' \subseteq PhotoJob /\ IsFiniteSet(jobs')
  BY MovedBecomes DEF Become
<1>2. ClientsPass
  <2>1. \A d \in Drafts : composer[d].photo \in Nat
    BY DEF PhotosInv, PhotosTypeOK, Composer
  <2> QED
    BY <2>1 DEF Moved, ClientsPass
<1>3. JobsStand'
  <2>1. ASSUME NEW b \in jobs \ {j} PROVE JobStands(b)'
    <3>1. JobStands(b) /\ composer' \in [Drafts -> Composer]
      BY DEF PhotosInv, PhotosTypeOK, JobsStand, Moved
    <3> QED
      BY <1>2, <3>1, StandsStay DEF PhotosInv
  <2> QED
    BY <2>1 DEF JobsStand, Moved
<1>4. ComposersStand'
  BY ComposersStay DEF PhotosInv, Moved
<1>5. HeardInTurn'
  <2>1. j \in jobs /\ k.draft = j.draft /\ k.what = j.what /\ (k.heard <=> j.heard)
        /\ (Attaches(k) => k.number = j.number /\ k.photo = j.photo)
        /\ UNCHANGED composer /\ \A b \in jobs' : b = k \/ b \in jobs \ {j}
    BY DEF Moved, Attaches
  <2>2. ASSUME NEW b \in jobs', b.heard
        PROVE  /\ \A c \in jobs' : c.heard /\ c.draft = b.draft => c = b
               /\ (b.what = "create" => composer'[b.draft].step = "creating")
               /\ (b.what = "direct" => composer'[b.draft].step = "confirming")
               /\ (b.what = "legacy" => composer'[b.draft].step = "legacy")
               /\ Attaches(b) => b.number = composer'[b.draft].number /\ b.photo = composer'[b.draft].photo
    <3>1. PICK a \in jobs : /\ a.heard /\ a.draft = b.draft /\ a.what = b.what
                            /\ (IF b = k THEN a = j ELSE a = b /\ a # j)
                            /\ (Attaches(b) => b.number = a.number /\ b.photo = a.photo)
      BY <2>1, <2>2
    <3>2. /\ \A c \in jobs : c.heard /\ c.draft = a.draft => c = a
          /\ (a.what = "create" => composer[a.draft].step = "creating")
          /\ (a.what = "direct" => composer[a.draft].step = "confirming")
          /\ (a.what = "legacy" => composer[a.draft].step = "legacy")
          /\ Attaches(a) => a.number = composer[a.draft].number /\ a.photo = composer[a.draft].photo
      BY <3>1 DEF PhotosInv, HeardInTurn
    <3>3. ASSUME NEW c \in jobs', c.heard, c.draft = b.draft PROVE c = b
      BY <2>1, <3>1, <3>2, <3>3
    <3>4. (b.what = "create" => composer'[b.draft].step = "creating")
          /\ (b.what = "direct" => composer'[b.draft].step = "confirming")
          /\ (b.what = "legacy" => composer'[b.draft].step = "legacy")
      BY <2>1, <3>1, <3>2
    <3>5. Attaches(b) => b.number = composer'[b.draft].number /\ b.photo = composer'[b.draft].photo
      BY <2>1, <3>1, <3>2 DEF Attaches
    <3> QED
      BY <3>3, <3>4, <3>5
  <2>3. \A b \in jobs' : b.what \in {"create", "direct", "legacy"}
    BY <1>1, JobIs
  <2> QED
    BY <2>2, <2>3 DEF HeardInTurn, Attaches
<1> QED
  BY <1>1, <1>2, <1>3, <1>4, <1>5

\* One that does not write to a report; what it reads, it reads as it is.
LEMMA HandlerKeeps ==
  ASSUME PhotosInv, NEW j, NEW k, Moved(j, k), j.step # "done", k.step # "done", JobStands(k)',
         UNCHANGED reports, bucket \subseteq bucket', bucket' \subseteq Keys,
         counter' \in Nat \cup {Missing}, overlapped \subseteq overlapped', overlapped' \subseteq Nat,
         Writes(k) => /\ k.seen = reports[j.number].photos
                      /\ \A a \in jobs \ {j} : Writes(a) /\ a.number = j.number => j.number \in overlapped',
         NumbersGrow'
  PROVE  PhotosInv'
<1> DEFINE m == Becoming(j, k)
<1>1. /\ Become(m, {}) /\ m[j] = k /\ j \in jobs /\ \A a \in jobs : a # j => m[a] = a
      /\ \A b \in jobs' : b = k \/ b \in jobs \ {j}
  BY MovedBecomes DEF Moved
<1> HIDE DEF m
<1>2. WorldGrows
  BY DEF WorldGrows
<1>3. /\ jobs' \subseteq PhotoJob /\ IsFiniteSet(jobs') /\ ClientsPass
      /\ JobsStand' /\ ComposersStand' /\ HeardInTurn'
  BY <1>2, HandlerStands
<1>4. PhotosTypeOK'
  BY <1>3 DEF Moved, PhotosInv, PhotosTypeOK
<1>5. Writes(k) => k.number = j.number /\ k.seen = reports[j.number].photos /\ j.number \in DOMAIN reports
  <2>1. ASSUME Writes(k) PROVE Attaches(j)
    BY <2>1 DEF Moved, Writes, Attaches
  <2>2. Attaches(j) => AttachStands(j) /\ k.number = j.number
    BY <1>1 DEF Moved, PhotosInv, JobsStand, JobStands
  <2> QED
    BY <2>1, <2>2 DEF AttachStands, RowsOf
<1>6. OverlapsAreKnown'
  <2>1. ASSUME NEW b \in jobs', Writes(b), b.number \notin overlapped'
        PROVE  /\ b.seen = reports[b.number].photos
               /\ \A c \in jobs' : Writes(c) /\ c.number = b.number => c = b
    <3>1. CASE b = k
      BY <1>1, <1>5, <2>1, <3>1
    <3>2. CASE b # k
      <4>1. b \in jobs \ {j} /\ b.number \notin overlapped
        BY <1>1, <2>1, <3>2
      <4>2. b.seen = reports[b.number].photos /\ \A c \in jobs : Writes(c) /\ c.number = b.number => c = b
        BY <2>1, <4>1 DEF PhotosInv, OverlapsAreKnown
      <4>3. Writes(k) => k.number # b.number
        BY <1>5, <2>1, <4>1
      <4> QED
        BY <1>1, <4>2, <4>3
    <3> QED
      BY <3>1, <3>2
  <2> QED
    BY <2>1 DEF OverlapsAreKnown, Writes, Attaches
<1>7. DoneIsShown'
  <2>1. ASSUME NEW b \in jobs', Attaches(b), b.step = "done", b.number \notin overlapped'
        PROVE  \E x \in ShownKeys(b.number)' : x[2] = b.photo
    <3>1. b \in jobs /\ b.number \notin overlapped
      BY <1>1, <2>1
    <3>2. \E x \in ShownKeys(b.number) : x[2] = b.photo
      BY <2>1, <3>1 DEF PhotosInv, DoneIsShown
    <3>3. ShownKeys(b.number)' = ShownKeys(b.number)
      BY DEF ShownKeys
    <3> QED
      BY <3>2, <3>3
  <2> QED
    BY <2>1 DEF DoneIsShown, Attaches
<1>8. ArraysStand'
  <2>1. ASSUME NEW a \in jobs
        PROVE  /\ Attaches(m[a]) <=> Attaches(a)
               /\ Attaches(a) => m[a].number = a.number /\ m[a].photo = a.photo
               /\ Pending(m[a]) => Pending(a)
               /\ Writes(m[a]) /\ (~Writes(a) \/ m[a].seen # a.seen) =>
                    m[a].seen = reports[a.number].photos /\ a.number \in DOMAIN reports
    <3>1. CASE a = j
      BY <1>1, <1>5, <3>1 DEF Moved, Attaches, Pending
    <3>2. CASE a # j
      BY <1>1, <3>2
    <3> QED
      BY <3>1, <3>2
  <2>2. doubted \subseteq doubted' /\ composer' \in [Drafts -> Composer]
    BY DEF Moved, PhotosInv, PhotosTypeOK
  <2> QED
    BY <1>1, <1>3, <2>1, <2>2, ArraysStay DEF PhotosInv
<1>9. SubmissionsCount'
  <2>1. \A d \in Drafts : RowsOf(d)' = RowsOf(d)
    BY DEF RowsOf
  <2>2. \A a \in jobs : m[a].what = "create" /\ m[a].step # "done" =>
          a.what = "create" /\ a.step # "done" /\ m[a].draft = a.draft
    BY <1>1 DEF Moved
  <2>3. ASSUME NEW d \in Drafts
        PROVE  Cardinality(RowsOf(d)') + Cardinality(Creating(d)') <= composer[d].tries
    BY <1>1, <2>1, <2>2, CountsStay DEF PhotosInv
  <2> QED
    BY <2>1, <2>3 DEF Moved, PhotosInv, SubmissionsCount
<1>10. EvidenceIsFirst' /\ ShownIsStored' /\ UploadedIsShown'
  BY DEF Moved, PhotosInv, EvidenceIsFirst, ShownIsStored, UploadedIsShown, ShownKeys
<1> QED
  BY <1>3, <1>4, <1>6, <1>7, <1>8, <1>9, <1>10 DEF PhotosInv

\* The numbers held stay those held.
LEMMA HeldStay ==
  ASSUME PhotosInv, NEW j, NEW k, Moved(j, k), UNCHANGED counter, DOMAIN reports' = DOMAIN reports,
         Holds(k) => Holds(j) /\ k.number = j.number
  PROVE  NumbersGrow'
<1> DEFINE m == Becoming(j, k)
<1>1. \A b \in jobs' : b = k \/ b \in jobs \ {j}
  BY DEF Moved
<1>2. j \in jobs /\ m[j] = k /\ \A a \in jobs : a # j => m[a] = a
  BY MovedBecomes DEF Moved
<1> HIDE DEF m
<1>3. \A b \in jobs' : Holds(b) => \E a \in jobs : Holds(a) /\ a.number = b.number /\ b = m[a]
  BY <1>1, <1>2
<1> QED
  BY <1>3, NumbersStay DEF PhotosInv

\* A create handler is at a step of its own, and so is one that attaches.
LEMMA RoleIs ==
  ASSUME PhotosInv, NEW j \in jobs
  PROVE  /\ j \in PhotoJob /\ JobStands(j)
         /\ j.step \in {"find", "take", "ingest", "insert"} => ~Attaches(j) /\ CreateStands(j)
         /\ j.step \in {"put", "read", "write"} => Attaches(j) /\ AttachStands(j)
BY DEF PhotosInv, PhotosTypeOK, JobsStand, JobStands, AttachStands, CreateStands

LEMMA FindCounterKeeps == ASSUME PhotosInv, NEW j \in jobs, FindCounter(j) PROVE PhotosInv'
<1>1. j.step = "find" /\ j \in PhotoJob /\ ~Attaches(j) /\ CreateStands(j)
  BY RoleIs DEF FindCounter
<1>2. PICK k : k = [j EXCEPT !.step = "take", !.seen = <<counter>>]
  OBVIOUS
<1>3. UNCHANGED <<counter, reports, bucket, composer, abandoned, uploaded, doubted, overlapped>>
  BY DEF FindCounter, storeVars, toldVars
<1>4. k \in PhotoJob /\ k.step = "take" /\ k.draft = j.draft /\ k.what = j.what /\ k.heard = j.heard
      /\ k.photo = j.photo
  BY <1>1, <1>2 DEF PhotoJob, PhotosInv, PhotosTypeOK
<1>5. Moved(j, k)
  BY <1>1, <1>2, <1>3, <1>4 DEF FindCounter, Advance, Moved
<1>6. JobStands(k)'
  BY <1>1, <1>4 DEF JobStands, CreateStands, Attaches
<1>7. NumbersGrow'
  BY <1>3, <1>4, <1>5, HeldStay DEF Holds
<1> QED
  BY <1>1, <1>3, <1>4, <1>5, <1>6, <1>7, HandlerKeeps DEF Writes, PhotosInv, PhotosTypeOK

LEMMA TakeNumberKeeps == ASSUME PhotosInv, NEW j \in jobs, TakeNumber(j) PROVE PhotosInv'
<1>1. j.step = "take" /\ j \in PhotoJob /\ ~Attaches(j) /\ CreateStands(j) /\ j.photo = 0
  BY RoleIs DEF TakeNumber, CreateStands
\* The new number is larger than all there are.
<1>2. /\ counter' \in Nat
      /\ \A n \in DOMAIN reports : n \in Nat /\ n < counter'
      /\ \A a \in jobs : Holds(a) => a.number \in Nat /\ a.number < counter'
  <2>1. counter' = (IF counter = Missing THEN Base ELSE counter) + 1 /\ counter \in Nat \cup {Missing}
        /\ Missing \notin Nat /\ DOMAIN reports \subseteq Nat /\ \A a \in jobs : a.number \in Nat
    BY PhotosAssumption, JobIs DEF TakeNumber, PhotosInv, PhotosTypeOK
  <2>2. CASE counter = Missing
    <3>1. FirstNumber \in Nat /\ IsFiniteSet({FirstNumber} \cup DOMAIN reports)
      BY PhotosAssumption, FS_Singleton, FS_Union DEF PhotosInv, PhotosTypeOK
    <3>2. Base \in Nat /\ \A n \in DOMAIN reports : n <= Base
      BY <2>1, <3>1, LargestExists DEF Base
    <3>3. \A a \in jobs : ~Holds(a)
      BY <2>1, <2>2 DEF PhotosInv, NumbersGrow
    <3> QED
      BY <2>1, <2>2, <3>2, <3>3
  <2>3. CASE counter \in Nat
    BY <2>1, <2>3 DEF PhotosInv, NumbersGrow
  <2> QED
    BY <2>1, <2>2, <2>3
<1> DEFINE step == IF j.draft \in Inline THEN "ingest" ELSE "insert"
<1>3. PICK k : k = [j EXCEPT !.number = counter', !.try = 0, !.seen = <<>>, !.step = step]
  OBVIOUS
<1>4. UNCHANGED <<reports, bucket, composer, abandoned, uploaded, doubted, overlapped>>
  BY DEF TakeNumber, toldVars
<1>5. k \in PhotoJob /\ k.step = (IF j.draft \in Inline THEN "ingest" ELSE "insert")
      /\ k.draft = j.draft /\ k.what = j.what /\ k.heard = j.heard /\ k.photo = 0 /\ k.number = counter'
  <2>1. step \in {"ingest", "insert"} /\ <<>> \in Seq(Keys)
    OBVIOUS
  <2> HIDE DEF step
  <2>2. k \in PhotoJob /\ k.step = step
        /\ k.draft = j.draft /\ k.what = j.what /\ k.heard = j.heard /\ k.photo = j.photo /\ k.number = counter'
    BY <1>1, <1>2, <1>3, <2>1 DEF PhotoJob
  <2> QED
    BY <1>1, <2>2 DEF step
<1>6. Moved(j, k)
  BY <1>1, <1>3, <1>4, <1>5 DEF TakeNumber, Advance, Moved
<1>7. JobStands(k)'
  <2>1. PhotosOf[j.draft] \in Nat
    BY <1>1, JobIs, PhotosAssumption
  <2> QED
    BY <1>1, <1>5, <2>1 DEF JobStands, CreateStands, Attaches
<1>8. NumbersGrow'
  <2>1. \A b \in jobs' : b = k \/ b \in jobs \ {j}
    BY <1>6 DEF Moved
  <2>2. \A b \in jobs' : Holds(b) => b.number <= counter' /\ b.number \notin DOMAIN reports
    BY <1>2, <1>5, <2>1 DEF PhotosInv, NumbersGrow, NumbersAreFresh, Holds
  <2>3. \A b, c \in jobs' : Holds(b) /\ Holds(c) /\ b # c => b.number # c.number
    BY <1>2, <1>5, <2>1 DEF PhotosInv, NumbersGrow, NumbersAreFresh, Holds
  <2>4. NumbersAreFresh'
    BY <1>4, <2>2, <2>3 DEF NumbersAreFresh, Holds
  <2> QED
    BY <1>2, <1>4, <2>2, <2>4 DEF NumbersGrow, Holds
<1> QED
  BY <1>1, <1>2, <1>4, <1>5, <1>6, <1>7, <1>8, HandlerKeeps DEF Writes, Attaches, PhotosInv, PhotosTypeOK

LEMMA IngestKeeps == ASSUME PhotosInv, NEW j \in jobs, Ingest(j) PROVE PhotosInv'
<1>1. j.step = "ingest" /\ j \in PhotoJob /\ ~Attaches(j) /\ CreateStands(j)
  BY RoleIs DEF Ingest
<1>2. PICK k : k = IF Ingested(j) THEN [j EXCEPT !.step = "insert"] ELSE [j EXCEPT !.photo = @ + 1]
  OBVIOUS
<1>3. /\ UNCHANGED <<counter, reports, composer, abandoned, uploaded, doubted, overlapped>>
      /\ bucket' = bucket \cup {Via(j)} /\ PhotosOf[j.draft] > 0
  BY DEF Ingest, toldVars
<1>4. j.photo \in Nat /\ j.photo + 1 \in Nat /\ j.number \in Nat /\ PhotosOf[j.draft] \in Nat
  BY <1>1, JobIs, PhotosAssumption
<1>5. /\ k \in PhotoJob /\ k.draft = j.draft /\ k.what = j.what /\ k.heard = j.heard /\ k.number = j.number
      /\ IF Ingested(j) THEN k.step = "insert" /\ k.photo = j.photo
                        ELSE k.step = "ingest" /\ k.photo = j.photo + 1
  BY <1>1, <1>2, <1>4 DEF PhotoJob
<1>6. Moved(j, k)
  BY <1>1, <1>2, <1>3, <1>5 DEF Ingest, Advance, Moved
<1>7. Via(j) \in Keys
  BY <1>4 DEF Via, Key, Keys
<1>8. JobStands(k)'
  <2>1. /\ j.draft \in Inline /\ j.photo <= PhotosOf[j.draft]
        /\ j.photo > 0 => Key(j.number, 1, "evidence") \in bucket
        /\ \A p \in 1..(j.photo - 1) : Key(j.number, p, "inline") \in bucket
    BY <1>1 DEF CreateStands
  <2>2. Key(j.number, 1, "evidence") \in bucket'
    BY <1>3, <1>4, <2>1 DEF Via
  <2>3. \A p \in 1..j.photo : Key(j.number, p, "inline") \in bucket'
    BY <1>3, <1>4, <2>1 DEF Via
  <2>4. CASE Ingested(j)
    <3>1. j.photo = PhotosOf[j.draft]
      BY <1>4, <2>1, <2>4 DEF Ingested
    <3> QED
      BY <1>1, <1>5, <2>2, <2>3, <2>4, <3>1 DEF JobStands, CreateStands, Attaches
  <2>5. CASE ~Ingested(j)
    <3>1. k.photo <= PhotosOf[j.draft] /\ k.photo - 1 = j.photo
      BY <1>4, <1>5, <2>5 DEF Ingested
    <3> QED
      BY <1>1, <1>5, <2>1, <2>2, <2>3, <2>5, <3>1 DEF JobStands, CreateStands, Attaches
  <2> QED
    BY <2>4, <2>5
<1>9. NumbersGrow'
  BY <1>1, <1>3, <1>5, <1>6, HeldStay DEF Holds
<1> QED
  BY <1>1, <1>3, <1>5, <1>6, <1>7, <1>8, <1>9, HandlerKeeps DEF Writes, Attaches, PhotosInv, PhotosTypeOK

LEMMA PutLegacyKeeps == ASSUME PhotosInv, NEW j \in jobs, PutLegacy(j) PROVE PhotosInv'
<1>1. j.step = "put" /\ j \in PhotoJob /\ Attaches(j) /\ AttachStands(j)
  BY RoleIs DEF PutLegacy
<1>2. PICK k : k = [j EXCEPT !.step = "read"]
  OBVIOUS
<1>3. /\ UNCHANGED <<counter, reports, composer, abandoned, uploaded, doubted, overlapped>>
      /\ bucket' = bucket \cup {AttachKey(j)}
  BY DEF PutLegacy, toldVars
<1>4. /\ k \in PhotoJob /\ k.draft = j.draft /\ k.what = j.what /\ k.heard = j.heard
      /\ k.number = j.number /\ k.photo = j.photo /\ k.step = "read"
  BY <1>1, <1>2 DEF PhotoJob
<1>5. Moved(j, k)
  BY <1>1, <1>2, <1>3, <1>4 DEF PutLegacy, Advance, Moved
<1>6. AttachKey(j) \in Keys
  <2>1. j.number \in Nat /\ j.photo \in Nat \ {0} /\ j.what \in {"direct", "legacy"}
    <3>1. composer[j.draft].photo \in Nat /\ j.number \in Nat
      BY <1>1, JobIs DEF PhotosInv, PhotosTypeOK, Composer
    <3> QED
      BY <1>1, <3>1 DEF AttachStands, Attaches
  <2> QED
    BY <2>1 DEF AttachKey, Key, Keys
<1>7. JobStands(k)'
  <2>1. Attaches(k)' /\ RowsOf(k.draft)' = RowsOf(j.draft) /\ AttachKey(k)' \in bucket'
    BY <1>1, <1>3, <1>4 DEF Attaches, RowsOf, AttachKey, Key
  <2>2. AttachStands(k)'
    BY <1>1, <1>3, <1>4, <2>1 DEF AttachStands
  <2> QED
    BY <2>1, <2>2 DEF JobStands
<1>8. NumbersGrow'
  BY <1>3, <1>4, <1>5, HeldStay DEF Holds
<1> QED
  BY <1>1, <1>3, <1>4, <1>5, <1>6, <1>7, <1>8, HandlerKeeps DEF Writes, PhotosInv, PhotosTypeOK

LEMMA ReadReportKeeps == ASSUME PhotosInv, NEW j \in jobs, ReadReport(j) PROVE PhotosInv'
<1>1. j.step = "read" /\ j \in PhotoJob /\ Attaches(j) /\ AttachStands(j)
  BY RoleIs DEF ReadReport
<1>2. PICK k : k = [j EXCEPT !.step = "write", !.seen = reports[j.number].photos]
  OBVIOUS
<1>3. /\ UNCHANGED <<counter, reports, bucket, composer, abandoned, uploaded, doubted>>
      /\ overlapped' = overlapped \cup
           {a.number : a \in {i \in jobs \ {j} : i.number = j.number /\ i.step = "write"}}
  BY DEF ReadReport, storeVars
<1>4. reports[j.number].photos \in Seq(Keys) /\ Range(reports[j.number].photos) \subseteq bucket
  <2>1. j.number \in DOMAIN reports
    BY <1>1 DEF AttachStands, RowsOf
  <2> QED
    BY <2>1 DEF PhotosInv, PhotosTypeOK, PhotoRow, ShownIsStored, ShownKeys
<1>5. /\ k \in PhotoJob /\ k.draft = j.draft /\ k.what = j.what /\ k.heard = j.heard
      /\ k.number = j.number /\ k.photo = j.photo /\ k.step = "write"
      /\ k.seen = reports[j.number].photos
  BY <1>1, <1>2, <1>4 DEF PhotoJob
<1>6. Moved(j, k)
  BY <1>1, <1>2, <1>3, <1>5 DEF ReadReport, Advance, Moved
<1>7. JobStands(k)'
  <2>1. Attaches(k)' /\ RowsOf(k.draft)' = RowsOf(j.draft) /\ AttachKey(k)' \in bucket'
    BY <1>1, <1>3, <1>5 DEF Attaches, RowsOf, AttachKey, Key, AttachStands
  <2>2. AttachStands(k)'
    BY <1>1, <1>3, <1>4, <1>5, <2>1 DEF AttachStands
  <2> QED
    BY <2>1, <2>2 DEF JobStands
<1>8. NumbersGrow'
  BY <1>3, <1>5, <1>6, HeldStay DEF Holds
<1>9. /\ \A a \in jobs \ {j} : Writes(a) /\ a.number = j.number => j.number \in overlapped'
      /\ overlapped' \subseteq Nat /\ overlapped \subseteq overlapped'
  <2>1. j.number \in Nat
    BY <1>1, JobIs
  <2> QED
    BY <1>3, <2>1 DEF Writes, PhotosInv, PhotosTypeOK
<1> QED
  BY <1>1, <1>3, <1>5, <1>6, <1>7, <1>8, <1>9, HandlerKeeps DEF PhotosInv, PhotosTypeOK

\* A handler is done: the arrays it has not written stand as they did.
LEMMA DoneArrays ==
  ASSUME PhotosInv, NEW j, NEW k, Moved(j, k), k.step = "done", WorldGrows, ClientsPass
  PROVE  /\ \A n \in DOMAIN reports, s \in Seq(Keys) : ArrayStands(n, s) => ArrayStands(n, s)'
         /\ \A b \in jobs' : Writes(b) =>
              /\ b \in jobs \ {j} /\ b.number \in DOMAIN reports
              /\ ArrayStands(b.number, b.seen)'
         /\ \A b, c \in jobs' : /\ Attaches(b) /\ Attaches(c) /\ b.number = c.number /\ b.photo = c.photo
                                /\ <<b.number, b.photo>> \notin doubted
                                => b = c
<1>1. /\ j \in jobs /\ jobs' \subseteq (jobs \ {j}) \cup {k} /\ UNCHANGED <<composer, doubted>>
      /\ Attaches(k) => Attaches(j) /\ k.number = j.number /\ k.photo = j.photo
  BY DEF Moved, Attaches
<1>2. \A b \in jobs' : Pending(b) => b \in jobs \ {j}
  BY <1>1 DEF Pending
<1>3. ASSUME NEW n \in DOMAIN reports, NEW s \in Seq(Keys), ArrayStands(n, s) PROVE ArrayStands(n, s)'
  <2>1. composer' \in [Drafts -> Composer] /\ reports'[n].draft = reports[n].draft
    BY <1>1 DEF PhotosInv, PhotosTypeOK, WorldGrows
  <2> QED
    BY <1>1, <1>2, <1>3, <2>1, ArrayStays DEF PhotosInv
<1>4. ASSUME NEW b \in jobs', Writes(b)
      PROVE  b \in jobs \ {j} /\ b.number \in DOMAIN reports /\ ArrayStands(b.number, b.seen)'
  <2>1. b \in jobs \ {j}
    BY <1>2, <1>4 DEF Pending, Writes
  <2>2. AttachStands(b) /\ b.step = "write" /\ ArrayStands(b.number, b.seen)
    BY <1>4, <2>1 DEF PhotosInv, JobsStand, JobStands, ArraysStand, Writes
  <2>3. b.number \in DOMAIN reports /\ b.seen \in Seq(Keys)
    BY <2>2 DEF AttachStands, RowsOf
  <2> QED
    BY <1>3, <2>1, <2>2, <2>3
<1>5. ASSUME NEW b \in jobs', NEW c \in jobs', Attaches(b), Attaches(c),
             b.number = c.number, b.photo = c.photo, <<b.number, b.photo>> \notin doubted
      PROVE  b = c
  <2>1. PICK a \in jobs : Attaches(a) /\ a.number = b.number /\ a.photo = b.photo
                          /\ (IF b = k THEN a = j ELSE a = b /\ a # j)
    BY <1>1, <1>5
  <2>2. PICK e \in jobs : Attaches(e) /\ e.number = c.number /\ e.photo = c.photo
                          /\ (IF c = k THEN e = j ELSE e = c /\ e # j)
    BY <1>1, <1>5
  <2>3. a = e
    BY <1>5, <2>1, <2>2 DEF PhotosInv, ArraysStand
  <2> QED
    BY <2>1, <2>2, <2>3
<1> QED
  BY <1>3, <1>4, <1>5

LEMMA InsertReportKeeps == ASSUME PhotosInv, NEW j \in jobs, InsertReport(j) PROVE PhotosInv'
<1>1. j.step = "insert" /\ j \in PhotoJob /\ ~Attaches(j) /\ CreateStands(j)
  BY RoleIs DEF InsertReport
<1>2. PICK n \in Nat : n = j.number
  BY <1>1, JobIs
<1>3. PICK d \in Drafts : d = j.draft
  BY <1>1, JobIs
<1>4. PICK r : r = CreatedRow(j)
  OBVIOUS
<1>5. PICK k : k = [j EXCEPT !.step = "done"]
  OBVIOUS
<1>6. /\ UNCHANGED <<counter, bucket, composer, abandoned, uploaded, doubted, overlapped>>
      /\ n \notin DOMAIN reports
      /\ reports' = [i \in DOMAIN reports \cup {n} |-> IF i = n THEN r ELSE reports[i]]
  BY <1>2, <1>4 DEF InsertReport, toldVars
<1>7. k \in PhotoJob /\ k.step = "done" /\ k.draft = d /\ k.what = j.what /\ k.heard = j.heard /\ k.number = n
  BY <1>1, <1>2, <1>3, <1>5 DEF PhotoJob
<1>8. Moved(j, k) /\ \A b \in jobs' : b = k \/ b \in jobs \ {j}
  BY <1>1, <1>3, <1>5, <1>6, <1>7 DEF InsertReport, Advance, Moved
\* The row: its objects are stored.
<1>9. /\ r \in PhotoRow /\ r.draft = d
      /\ r.evidence = NoKey \/ r.evidence[2] = 1
      /\ Range(r.photos) \cup ({r.evidence} \ {NoKey}) \subseteq bucket
      /\ d \notin Inline => r.photos = <<>>
  <2>1. CASE d \in Inline
    <3>1. PhotosOf[d] \in Nat
      BY PhotosAssumption
    <3>2. Key(n, 1, "evidence") \in Keys /\ \A p \in 1..PhotosOf[d] : Key(n, p, "inline") \in Keys
      BY <3>1 DEF Key, Keys
    <3>3. PICK e : e = Key(n, 1, "evidence")
      OBVIOUS
    <3>4. PICK s : s = [p \in 1..PhotosOf[d] |-> Key(n, p, "inline")]
      OBVIOUS
    <3>5. s \in Seq(Keys) /\ Len(s) = PhotosOf[d] /\ \A p \in 1..PhotosOf[d] : s[p] = Key(n, p, "inline")
      BY <3>1, <3>2, <3>4
    <3>6. e \in bucket /\ \A p \in 1..PhotosOf[d] : Key(n, p, "inline") \in bucket
      BY <1>1, <1>2, <1>3, <2>1, <3>3 DEF CreateStands
    <3>7. Range(s) \subseteq bucket
      BY <3>4, <3>6 DEF Range
    <3>8. r = [draft |-> d, evidence |-> e, photos |-> s]
      BY <1>2, <1>3, <1>4, <2>1, <3>3, <3>4 DEF CreatedRow, Row
    <3>9. e[2] = 1
      BY <3>3 DEF Key
    <3> QED
      BY <2>1, <3>2, <3>3, <3>5, <3>6, <3>7, <3>8, <3>9 DEF PhotoRow
  <2>2. CASE d \notin Inline
    <3>1. r = [draft |-> d, evidence |-> NoKey, photos |-> <<>>]
      BY <1>3, <1>4, <2>2 DEF CreatedRow, Row
    <3>2. <<>> \in Seq(Keys) /\ Range(<<>>) = {}
      BY DEF Range
    <3> QED
      BY <3>1, <3>2 DEF PhotoRow
  <2> QED
    BY <2>1, <2>2
<1>10. /\ DOMAIN reports' = DOMAIN reports \cup {n} /\ reports'[n] = r
       /\ \A i \in DOMAIN reports : i # n /\ reports'[i] = reports[i]
  BY <1>6
<1>11. WorldGrows
  BY <1>6, <1>10 DEF WorldGrows
<1>12. JobStands(k)'
  <2>1. n \in RowsOf(d)'
    BY <1>9, <1>10 DEF RowsOf
  <2>2. ~Attaches(k) /\ CreateStands(k)'
    BY <1>1, <1>7, <2>1 DEF CreateStands, Attaches
  <2> QED
    BY <2>2 DEF JobStands, Attaches
<1>13. /\ jobs' \subseteq PhotoJob /\ IsFiniteSet(jobs') /\ ClientsPass
       /\ JobsStand' /\ ComposersStand' /\ HeardInTurn'
  BY <1>8, <1>11, <1>12, HandlerStands
<1>14. PhotosTypeOK'
  <2>1. DOMAIN reports' \subseteq Nat /\ IsFiniteSet(DOMAIN reports')
    BY <1>10, FS_AddElement DEF PhotosInv, PhotosTypeOK
  <2>2. reports' \in [DOMAIN reports' -> PhotoRow]
    BY <1>6, <1>9, <1>10 DEF PhotosInv, PhotosTypeOK
  <2>3. uploaded' \subseteq (DOMAIN reports') \X Nat
    BY <1>6, <1>10 DEF PhotosInv, PhotosTypeOK
  <2> QED
    BY <1>6, <1>13, <2>1, <2>2, <2>3 DEF PhotosInv, PhotosTypeOK
<1>15. NumbersGrow'
  <2>1. Holds(j) /\ ~Holds(k)
    BY <1>1, <1>7 DEF Holds
  <2>2. counter \in Nat /\ n <= counter
    BY <1>2, <2>1 DEF PhotosInv, NumbersGrow
  <2>3. \A b \in jobs' : Holds(b) => b \in jobs \ {j} /\ b.number # n
    BY <1>2, <1>8, <2>1 DEF PhotosInv, NumbersGrow, NumbersAreFresh, Holds
  <2>4. NumbersAreFresh'
    BY <1>10, <2>3 DEF PhotosInv, NumbersGrow, NumbersAreFresh, Holds
  <2> QED
    BY <1>6, <1>10, <2>2, <2>3, <2>4 DEF PhotosInv, NumbersGrow, Holds
<1>16. \A b \in jobs' : Attaches(b) => b \in jobs /\ b.number \in DOMAIN reports
  <2>1. ~Attaches(k)
    BY <1>1, <1>7 DEF Attaches
  <2> QED
    BY <1>8, <2>1 DEF PhotosInv, JobsStand, JobStands, AttachStands, RowsOf
<1>17. OverlapsAreKnown'
  BY <1>6, <1>10, <1>16 DEF PhotosInv, OverlapsAreKnown, Writes, Attaches
<1>18. EvidenceIsFirst'
  BY <1>9, <1>10 DEF PhotosInv, EvidenceIsFirst
<1>19. \A i \in DOMAIN reports : ShownKeys(i)' = ShownKeys(i)
  BY <1>10 DEF ShownKeys
<1>20. DoneIsShown'
  BY <1>6, <1>16, <1>19 DEF PhotosInv, DoneIsShown, Attaches
<1>21. ShownIsStored'
  <2>1. ShownKeys(n)' \subseteq bucket
    BY <1>9, <1>10 DEF ShownKeys
  <2> QED
    BY <1>6, <1>10, <1>19, <2>1 DEF PhotosInv, ShownIsStored
<1>22. UploadedIsShown'
  <2>1. \A u \in uploaded : u[1] \in DOMAIN reports
    BY DEF PhotosInv, PhotosTypeOK
  <2> QED
    BY <1>6, <1>19, <2>1 DEF PhotosInv, UploadedIsShown
<1>23. ArraysStand'
  <2>1. ASSUME NEW i \in DOMAIN reports PROVE ArrayStands(i, reports[i].photos)'
    <3>1. reports[i].photos \in Seq(Keys) /\ ArrayStands(i, reports[i].photos)
      BY DEF PhotosInv, PhotosTypeOK, PhotoRow, ArraysStand
    <3>2. PICK s \in Seq(Keys) : s = reports[i].photos
      BY <3>1
    <3>3. ArrayStands(i, s)' /\ reports'[i].photos = s
      BY <1>7, <1>8, <1>10, <1>11, <1>13, <3>1, <3>2, DoneArrays
    <3> QED
      BY <3>3
  <2>2. ArrayStands(n, reports[n].photos)'
    BY <1>9, <1>10 DEF ArrayStands
  <2> QED
    BY <1>6, <1>7, <1>8, <1>10, <1>11, <1>13, <2>1, <2>2, DoneArrays DEF ArraysStand, Writes, Attaches
<1>24. SubmissionsCount'
  <2>1. ASSUME NEW f \in Drafts
        PROVE  /\ Cardinality(RowsOf(f)') + Cardinality(Creating(f)') <= composer[f].tries
               /\ RowsOf(f) \subseteq RowsOf(f)'
    <3>1. /\ IsFiniteSet(RowsOf(f)) /\ IsFiniteSet(Creating(f)) /\ n \notin RowsOf(f)
      BY <1>6, FS_Subset DEF PhotosInv, PhotosTypeOK, RowsOf, Creating
    <3>2. RowsOf(f)' = RowsOf(f) \cup (IF f = d THEN {n} ELSE {})
      BY <1>9, <1>10 DEF RowsOf
    <3>3. Creating(f)' \subseteq Creating(f) \ {j} /\ (f = d => j \in Creating(f))
      BY <1>1, <1>3, <1>7, <1>8, JobIs DEF Creating, Attaches
    <3>4. /\ IsFiniteSet(Creating(f)')
          /\ f # d => Cardinality(Creating(f)') <= Cardinality(Creating(f))
          /\ f = d => Cardinality(Creating(f)') <= Cardinality(Creating(f)) - 1
      <4>1. CASE f # d
        BY <3>1, <3>3, <4>1, FS_Subset
      <4>2. CASE f = d
        <5>1. /\ IsFiniteSet(Creating(f) \ {j})
              /\ Cardinality(Creating(f) \ {j}) = Cardinality(Creating(f)) - 1
          BY <3>1, <3>3, <4>2, FS_RemoveElement
        <5> QED
          BY <3>3, <4>2, <5>1, FS_Subset
      <4> QED
        BY <4>1, <4>2
    <3>5. /\ f # d => Cardinality(RowsOf(f)') = Cardinality(RowsOf(f))
          /\ f = d => Cardinality(RowsOf(f)') = Cardinality(RowsOf(f)) + 1
      <4>1. Cardinality(RowsOf(f) \cup {n}) = Cardinality(RowsOf(f)) + 1
        BY <3>1, FS_AddElement
      <4> QED
        BY <3>2, <4>1
    <3>6. /\ Cardinality(RowsOf(f)) \in Nat /\ Cardinality(Creating(f)) \in Nat
          /\ Cardinality(Creating(f)') \in Nat /\ composer[f].tries \in Nat
      BY <3>1, <3>4, FS_CardinalityType DEF PhotosInv, PhotosTypeOK, Composer
    <3>7. Cardinality(RowsOf(f)) + Cardinality(Creating(f)) <= composer[f].tries
      BY DEF PhotosInv, SubmissionsCount
    <3> QED
      BY <3>2, <3>3, <3>4, <3>5, <3>6, <3>7
  <2> QED
    BY <1>6, <2>1 DEF PhotosInv, SubmissionsCount
<1> QED
  BY <1>13, <1>14, <1>15, <1>17, <1>18, <1>20, <1>21, <1>22, <1>23, <1>24 DEF PhotosInv

\* An array with the photograph of a handler that has read it added.
LEMMA ArrayWithPhoto ==
  ASSUME PhotosInv, NEW j \in jobs, Writes(j), NEW k, Moved(j, k), k.step = "done",
         NEW n, n = j.number, n \in DOMAIN reports, reports'[n].draft = reports[n].draft,
         ArrayStands(n, j.seen), NEW q \in Keys, q[2] = j.photo
  PROVE  ArrayStands(n, Append(j.seen, q))'
<1>1. AttachStands(j) /\ j.seen \in Seq(Keys) /\ Pending(j)
  BY RoleIs DEF Writes, AttachStands, Pending
<1>2. PICK s \in Seq(Keys) : s = j.seen
  BY <1>1
<1>3. PICK t \in Seq(Keys) : t = Append(s, q)
  <2>1. Append(s, q) \in Seq(Keys)
    OBVIOUS
  <2> QED
    BY <2>1
<1>4. /\ UNCHANGED <<composer, doubted>> /\ \A b \in jobs' : Pending(b) => b \in jobs \ {j}
  BY DEF Moved, Pending
<1>5. SUFFICES ASSUME NEW d, d = reports[n].draft, d \in Drafts \ Inline, NEW i \in 1..Len(t)
               PROVE  /\ composer[d].number = n /\ t[i][2] <= composer[d].photo
                      /\ <<n, t[i][2]>> \notin doubted =>
                           /\ t[i][2] = composer[d].photo => composer[d].step \notin {"put", "confirm"}
                           /\ \A b \in jobs' : Pending(b) /\ b.number = n => b.photo # t[i][2]
                           /\ \A h \in 1..Len(t) : h # i => t[h][2] # t[i][2]
  BY <1>2, <1>3, <1>4 DEF ArrayStands, Pending, Attaches
<1>6. /\ Len(s) \in Nat /\ Len(t) = Len(s) + 1 /\ t[Len(t)] = q
      /\ \A h \in 1..Len(t) : h # Len(t) => h \in 1..Len(s) /\ t[h] = s[h]
  BY <1>3
<1>7. \A h \in 1..Len(s) :
        /\ composer[d].number = n /\ s[h][2] <= composer[d].photo
        /\ <<n, s[h][2]>> \notin doubted =>
             /\ s[h][2] = composer[d].photo => composer[d].step \notin {"put", "confirm"}
             /\ \A b \in jobs : Pending(b) /\ b.number = n => b.photo # s[h][2]
             /\ \A e \in 1..Len(s) : e # h => s[e][2] # s[h][2]
  BY <1>2, <1>5 DEF ArrayStands
<1>8. /\ j.draft = d /\ composer[d].number = n
      /\ j.photo \in 1..composer[d].photo
      /\ j.photo = composer[d].photo => composer[d].step \notin {"put", "confirm"}
  BY <1>1, <1>5 DEF AttachStands, RowsOf
<1>9. composer[d].photo \in Nat /\ j.photo \in Nat /\ j.photo <= composer[d].photo
  <2>1. composer[d].photo \in Nat
    BY <1>5 DEF PhotosInv, PhotosTypeOK, Composer
  <2> QED
    BY <1>8, <2>1
<1>10. CASE i = Len(t)
  <2>1. t[i][2] = j.photo
    BY <1>6, <1>10
  <2>2. ASSUME <<n, j.photo>> \notin doubted, NEW b \in jobs', Pending(b), b.number = n
        PROVE  b.photo # j.photo
    BY <1>1, <1>4, <2>2 DEF PhotosInv, ArraysStand, Pending
  <2>3. ASSUME <<n, j.photo>> \notin doubted, NEW h \in 1..Len(t), h # i PROVE t[h][2] # j.photo
    <3>1. h \in 1..Len(s) /\ t[h] = s[h]
      BY <1>6, <1>10, <2>3
    <3> QED
      BY <1>1, <1>7, <2>3, <3>1
  <2> QED
    BY <1>8, <1>9, <2>1, <2>2, <2>3
<1>11. CASE i # Len(t)
  <2>1. i \in 1..Len(s) /\ t[i] = s[i]
    BY <1>6, <1>11
  <2>2. ASSUME <<n, s[i][2]>> \notin doubted, NEW h \in 1..Len(t), h # i PROVE t[h][2] # s[i][2]
    <3>1. CASE h = Len(t)
      BY <1>1, <1>6, <1>7, <2>1, <2>2, <3>1
    <3>2. CASE h # Len(t)
      BY <1>6, <1>7, <2>1, <2>2, <3>2
    <3> QED
      BY <3>1, <3>2
  <2> QED
    BY <1>4, <1>7, <2>1, <2>2
<1> QED
  BY <1>10, <1>11

LEMMA WritePhotoKeeps == ASSUME PhotosInv, NEW j \in jobs, WritePhoto(j) PROVE PhotosInv'
<1>1. j.step = "write" /\ j \in PhotoJob /\ Attaches(j) /\ AttachStands(j) /\ Writes(j)
  BY RoleIs DEF WritePhoto, Writes
<1>2. PICK n \in Nat : n = j.number
  BY <1>1, JobIs
<1>3. n \in DOMAIN reports /\ n \in RowsOf(j.draft)
  BY <1>1, <1>2 DEF AttachStands, RowsOf
<1>4. PICK q : q = AttachKey(j)
  OBVIOUS
<1>5. q \in bucket /\ q \in Keys /\ q[2] = j.photo
  BY <1>1, <1>4 DEF AttachStands, AttachKey, Key, PhotosInv, PhotosTypeOK
<1>6. PICK s \in Seq(Keys) : s = j.seen /\ Range(s) \subseteq bucket
  BY <1>1 DEF AttachStands
<1>7. PICK r \in PhotoRow : r = reports[n]
  BY <1>3 DEF PhotosInv, PhotosTypeOK
<1>8. PICK k : k = [j EXCEPT !.step = "done", !.seen = <<>>]
  OBVIOUS
<1>9. k \in PhotoJob /\ k.step = "done" /\ k.draft = j.draft /\ k.what = j.what /\ k.heard = j.heard
      /\ k.number = j.number /\ k.photo = j.photo
  <2>1. <<>> \in Seq(Keys)
    OBVIOUS
  <2> QED
    BY <1>1, <1>8, <2>1 DEF PhotoJob
<1>10. UNCHANGED <<counter, bucket, composer, abandoned, uploaded, doubted, overlapped>>
  BY DEF WritePhoto, toldVars
<1>11. Moved(j, k) /\ \A b \in jobs' : b = k \/ b \in jobs \ {j}
  BY <1>1, <1>8, <1>9, <1>10 DEF WritePhoto, Advance, Moved
\* The row it leaves.
<1>12. PICK w : /\ reports' = [reports EXCEPT ![n] = w]
                /\ w \in PhotoRow /\ w.draft = r.draft
                /\ \/ j.photo = 1 /\ w.evidence = q /\ w.photos = r.photos
                   \/ j.photo # 1 /\ w.evidence = r.evidence /\ w.photos = Append(s, q)
  <2>1. CASE j.photo = 1
    <3>1. PICK w : w = [r EXCEPT !.evidence = q]
      OBVIOUS
    <3>2. reports' = [reports EXCEPT ![n] = w]
      BY <1>2, <1>4, <1>7, <2>1, <3>1 DEF WritePhoto, Kind
    <3>3. w \in PhotoRow /\ w.draft = r.draft /\ w.evidence = q /\ w.photos = r.photos
      BY <1>5, <3>1 DEF PhotoRow
    <3> QED
      BY <2>1, <3>2, <3>3
  <2>2. CASE j.photo # 1
    <3>1. PICK t \in Seq(Keys) : t = Append(s, q)
      <4>1. Append(s, q) \in Seq(Keys)
        BY <1>5
      <4> QED
        BY <4>1
    <3>2. PICK w : w = [r EXCEPT !.photos = t]
      OBVIOUS
    <3>3. reports' = [reports EXCEPT ![n] = w]
      BY <1>2, <1>4, <1>6, <1>7, <2>2, <3>1, <3>2 DEF WritePhoto, Kind
    <3>4. w \in PhotoRow /\ w.draft = r.draft /\ w.evidence = r.evidence /\ w.photos = t
      BY <3>2 DEF PhotoRow
    <3> QED
      BY <2>2, <3>1, <3>3, <3>4
  <2> QED
    BY <2>1, <2>2
<1>13. /\ DOMAIN reports' = DOMAIN reports /\ reports'[n] = w
       /\ \A i \in DOMAIN reports : i # n => reports'[i] = reports[i]
       /\ \A i \in DOMAIN reports : reports'[i].draft = reports[i].draft
       /\ reports' \in [DOMAIN reports -> PhotoRow]
  <2>1. reports \in [DOMAIN reports -> PhotoRow]
    BY DEF PhotosInv, PhotosTypeOK
  <2> QED
    BY <1>3, <1>7, <1>12, <2>1
<1>14. WorldGrows
  BY <1>10, <1>13 DEF WorldGrows
<1>15. JobStands(k)'
  <2>1. Attaches(k) /\ n \in RowsOf(j.draft)'
    BY <1>1, <1>3, <1>9, <1>14, RowsStay DEF Attaches
  <2>2. AttachStands(k)'
    BY <1>1, <1>2, <1>9, <1>10, <2>1 DEF AttachStands
  <2> QED
    BY <2>1, <2>2 DEF JobStands, Attaches
<1>16. /\ jobs' \subseteq PhotoJob /\ IsFiniteSet(jobs') /\ ClientsPass
       /\ JobsStand' /\ ComposersStand' /\ HeardInTurn'
  BY <1>11, <1>14, <1>15, HandlerStands
<1>17. PhotosTypeOK'
  BY <1>10, <1>13, <1>16 DEF PhotosInv, PhotosTypeOK
<1>18. NumbersGrow'
  BY <1>9, <1>10, <1>11, <1>13, HeldStay DEF Holds
\* One that has not overlapped is the only one that writes.
<1>19. n \notin overlapped => s = r.photos /\ \A a \in jobs : Writes(a) /\ a.number = n => a = j
  BY <1>1, <1>2, <1>6, <1>7 DEF PhotosInv, OverlapsAreKnown
<1>20. OverlapsAreKnown'
  <2>1. ASSUME NEW b \in jobs', Writes(b), b.number \notin overlapped
        PROVE  /\ b.seen = reports'[b.number].photos
               /\ \A c \in jobs' : Writes(c) /\ c.number = b.number => c = b
    <3>1. b \in jobs \ {j} /\ b.number \in DOMAIN reports
      BY <1>9, <1>11, <1>14, <1>16, <2>1, DoneArrays
    <3>2. b.number # n
      BY <1>19, <2>1, <3>1
    <3>3. \A c \in jobs' : Writes(c) => c \in jobs
      BY <1>9, <1>11 DEF Writes
    <3> QED
      BY <1>13, <2>1, <3>1, <3>2, <3>3 DEF PhotosInv, OverlapsAreKnown
  <2> QED
    BY <1>10, <2>1 DEF OverlapsAreKnown, Writes, Attaches
<1>21. EvidenceIsFirst'
  <2>1. w.evidence # NoKey => w.evidence[2] = 1
    BY <1>3, <1>5, <1>7, <1>12 DEF PhotosInv, EvidenceIsFirst
  <2> QED
    BY <1>13, <2>1 DEF PhotosInv, EvidenceIsFirst
<1>22. q # NoKey
  BY <1>5, PhotosAssumption
<1>23. \A p \in Seq(Keys) : Range(Append(p, q)) = Range(p) \cup {q}
  <2>1. SUFFICES ASSUME NEW p \in Seq(Keys) PROVE Range(Append(p, q)) = Range(p) \cup {q}
    OBVIOUS
  <2>2. PICK t \in Seq(Keys) : t = Append(p, q)
    <3>1. Append(p, q) \in Seq(Keys)
      BY <1>5
    <3> QED
      BY <3>1
  <2>3. /\ Len(p) \in Nat /\ DOMAIN p = 1..Len(p) /\ DOMAIN t = 1..(Len(p) + 1) /\ t[Len(p) + 1] = q
        /\ \A i \in 1..Len(p) : t[i] = p[i]
    BY <2>2
  <2> QED
    BY <2>2, <2>3 DEF Range
<1>24. /\ q \in ShownKeys(n)'
       /\ ShownKeys(n)' \subseteq bucket
       /\ n \notin overlapped => \A x \in ShownKeys(n) : \E y \in ShownKeys(n)' : y[2] = x[2]
  <2>1. ShownKeys(n)' = Range(w.photos) \cup ({w.evidence} \ {NoKey})
        /\ ShownKeys(n) = Range(r.photos) \cup ({r.evidence} \ {NoKey})
    BY <1>7, <1>13 DEF ShownKeys
  <2>2. ShownKeys(n) \subseteq bucket
    BY <1>3 DEF PhotosInv, ShownIsStored
  <2>3. r.evidence # NoKey => r.evidence[2] = 1
    BY <1>3, <1>7 DEF PhotosInv, EvidenceIsFirst
  <2>4. CASE j.photo = 1
    BY <1>5, <1>12, <1>22, <2>1, <2>2, <2>3, <2>4
  <2>5. CASE j.photo # 1
    <3>1. Range(w.photos) = Range(s) \cup {q} /\ w.evidence = r.evidence
      BY <1>12, <1>23, <2>5
    <3> QED
      BY <1>5, <1>6, <1>19, <2>1, <2>2, <3>1
  <2> QED
    BY <2>4, <2>5
<1>25. \A i \in DOMAIN reports : i # n => ShownKeys(i)' = ShownKeys(i)
  BY <1>13 DEF ShownKeys
<1>26. ShownIsStored'
  BY <1>10, <1>13, <1>24, <1>25 DEF PhotosInv, ShownIsStored
<1>27. UploadedIsShown'
  <2>1. \A u \in uploaded : u[1] \in DOMAIN reports
    BY DEF PhotosInv, PhotosTypeOK
  <2>2. ASSUME NEW u \in uploaded, u[1] \notin overlapped PROVE \E x \in ShownKeys(u[1])' : x[2] = u[2]
    <3>1. PICK x \in ShownKeys(u[1]) : x[2] = u[2]
      BY <2>2 DEF PhotosInv, UploadedIsShown
    <3>2. CASE u[1] = n
      <4>1. PICK y \in ShownKeys(n)' : y[2] = x[2]
        BY <1>24, <2>2, <3>1, <3>2
      <4> QED
        BY <3>1, <3>2, <4>1
    <3>3. CASE u[1] # n
      <4>1. ShownKeys(u[1])' = ShownKeys(u[1])
        BY <1>25, <2>1, <3>3
      <4> QED
        BY <3>1, <4>1
    <3> QED
      BY <3>2, <3>3
  <2> QED
    BY <1>10, <2>2 DEF UploadedIsShown
<1>28. DoneIsShown'
  <2>1. ASSUME NEW b \in jobs', Attaches(b), b.step = "done", b.number \notin overlapped
        PROVE  \E x \in ShownKeys(b.number)' : x[2] = b.photo
    <3>1. CASE b = k
      <4>1. b.number = n /\ b.photo = j.photo
        BY <1>2, <1>9, <3>1
      <4> QED
        BY <1>5, <1>24, <4>1
    <3>2. CASE b # k
      <4>1. b \in jobs /\ b.number \in DOMAIN reports
        BY <1>11, <2>1, <3>2 DEF PhotosInv, JobsStand, JobStands, AttachStands, RowsOf
      <4>2. PICK x \in ShownKeys(b.number) : x[2] = b.photo
        BY <2>1, <4>1 DEF PhotosInv, DoneIsShown
      <4>3. CASE b.number = n
        <5>1. PICK y \in ShownKeys(n)' : y[2] = x[2]
          BY <1>24, <2>1, <4>2, <4>3
        <5> QED
          BY <4>2, <4>3, <5>1
      <4>4. CASE b.number # n
        <5>1. ShownKeys(b.number)' = ShownKeys(b.number)
          BY <1>25, <4>1, <4>4
        <5> QED
          BY <4>2, <5>1
      <4> QED
        BY <4>3, <4>4
    <3> QED
      BY <3>1, <3>2
  <2> QED
    BY <1>10, <2>1 DEF DoneIsShown, Attaches
<1>29. ArraysStand'
  <2>1. ASSUME NEW i \in DOMAIN reports, i # n \/ j.photo = 1 PROVE ArrayStands(i, reports[i].photos)'
    <3>1. PICK p \in Seq(Keys) : p = reports[i].photos /\ ArrayStands(i, p)
      BY DEF PhotosInv, PhotosTypeOK, PhotoRow, ArraysStand
    <3>2. reports'[i].photos = p
      BY <1>7, <1>12, <1>13, <2>1, <3>1
    <3>3. ArrayStands(i, p)'
      BY <1>9, <1>11, <1>14, <1>16, <3>1, DoneArrays
    <3> QED
      BY <3>2, <3>3
  <2>2. ASSUME j.photo # 1 PROVE ArrayStands(n, reports[n].photos)'
    <3>1. ArrayStands(n, j.seen)
      BY <1>1, <1>2 DEF PhotosInv, ArraysStand
    <3>2. ArrayStands(n, Append(j.seen, q))'
      BY <1>1, <1>2, <1>3, <1>5, <1>9, <1>11, <1>13, <3>1, ArrayWithPhoto
    <3>3. reports'[n].photos = Append(j.seen, q)
      BY <1>6, <1>12, <1>13, <2>2
    <3> QED
      BY <3>2, <3>3
  <2>3. \A b \in jobs' : Writes(b) => ArrayStands(b.number, b.seen)'
    BY <1>9, <1>11, <1>14, <1>16, DoneArrays
  <2> QED
    BY <1>9, <1>10, <1>11, <1>13, <1>14, <1>16, <2>1, <2>2, <2>3, DoneArrays DEF ArraysStand, Writes, Attaches
<1>30. SubmissionsCount'
  <2>1. \A d \in Drafts : RowsOf(d)' = RowsOf(d)
    BY <1>13 DEF RowsOf
  <2> DEFINE m == Becoming(j, k)
  <2>2. /\ Become(m, {}) /\ m[j] = k /\ \A a \in jobs : a # j => m[a] = a
    BY <1>11, MovedBecomes
  <2>3. k.what # "create"
    BY <1>1, <1>9 DEF Attaches
  <2> HIDE DEF m
  <2>4. ASSUME NEW d \in Drafts
        PROVE  Cardinality(RowsOf(d)') + Cardinality(Creating(d)') <= composer[d].tries
    BY <2>1, <2>2, <2>3, CountsStay DEF PhotosInv
  <2> QED
    BY <1>10, <2>1, <2>4 DEF PhotosInv, SubmissionsCount
<1> QED
  BY <1>16, <1>17, <1>18, <1>20, <1>21, <1>26, <1>27, <1>28, <1>29, <1>30 DEF PhotosInv

\* A handler is gone, or nothing happens.
LEMMA FewerKeeps ==
  ASSUME PhotosInv, jobs' \subseteq jobs,
         UNCHANGED <<counter, reports, bucket, composer, abandoned, uploaded, doubted, overlapped>>
  PROVE  PhotosInv'
<1>1. jobs' \subseteq PhotoJob /\ IsFiniteSet(jobs')
  BY FS_Subset DEF PhotosInv, PhotosTypeOK
<1>2. PhotosTypeOK'
  BY <1>1 DEF PhotosInv, PhotosTypeOK
<1>3. NumbersGrow'
  BY DEF PhotosInv, NumbersGrow, NumbersAreFresh, Holds
<1>4. WorldGrows /\ ClientsPass
  <2>1. \A d \in Drafts : composer[d].photo \in Nat
    BY DEF PhotosInv, PhotosTypeOK, Composer
  <2> QED
    BY <2>1 DEF WorldGrows, ClientsPass
<1>5. JobsStand'
  <2>1. ASSUME NEW b \in jobs' PROVE JobStands(b)'
    <3>1. b \in jobs /\ JobStands(b) /\ composer' \in [Drafts -> Composer]
      BY DEF PhotosInv, PhotosTypeOK, JobsStand
    <3> QED
      BY <1>4, <3>1, StandsStay DEF PhotosInv
  <2> QED
    BY <2>1 DEF JobsStand
<1>6. ComposersStand'
  BY <1>4, ComposersStay DEF PhotosInv
<1>7. HeardInTurn' /\ OverlapsAreKnown'
  BY DEF PhotosInv, HeardInTurn, OverlapsAreKnown, Writes, Attaches
<1>8. \A n \in DOMAIN reports : ShownKeys(n)' = ShownKeys(n)
  BY DEF ShownKeys
<1>9. EvidenceIsFirst' /\ ShownIsStored' /\ UploadedIsShown'
  <2>1. \A u \in uploaded : u[1] \in DOMAIN reports
    BY DEF PhotosInv, PhotosTypeOK
  <2> QED
    BY <1>8, <2>1 DEF PhotosInv, EvidenceIsFirst, ShownIsStored, UploadedIsShown
<1>10. DoneIsShown'
  BY DEF PhotosInv, DoneIsShown, ShownKeys, Attaches
<1>11. ArraysStand'
  <2>1. ASSUME NEW n, NEW s, ArrayStands(n, s) PROVE ArrayStands(n, s)'
    BY <2>1 DEF ArrayStands, Pending, Attaches
  <2>2. \A n \in DOMAIN reports : ArrayStands(n, reports[n].photos)'
    BY <2>1 DEF PhotosInv, ArraysStand
  <2>3. \A b \in jobs' : Writes(b) => ArrayStands(b.number, b.seen)'
    BY <2>1 DEF PhotosInv, ArraysStand
  <2> QED
    BY <2>2, <2>3 DEF PhotosInv, ArraysStand, Writes, Attaches
<1>12. SubmissionsCount'
  <2>1. \A d \in Drafts : RowsOf(d)' = RowsOf(d)
    BY DEF RowsOf
  <2> DEFINE m == [a \in jobs |-> a]
  <2>2. Become(m, {}) /\ \A a \in jobs : m[a] = a
    BY FS_EmptySet, SameBecomes DEF PhotosInv
  <2> HIDE DEF m
  <2>3. ASSUME NEW d \in Drafts
        PROVE  Cardinality(RowsOf(d)') + Cardinality(Creating(d)') <= composer[d].tries
    BY <2>1, <2>2, CountsStay DEF PhotosInv
  <2> QED
    BY <2>1, <2>3 DEF PhotosInv, SubmissionsCount
<1> QED
  BY <1>2, <1>3, <1>5, <1>6, <1>7, <1>9, <1>10, <1>11, <1>12 DEF PhotosInv

LEMMA PhotosInvInit == PhotosInit => PhotosInv
<1> SUFFICES ASSUME PhotosInit PROVE PhotosInv
  OBVIOUS
<1>1. PICK old \in SUBSET OldNumbers : reports = [n \in old |-> Row(Missing, NoKey, <<>>)]
  BY DEF PhotosInit
<1>2. DOMAIN reports \subseteq Nat /\ IsFiniteSet(DOMAIN reports)
  BY <1>1, PhotosAssumption, FS_Subset
<1>3. Row(Missing, NoKey, <<>>) \in PhotoRow
  <2>1. <<>> \in Seq(Keys)
    OBVIOUS
  <2> QED
    BY <2>1 DEF Row, PhotoRow
<1>4. \A n \in DOMAIN reports : /\ reports[n].draft = Missing /\ reports[n].evidence = NoKey
                                /\ reports[n].photos = <<>>
  BY <1>1 DEF Row
<1>5. Missing \notin Drafts /\ Missing \notin Nat
  BY PhotosAssumption
<1>6. \A d \in Drafts : /\ composer[d].step = "draft" /\ composer[d].tries = 0
                        /\ composer[d].photo = 0 /\ abandoned[d] = 0
  BY DEF PhotosInit
<1>7. PhotosTypeOK
  <2>1. reports \in [DOMAIN reports -> PhotoRow]
    BY <1>1, <1>3
  <2>2. composer \in [Drafts -> Composer]
    BY DEF PhotosInit, Composer
  <2> QED
    BY <1>2, <2>1, <2>2, FS_EmptySet DEF PhotosInit, PhotosTypeOK
<1>8. NumbersGrow /\ JobsStand /\ HeardInTurn /\ OverlapsAreKnown /\ DoneIsShown
  BY <1>5 DEF PhotosInit, NumbersGrow, NumbersAreFresh, JobsStand, HeardInTurn, OverlapsAreKnown, DoneIsShown
<1>9. ComposersStand
  BY <1>6 DEF ComposersStand, Uploading
<1>10. EvidenceIsFirst /\ ShownIsStored
  BY <1>4 DEF EvidenceIsFirst, ShownIsStored, ShownKeys, Range
<1>11. UploadedIsShown
  BY DEF PhotosInit, UploadedIsShown
<1>12. ArraysStand
  BY <1>4, <1>5 DEF PhotosInit, ArraysStand, ArrayStands
<1>13. SubmissionsCount
  <2>1. ASSUME NEW d \in Drafts
        PROVE  Cardinality(RowsOf(d)) = 0 /\ Cardinality(Creating(d)) = 0
    <3>1. RowsOf(d) = {} /\ Creating(d) = {}
      BY <1>4, <1>5 DEF RowsOf, Creating, PhotosInit
    <3> QED
      BY <3>1, FS_EmptySet
  <2> QED
    BY <1>6, <2>1 DEF SubmissionsCount
<1> QED
  BY <1>7, <1>8, <1>9, <1>10, <1>11, <1>12, <1>13 DEF PhotosInv

LEMMA PhotosInvNext == PhotosInv /\ [PhotosNext]_photoVars => PhotosInv'
<1> SUFFICES ASSUME PhotosInv, [PhotosNext]_photoVars PROVE PhotosInv'
  OBVIOUS
<1>1. ASSUME NEW j \in jobs,
             FindCounter(j) \/ TakeNumber(j) \/ Ingest(j) \/ InsertReport(j)
               \/ PutLegacy(j) \/ ReadReport(j) \/ WritePhoto(j)
      PROVE  PhotosInv'
  BY <1>1, FindCounterKeeps, TakeNumberKeeps, IngestKeeps, InsertReportKeeps,
     PutLegacyKeeps, ReadReportKeeps, WritePhotoKeeps
<1>2. ASSUME NEW j \in jobs, DropJob(j) PROVE PhotosInv'
  BY <1>2, FewerKeeps DEF DropJob, storeVars, toldVars
<1>3. ASSUME NEW d \in Drafts,
             Submit(d) \/ CreateAnswered(d) \/ GiveUpCreate(d)
               \/ PutPhoto(d) \/ ConfirmPhoto(d) \/ FallBack(d) \/ PhotoAnswered(d)
               \/ GiveUpPhoto(d) \/ BudgetSpent(d)
      PROVE  PhotosInv'
  BY <1>3, SubmitKeeps, CreateAnsweredKeeps, GiveUpCreateKeeps, PutPhotoKeeps, ConfirmPhotoKeeps,
     FallBackKeeps, PhotoAnsweredKeeps, GiveUpKeeps
<1>4. CASE UNCHANGED photoVars
  BY <1>4, FewerKeeps DEF photoVars
<1> QED
  BY <1>1, <1>2, <1>3, <1>4 DEF PhotosNext

\* What the invariant says to the people: what is shown, and how often.
LEMMA PhotosInvIsSound == PhotosInv => NumbersAreFresh /\ PhotosAreSound /\ DraftsAreReports
<1> SUFFICES ASSUME PhotosInv PROVE NumbersAreFresh /\ PhotosAreSound /\ DraftsAreReports
  OBVIOUS
<1>1. NumbersAreFresh /\ ShownIsStored /\ UploadedIsShown
  BY DEF PhotosInv, NumbersGrow
<1>2. ShownTwiceIfDoubted
  BY DEF PhotosInv, ArraysStand, ArrayStands, ShownTwiceIfDoubted, RowsOf
<1>3. DraftsAreReports
  <2>1. SUFFICES ASSUME NEW d \in Drafts
                 PROVE  /\ Cardinality(RowsOf(d)) <= 1 + abandoned[d]
                        /\ composer[d].step = "cleared" => RowsOf(d) # {}
    BY DEF DraftsAreReports
  <2>2. IsFiniteSet(RowsOf(d)) /\ IsFiniteSet(Creating(d))
    BY FS_Subset DEF PhotosInv, PhotosTypeOK, RowsOf, Creating
  <2>3. /\ Cardinality(RowsOf(d)) \in Nat /\ Cardinality(Creating(d)) \in Nat
        /\ composer[d].tries \in Nat /\ abandoned[d] \in Nat
    BY <2>2, FS_CardinalityType DEF PhotosInv, PhotosTypeOK, Composer
  <2>4. /\ Cardinality(RowsOf(d)) + Cardinality(Creating(d)) <= composer[d].tries
        /\ composer[d].tries <= abandoned[d] + (IF composer[d].step = "draft" THEN 0 ELSE 1)
        /\ composer[d].step = "cleared" => RowsOf(d) # {}
    BY DEF PhotosInv, SubmissionsCount
  <2> QED
    BY <2>3, <2>4
<1> QED
  BY <1>1, <1>2, <1>3 DEF PhotosAreSound

\* Two create requests of a tenant never hold one number, nor a number a report
\* has: nextPublicId, its counter missing or not.
THEOREM NumbersStayFresh == PhotosSpec => []NumbersAreFresh
BY PhotosInvInit, PhotosInvNext, PhotosInvIsSound, PTL DEF PhotosSpec

\* What a report shows is stored, what was uploaded is shown unless two attach
\* handlers overlapped, and shown twice only after a fallback: attachPhotoKey and
\* the composer's direct upload with its base64 fallback.
THEOREM UploadsAreKept == PhotosSpec => []PhotosAreSound
BY PhotosInvInit, PhotosInvNext, PhotosInvIsSound, PTL DEF PhotosSpec

\* A draft becomes no more reports than it was given up on plus one, and is
\* cleared only when it has become one: the composer's submit.
THEOREM OneReportPerTry == PhotosSpec => []DraftsAreReports
BY PhotosInvInit, PhotosInvNext, PhotosInvIsSound, PTL DEF PhotosSpec
=============================================================================

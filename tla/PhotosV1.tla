------------------------------ MODULE PhotosV1 ------------------------------
(***************************************************************************)
(* How a report of API v1 gets its number and its photographs.  The web    *)
(* client sends the photographs inside the create request (an Inline       *)
(* draft); the Android composer creates the report first and then uploads  *)
(* them one by one: presign, PUT, confirm, with the base64 route as a      *)
(* fallback, each under a timeout.  A handler goes on when its client has  *)
(* given up, so the draft is sent again and handlers overlap.  Bytes, MIME *)
(* types, URLs and their expiry are left out; a key stands for its object. *)
(***************************************************************************)
EXTENDS Naturals, Sequences, FiniteSets, SequencesExt

CONSTANTS
  Drafts,             \* reports people compose
  Inline,             \* those of the web client
  PhotosOf,           \* how many photographs each draft has
  NoKey, Missing,
  FirstNumber,        \* 99999 in the code: the counter of a tenant without reports
  OldNumbers,         \* numbers that reports migrated from elsewhere may have
  MaxTries            \* bound: how often a person submits each draft

\* A key names the report, the photograph and how it came: a fresh UUID each time.
Keys == Nat \X (Nat \ {0}) \X {"evidence", "inline", "direct", "legacy"}
Key(n, p, via) == <<n, p, via>>

ASSUME PhotosAssumption ==
  /\ Inline \subseteq Drafts /\ PhotosOf \in [Drafts -> Nat]
  /\ FirstNumber \in Nat /\ OldNumbers \subseteq Nat /\ IsFiniteSet(OldNumbers)
  /\ MaxTries \in [Drafts -> Nat]
  /\ NoKey \notin Keys /\ Missing \notin Nat \cup Drafts

VARIABLES
  counter,            \* ReportSequence.currentNumber of the tenant, Missing without a row
  reports,            \* Report: publicId number -> its photo columns
  bucket,             \* external: the keys that have an object
  composer,           \* what each person's client is doing
  jobs,               \* the handlers under way
  abandoned,          \* history: create requests the client gave up on, by draft
  uploaded,           \* history: <<number, photo>> the client was told is attached
  doubted,            \* history: <<number, photo>> whose direct upload it gave up on
  overlapped          \* history: numbers two attach handlers worked on at once

photoVars == <<counter, reports, bucket, composer, jobs, abandoned, uploaded, doubted, overlapped>>
storeVars == <<counter, reports, bucket>>
toldVars == <<abandoned, uploaded, doubted, overlapped>>

Largest(S) == CHOOSE n \in S : \A k \in S : k <= n
Row(d, evidence, photos) == [draft |-> d, evidence |-> evidence, photos |-> photos]

PhotosInit ==
  /\ counter = Missing
  /\ \E old \in SUBSET OldNumbers : reports = [n \in old |-> Row(Missing, NoKey, <<>>)]
  /\ bucket = {}
  /\ composer = [d \in Drafts |-> [step |-> "draft", tries |-> 0, number |-> 0, photo |-> 0]]
  /\ jobs = {}
  /\ abandoned = [d \in Drafts |-> 0]
  /\ uploaded = {} /\ doubted = {} /\ overlapped = {}

-----------------------------------------------------------------------------
(* reportsService.create and reportsRepository.nextPublicId *)

Job(d, what, step) ==
  [draft |-> d, what |-> what, step |-> step, heard |-> TRUE, try |-> 0,
   number |-> composer[d].number, photo |-> composer[d].photo, seen |-> <<>>]

\* A handler moves on; one that is done waits for its client, if it still listens.
Advance(j, k) == jobs' = (jobs \ {j}) \cup IF k.step = "done" /\ ~k.heard THEN {} ELSE {k}

\* findUnique in the transaction, and the largest number when there is no counter.
FindCounter(j) ==
  /\ j \in jobs /\ j.step = "find"
  /\ Advance(j, [j EXCEPT !.step = "take", !.seen = <<counter>>])
  /\ UNCHANGED <<storeVars, composer, toldVars>>

\* Mutant: the reports that exist are not looked at.
BareBase == FirstNumber

Base == Largest({FirstNumber} \cup DOMAIN reports)

\* create, which the primary key refuses when another request made the counter
\* (DropJob), then the increment, atomic in the database.
TakeNumber(j) ==
  /\ j \in jobs /\ j.step = "take"
  /\ j.seen[1] = Missing => counter = Missing
  /\ counter' = (IF counter = Missing THEN Base ELSE counter) + 1
  /\ Advance(j, [j EXCEPT !.number = counter', !.try = 0, !.seen = <<>>,
                          !.step = IF j.draft \in Inline THEN "ingest" ELSE "insert"])
  /\ UNCHANGED <<reports, bucket, composer, toldVars>>

Ingested(j) == j.photo >= PhotosOf[j.draft]

Via(j) == IF j.photo = 0 THEN Key(j.number, 1, "evidence") ELSE Key(j.number, j.photo, "inline")

\* ingestPhotoString for the evidence (photos[0]), then ingestPhotoArray: one
\* putBytes after the other.
Ingest(j) ==
  /\ j \in jobs /\ j.step = "ingest"
  /\ PhotosOf[j.draft] > 0
  /\ bucket' = bucket \cup {Via(j)}
  /\ Advance(j, IF Ingested(j) THEN [j EXCEPT !.step = "insert"] ELSE [j EXCEPT !.photo = @ + 1])
  /\ UNCHANGED <<counter, reports, composer, toldVars>>

CreatedRow(j) ==
  IF j.draft \in Inline
    THEN Row(j.draft, Key(j.number, 1, "evidence"),
             [p \in 1..PhotosOf[j.draft] |-> Key(j.number, p, "inline")])
    ELSE Row(j.draft, NoKey, <<>>)

\* The unique publicId refuses a number in use (DropJob).
InsertReport(j) ==
  /\ j \in jobs /\ j.step = "insert" /\ j.number \notin DOMAIN reports
  /\ reports' = [n \in DOMAIN reports \cup {j.number} |->
                   IF n = j.number THEN CreatedRow(j) ELSE reports[n]]
  /\ Advance(j, [j EXCEPT !.step = "done"])
  /\ UNCHANGED <<counter, bucket, composer, toldVars>>

-----------------------------------------------------------------------------
(* The attach handlers: attachPhotoKey behind /confirm and the base64 route *)

AttachKey(j) == Key(j.number, j.photo, j.what)

\* The base64 route puts the bytes itself before it attaches the key.
PutLegacy(j) ==
  /\ j \in jobs /\ j.step = "put"
  /\ bucket' = bucket \cup {AttachKey(j)}
  /\ Advance(j, [j EXCEPT !.step = "read"])
  /\ UNCHANGED <<counter, reports, composer, toldVars>>

ReadReport(j) ==
  /\ j \in jobs /\ j.step = "read"
  /\ Advance(j, [j EXCEPT !.step = "write", !.seen = reports[j.number].photos])
  /\ overlapped' = overlapped \cup
       {k.number : k \in {i \in jobs \ {j} : i.number = j.number /\ i.step = "write"}}
  /\ UNCHANGED <<storeVars, composer, abandoned, uploaded, doubted>>

\* Mutant: every upload is sent as evidence.
AlwaysEvidence(p) == "evidence"

Kind(p) == IF p = 1 THEN "evidence" ELSE "extra"

\* The patch is written whatever has happened to the row since it was read.
WritePhoto(j) ==
  /\ j \in jobs /\ j.step = "write"
  /\ reports' = IF Kind(j.photo) = "evidence"
                  THEN [reports EXCEPT ![j.number].evidence = AttachKey(j)]
                  ELSE [reports EXCEPT ![j.number].photos = Append(j.seen, AttachKey(j))]
  /\ Advance(j, [j EXCEPT !.step = "done", !.seen = <<>>])
  /\ UNCHANGED <<counter, bucket, composer, toldVars>>

\* A handler fails, or its process dies, before its next write.
DropJob(j) ==
  /\ j \in jobs
  /\ jobs' = jobs \ {j}
  /\ UNCHANGED <<storeVars, composer, toldVars>>

-----------------------------------------------------------------------------
(* The clients: ReportComposerViewModel.submit, SpotFixApiClient.uploadReportPhoto *)

\* The client stops listening to its handlers.
Unheard(d) ==
  {j \in jobs : j.draft # d \/ ~j.heard}
    \cup {[j EXCEPT !.heard = FALSE] : j \in {i \in jobs : i.draft = d /\ i.heard /\ i.step # "done"}}
Answer(d, j) == j \in jobs /\ j.draft = d /\ j.heard /\ j.step = "done"

\* Mutant: isSubmitting is not looked at.
NotCleared(c) == c.step \in {"draft", "creating"}

NotSubmitting(c) == c.step = "draft"

Submit(d) ==
  /\ NotSubmitting(composer[d])
  /\ composer[d].tries < MaxTries[d]
  /\ composer' = [composer EXCEPT ![d].step = "creating", ![d].tries = @ + 1]
  /\ jobs' = jobs \cup {[Job(d, "create", "find") EXCEPT !.try = composer'[d].tries]}
  /\ UNCHANGED <<storeVars, toldVars>>

CreateAnswered(d) ==
  /\ composer[d].step = "creating"
  /\ \E j \in jobs :
       /\ Answer(d, j)
       /\ jobs' = jobs \ {j}
       /\ composer' = [composer EXCEPT ![d] =
            IF d \in Inline \/ PhotosOf[d] = 0
              THEN [@ EXCEPT !.step = "cleared"]
              ELSE [@ EXCEPT !.step = "put", !.number = j.number, !.photo = 1]]
  /\ UNCHANGED <<storeVars, toldVars>>

FormKept(c) == [c EXCEPT !.step = "draft"]

\* The answer is an error, is lost, or REPORT_CREATE_TIMEOUT_MS have passed.
GiveUpCreate(d) ==
  /\ composer[d].step = "creating"
  /\ composer' = [composer EXCEPT ![d] = FormKept(@)]
  /\ jobs' = Unheard(d)
  /\ abandoned' = [abandoned EXCEPT ![d] = @ + 1]
  /\ UNCHANGED <<storeVars, uploaded, doubted, overlapped>>

PutPhoto(d) ==
  /\ composer[d].step = "put"
  /\ bucket' = bucket \cup {Key(composer[d].number, composer[d].photo, "direct")}
  /\ composer' = [composer EXCEPT ![d].step = "confirm"]
  /\ UNCHANGED <<counter, reports, jobs, toldVars>>

ObjectPut(c) == c.step = "confirm"

ConfirmPhoto(d) ==
  /\ ObjectPut(composer[d])
  /\ composer' = [composer EXCEPT ![d].step = "confirming"]
  /\ jobs' = jobs \cup {Job(d, "direct", "read")}
  /\ UNCHANGED <<storeVars, toldVars>>

\* Any failure or PHOTO_DIRECT_UPLOAD_TIMEOUT_MS: the base64 route is tried.
FallBack(d) ==
  /\ composer[d].step \in {"put", "confirm", "confirming"}
  /\ composer' = [composer EXCEPT ![d].step = "legacy"]
  /\ jobs' = Unheard(d) \cup {Job(d, "legacy", "put")}
  /\ doubted' = doubted \cup {<<composer[d].number, composer[d].photo>>}
  /\ UNCHANGED <<storeVars, abandoned, uploaded, overlapped>>

NextPhoto(c, d) ==
  IF c.photo < PhotosOf[d] THEN [c EXCEPT !.step = "put", !.photo = @ + 1]
                           ELSE [c EXCEPT !.step = "cleared"]

PhotoAnswered(d) ==
  /\ composer[d].step \in {"confirming", "legacy"}
  /\ \E j \in jobs : Answer(d, j) /\ jobs' = jobs \ {j}
  /\ composer' = [composer EXCEPT ![d] = NextPhoto(@, d)]
  /\ uploaded' = uploaded \cup {<<composer[d].number, composer[d].photo>>}
  /\ UNCHANGED <<storeVars, abandoned, doubted, overlapped>>

\* runCatching: the failure of one photograph is passed over.
GiveUpPhoto(d) ==
  /\ composer[d].step = "legacy"
  /\ composer' = [composer EXCEPT ![d] = NextPhoto(@, d)]
  /\ jobs' = Unheard(d)
  /\ UNCHANGED <<storeVars, toldVars>>

\* PHOTO_UPLOAD_BUDGET_MS: the rest of the photographs is left.
BudgetSpent(d) ==
  /\ composer[d].step \in {"put", "confirm", "confirming", "legacy"}
  /\ composer' = [composer EXCEPT ![d].step = "cleared"]
  /\ jobs' = Unheard(d)
  /\ UNCHANGED <<storeVars, toldVars>>

PhotosNext ==
  \/ \E j \in jobs :
       \/ FindCounter(j) \/ TakeNumber(j) \/ Ingest(j) \/ InsertReport(j)
       \/ PutLegacy(j) \/ ReadReport(j) \/ WritePhoto(j) \/ DropJob(j)
  \/ \E d \in Drafts :
       \/ Submit(d) \/ CreateAnswered(d) \/ GiveUpCreate(d)
       \/ PutPhoto(d) \/ ConfirmPhoto(d) \/ FallBack(d) \/ PhotoAnswered(d)
       \/ GiveUpPhoto(d) \/ BudgetSpent(d)

PhotosSpec == PhotosInit /\ [][PhotosNext]_photoVars

-----------------------------------------------------------------------------
RowsOf(d) == {n \in DOMAIN reports : reports[n].draft = d}
ShownKeys(n) == Range(reports[n].photos) \cup ({reports[n].evidence} \ {NoKey})

\* The number a create request holds is nobody else's: not that of a report,
\* migrated ones included, nor of another request, although two first reports of
\* a tenant may both find no counter.
NumbersAreFresh ==
  \A j \in jobs : j.step \in {"ingest", "insert"} =>
    /\ j.number \notin DOMAIN reports
    /\ \A k \in jobs \ {j} : k.step \in {"ingest", "insert"} => k.number # j.number

\* Every key a report shows has an object in the bucket.
ShownIsStored == \A n \in DOMAIN reports : ShownKeys(n) \subseteq bucket

\* A photograph the client was told is attached stays attached, unless two attach
\* handlers worked on the report at once: each writes the array it has read.
UploadedIsShown ==
  \A u \in uploaded : u[1] \notin overlapped => \E k \in ShownKeys(u[1]) : k[2] = u[2]

\* An Android report shows a photograph twice only if the client gave up on the
\* direct upload, whose handler then finished after all.
ShownTwiceIfDoubted ==
  \A d \in Drafts \ Inline : \A n \in RowsOf(d) :
    \A i, k \in 1..Len(reports[n].photos) :
      i # k /\ reports[n].photos[i][2] = reports[n].photos[k][2]
        => <<n, reports[n].photos[i][2]>> \in doubted

\* What a report shows is what was uploaded to it.
PhotosAreSound == ShownIsStored /\ UploadedIsShown /\ ShownTwiceIfDoubted

\* A draft becomes more than one report only by create requests the client gave
\* up on, submit doing nothing while a submission is under way; and the form is
\* reset only when the report is saved.
DraftsAreReports ==
  \A d \in Drafts :
    /\ Cardinality(RowsOf(d)) <= 1 + abandoned[d]
    /\ composer[d].step = "cleared" => RowsOf(d) # {}
=============================================================================

# SpotFix Community: TLA+ verification project

SpotFix is a multi-tenant maintenance-reporting service. The public (or staff)
report an issue on a campus, a supervisor assigns a cleaner, the cleaner works and
submits a resolution with evidence, a supervisor endorses or rejects it. One
Express/Prisma API over Postgres (`apps/api`) serves an older v1 surface
(`src/domain`, `src/http`) and a newer v2 surface (`src/v2`), to an Android client
(`apps/android`) and a web client (`apps/web`).

The API is a single-threaded event loop, but every `await` lets another request run
and several processes may share the database, so the unit of interleaving is the
database **statement**: v2's report handlers run theirs in interactive transactions
(READ COMMITTED, row locks held to the end), nearly everything else runs statement
by statement. That is the grain of these models: **one action per statement** (or
per group of statements nobody else can observe in between), with what the handler
read kept in the request's own state until it is used.

## Inventory

| Component | State | Operations | What is hard | What makes it correct |
|---|---|---|---|---|
| v2 reports (`v2/reports`) | report row with `status`, `version`, assignee; events with `seq`; attachments; notifications | create, assign, accept, reject, start, resolve, endorse, reject review | read-decide-write races, evidence written before the version test, push after commit, rollback after `seq` was allocated | handlers implement a sequential lifecycle; the log accounts for every version; only the assignee works; endorsed is final |
| v2 sync (`v2/sync`) | a client's cursor | page of events past a cursor, filtered by visibility | `seq` order is not commit order; page limits; visibility changes | nothing behind a cursor is missed or repeated; polling catches up |
| v2 sessions (`v2/auth`, `v2/sessions`) | `DeviceSession` rows, refresh-token hash | login, refresh with rotation, logout | revoke, create, store and bind are separate statements; lost answers; tokens with a one-second `iat` | one active session per device, revoked stays revoked, newest token works |
| v2 devices and notifications | `DeviceV2` rows, `isRead`/`readAt` | register (find, then create or update), mark read | a retry overlapping what it repeats | a repeated request changes nothing |
| v1 reports and roster (`domain/reports`, `domain/cleaners`) | report row, roster row with `assignedTaskId` | create (with any status), update (any status, review, other columns), assign, reassign supervisor | two tables written by separate statements; decisions on stale rows; failing uploads half way | only supervisors decide on what is filed; endorsement frees the cleaner; the right people are told |
| v1 public board (`domain/reports`, panel of the web client) | rows, roster, tiles | load, filter by tile, silent reload | legacy spellings of statuses; loads that cross | tiles and rows agree, or the tile's count is the larger; the board does not go back |
| v1 authentication (`domain/auth`) | `sessionVersion` | login, refresh, logout, check of a token | a logout overlapping a refresh or sign-in | a session read before a logout is refused, however late it is answered |
| accounts, Google, masters | user and master rows | register, provision, link Google, bootstrap the first master | check, then insert or update | one account per id number; a Google identity is never moved; one bootstrap |
| photos and numbers (`domain/photos`, Android composer) | counter per tenant, object store, `photos` array | take a number, presign, upload, confirm, legacy upload | first use of a counter; read-modify-write of an array; client retry over a late answer | numbers are fresh; a shown key names a stored object; no confirmed photo disappears |
| push and devices v1 | registrations, history rows, Firebase's verdicts | register, unregister, deliver, delete invalid tokens | a phone that changes hands during a delivery; batches | nobody hears another's notification; a registration leaves by right |
| tenant scoping | async-local tenant, slug cache | attach, resolve, scope every statement | inactive tenants, cached slugs, requests between two statements | a statement never crosses tenants |
| v2 admin and upload rights | role rows, promotions, parties of a report | grant, promote, presign | judged on rows read earlier | every right has its ground |
| geo | campus boundary, landmarks | point in boundary, nearest landmark | degenerate rings, malformed vertices, rounding | even-odd parity; nearest as rounded |
| monitor (`v2/monitor`, `src/monitor` of the web client) | counts, rows, the page's filter | overview, list, filter, leave | six statements at six instants; late answers | figures add up; rows match the filter |
| web client (`apps/web`) | stored session, forms, rows, one busy flag | sign in, load, submit, assign, resolve, hire, sign out | handlers interleave at every await | what is shown and sent is the user's; input is neither lost nor doubled; the flag comes down |
| operational scripts | the database they fill | bootstrap from CSV files, migration from MongoDB | death between two statements, re-run | a re-run completes and does not double |
| Android session and connection monitor | stored session, probes | sign out, probe | late probes and polls | a lost network shows as lost |

`components` in PROJECT.json lists every part with its status, and `hazards` lists
what is hard to test at the line where it bites, with the properties that watch it.

## What is modelled

**ReportLifecycle** is the abstract specification of one report: each operation is
one step on the whole row. It says what a client may rely on, nothing about how.

**ReportsV2** is `v2/reports/reports.service.ts`. A request opens its transaction and
reads the row (`Read`, with the handler's status and assignee tests), inserts evidence
if it resolves, then tries `UPDATE ... WHERE version` (`BumpVersion`, which waits for
the row lock; `StaleVersion` when no row matches), inserts the event with the next
`seq` (`CreateEvent`), inserts the notifications and commits (`Commit`), and finally
sends pushes outside the transaction (`SendStagePush`). `Abort` is a rollback or a
process death at any point. Uncommitted rows live in `pending`, `staged` and `seqOf`
and reach `report`, `events`, `notifications` at the commit. `StatusAfter`, `Patch`
and `Audience` hold the data of all eight handlers, so that each handler is its guard
and a call of the shared steps. Titles, payloads and geometry are left out.

**SyncV2** adds the polling clients to ReportsV2: `EventsSince` is the query (only
committed events), `NextCursor` the cursor handed back, `Visible` the filter.

**DeviceSessionsV2** is `v2/auth/v2-auth.service.ts` over its repositories. A refresh
token is the pair of its session and the second it was signed in: those are the only
claims that vary, and two tokens signed in the same second are the same string.

**AssignmentV1** is the v1 workflow: `update` is `BeginUpdate` (read, `resolveNextStatus`),
`ClearAssignment`, `WriteReport`, `Tell`; `assignToReport` is `BeginAssign`, `AssignTask`,
`AssignReport`, `Acknowledge`. `Fail` is an exception or a death between two statements,
such as a photo that cannot be stored after the cleaner was freed. A roster row and the
account whose `idNumber` is its `workId` are one person; a master acts as the supervisor
it names. Both schemas pass a body through (`http/schemas.ts:107-131`), and the models do
too: `CreateReport` stores whatever status the client names, a decision included, with no
reviewer; an update may bring any status, or none, and set the cleaner, the supervisor and,
where no review stamp overwrites it, the reviewer (`Bodies`). "Other" stands for every
status the handlers do not name. The history `hand` keeps, per report, the columns whose
present value a body has set, and a decision a create has filed: what the properties say
of reviews is said of reports whose review was not set in such a way. Left out is a body
that renames the row's `publicId` or changes its reporter.

**AssignmentLifecycle** is the abstract specification of that workflow, for staff who do not
act at the same time: each request is one step on the reports and the roster together. It
guards the statuses of a review and the roster, and leaves the other columns free (`Edit`).
AssignmentV1 implements it (`OneByOneIsSequential`) until two requests overlap or one fails:
a request takes its step when it writes the roster, if it writes one, else when it writes
the report, so the mapping (`WhenWritten`) shows a report as it will be once the request
half way has written it; columns an endorsing body sets besides are a further edit.

**AccountsV1** is `domain/users`, `domain/master` and `domain/auth`. `account` holds the
user and master rows (a user named by its `idNumber`, a master by its `username`, so
those two unique indexes are the function itself; `CreateAccount` and `LinkGoogle` apply
the others), `version` their `sessionVersion`, `tokens` the sessions clients hold. A
handler reads and decides (`RegisterPublic`, `Provision`, `CreateMaster`, `SignInGoogle`,
`MatchEmail`, `LoginPassword`, `Refresh`, `Logout`) and writes later (`CreateAccount`,
`LinkGoogle`, `Answer`, `FinishLogout`); `Fail` is an exception or a death in between.
v2's `loginWithGoogle` repeats the same resolution before it opens a device session.
`Accepted` is `loadAuthContext`. Every account is active, because nothing in the API
writes `status`; token expiry and the login counters are left out, and nobody registers
under an `idNumber` of the form Google sign-in makes up.

**PushV1** is `domain/devices` and `domain/notifications`. A device request finds the
registration (`FindRegistration`) and writes it later (`WriteRegistration`), or deletes it
(`Unregister`, `DeleteForPrincipal`). A delivery records its history rows (`Record`),
lists tokens (`ListTokens`), sends them by batches (`SendBatch`) and deletes those Firebase
does not know (`DeleteInvalid`); every statement may fail. Firebase is external: all that
is kept of it is which tokens are dead.

**PhoneV2** is what a phone asks of v2 besides reports: `LookupDevice`, then create or
update against the unique fingerprint (`WriteDevice`), and marking a notification read:
`MarkRead` finds it, `StampRead` takes the time, `WriteRead` is the awaited update, so a
request may write a time older than the one that is there. The history `raced` keeps the
fingerprints and notices that two requests were about at once: only of those may a `readAt`
move.

**PhotosV1** composes the server's numbering, creation and attachment of photographs
(`FindCounter`, `TakeNumber`, `Ingest`, `InsertReport`, `PutLegacy`, `ReadReport`,
`WritePhoto`) with the two clients that call them: the Android composer with its timeouts,
its fall back to the base64 route and its time budget, and the web client, which sends
the photographs inside the request. A client that gives up leaves its handler running.

**GeoV2** holds `pointInRing`, with the ray and the edges of the code, and the loop over
the landmarks one iteration at a time. Distances are inputs in quarters of a metre, so
that rounding matters; coordinates are small integers. The loop compares the rounded best
with the distance of the next, so the landmark chosen may be half a metre short of the
nearest, but no more: the errors of later rounds do not add up.

**MonitorV2** has the page's effect, with its cleanup, over the statements of
`monitor.service.ts`, while reports move and organizations close. **StatusBoardV1** is the
v1 board: the server's normalisation and counts, the panel's own filters under a tile, and
loads that are silent or not. A report's status and urgency may be any string
(`OtherStatuses`). Server and panel keep sets of statuses of their own: they agree under
`urgent`, `resolved` and `total`; under `pending` and `open` the tile's number can be larger
than its rows, because the server counts an assigned report as pending too, and one that
awaits endorsement or is rejected as open.

**TenantScope** is the path of a request to its tenant: v1's `AttachAuth`, v2's resolution
from the header followed by the look-up of the session inside that tenant, the slug cache,
and the Prisma extension that confines each statement to the tenant in scope and throws
without one.

**AccessV2** is who may do what in v2: grants of roles by an admin, promotion by the
operator's script, and the upload URL minted on a check of rows read before.

**BootstrapV1** and **MigrationV1** are the two scripts, each statement an action, with a
death after any of them and further runs; the API may use what they made in between (and
`meddled` records that it added a card).

**WebPortal** is `App.jsx` over `lib/api.js`: each handler a chain of awaits (`Use` starts
one, `Settle` ends one await with an answer, a refusal or a failure), the stored token, the
user of the render a handler was made in, the busy flag and who asks it, photographs and
evidence read by `FileReader` in between. Photographs are chosen several at a time: a
choice with one file of a wrong type or size (`RefuseFiles`), or one failing reader
(`ReadFails`), is refused whole, good photographs included, with a message; `refused` keeps
those, and what `InputIsKept` says is that nothing but them, what the user took out and
what arrived during a submission is dropped.

History variables (`lost`, `overlapped`, `faulty`, `hand`, `received`, `home`, `heard`,
`uploaded`, `raced`, `meddled`, `mixed`, `refused`, ... each marked so where it is declared)
record what happened for the properties and guard nothing.

Where several sentences about one component are checked as one invariant, they are
defined by name, each with its comment, and the invariant is their conjunction
(`SessionInv`, `AssignmentInv`, `OrderlyRest`, `AccountsInv`, `PushInv`, `PhotosAreSound`,
`TenantsAreApart`, `RightsHaveGround`, `BootstrapInv`, `SessionIsUsers`, `InputIsKept`);
`WritesByRight` and `RepeatsChangeNothing` are such conjunctions too.

The MC modules give constants values, define symmetry sets and, in MCReportsV2, a later
initial state. **MCServices** composes ten modules that share no state: a behaviour plays
one scene and leaves the others' variables alone. It states one formula (`Within`) that
keeps the scenes small; MCWebPortal has two (`MixedApart`, `HiresApart`), MCAssignmentV1
one (`OneSupervisor`).

## Runs

| Run | Instance | Shows |
|---|---|---|
| `reports_v2_assignment` | 2 requests, 1 report, 3 users, 5 events | concurrent handlers refine the lifecycle; every version has its event and nothing uncommitted is pushed; only the assignee works; the next actor is notified |
| `reports_v2_review` | 2 requests, 2 supervisors, from work in progress, 9 events | the proofs' inductive invariant, the newest event tells the status, evidence never outlives a rolled-back resolution, endorsement is final |
| `sync_v2_feed` | 2 requests, 1 report, 2 feeds, pages of 2, 3 events | a report's feed misses nothing; a page is exact; polling catches up |
| `sync_v2_skipped_event` | 2 reports, supervisor's tenant feed | **violated**: an event can commit behind the cursor |
| `device_sessions` | 2 requests, 1 device, 2 users, 3 sessions, 2 seconds | what sessions keep when requests overlap, and what they keep when none does |
| `device_sessions_two_logins` | 2 logins | **violated**: two active sessions on one device |
| `assignments_v1` | 2 requests, 1 cleaner, 1 report, any body; 2 supervisors until requests overlap or fail, then 1 | who may decide and who may free a cleaner, and whose signature a review has, under any interleaving and failure; one request at a time, it implements the sequential workflow, an endorsed report keeps no cleaner, decisions are told to those concerned |
| `assignments_v1_busy_forever` | 2 requests, 2 cleaners, nothing fails | **violated**: a Resolved report with a cleaner still on it |
| `assignments_v1_late_rejection` | 2 requests, 1 cleaner, nothing fails | **violated**: a rejection is written over a status that awaits no endorsement |
| `accounts_v1` | 2 requests, 2 id numbers, 2 masters, 2 Google subjects, 2 e-mails | keys, roots and Google identities of accounts; a logout ends exactly the sessions read before it |
| `services` | twelve scenes, see below | what each of the ten services keeps |
| `web_portal` | 2 people, 2 handlers, 2 files, 1 hire | what is shown and sent is the user's; input is kept; the controls come back |

The scenes of `services`, each explored from its own initial states:

| Scene | Instance | Properties |
|---|---|---|
| push | 1 user, 1 master, 2 tokens, batches of 1, 1 delivery | `PushInv`, `RegistrationLeavesByRight` |
| phone | 1 fingerprint, 2 push tokens, 2 notices, 2 requests | `RepeatsChangeNothing` |
| uploads | an Android draft of 3 photographs, 2 handlers | `PhotosAreSound`, `DraftsAreReports` |
| numbers | an Android and a web draft, old numbers among theirs | `NumbersAreFresh`, `DraftsAreReports` |
| ring, near | every triangle from a corner of a 3x3 grid and five figures (concave, closed, crossing itself, malformed vertices) with 25 points; two landmarks at 8 distances with 3 radii | `InsideIsParity`, `NearestWhenRounded` |
| monitor | 2 organizations, 2 reports, pages of 1, 1 change | `FiguresAgree`, `RowsMatchFilter` |
| board | 2 reports, 1 cleaner, any of the known statuses and one unknown, 2 loads, 1 change | `RowsUnderTile`, `BoardNotOlder` |
| tenant | 2 tenants, 2 requests, 1 row | `TenantsAreApart` |
| access | 2 accounts, 1 request, 1 folder | `RightsHaveGround` |
| bootstrap | 2 files of supervisors, 2 of cleaners, 3 runs | `BootstrapInv` |
| migration | 3 users, 2 roster documents, 1 report, 2 runs | `RefsResolve` |

**Bounds.** Two requests are the smallest number that races; every guard of the code
compares a request with one other writer of the same row. One report is enough where rows do
not interact; the sync counterexample needs two. `MaxSeq` bounds the events (and with them
the versions) of a run: 5 covers creation, assignment, refusal and reassignment, 9 covers
four steps of history plus resolve, reject, rework, resolve and endorse. `assignments_v1`
lets two supervisors be named only until requests overlap or one fails (`OneSupervisor`),
and identifies states (`View`) that differ only in what no property asks: which of the free
columns a body has set, and what was told last after an overlap or a failure. `Sessions`
bounds logins and `MaxTime` the seconds on the clock; two seconds tell "same second" from
"later". The v1 reports need no bound: their rows do not grow. `MaxVersion` bounds the
logouts that may begin: with 1, and two requests at once, two logouts and whatever they
overtake. In `services`, two tokens make two batches, three photographs make an evidence and
two entries of the array, one change of a report between the counting statements is what
makes the figures differ, and three runs of a script are a death, a completion and a
repetition. `Within` keeps apart what does not interact inside a scene: in push, only the
first token's app is uninstalled or silenced; in uploads, the web client is idle and two
handlers overlap at most; in numbers, no photograph is uploaded; in monitor, one
organization stays open; in tenant, the second request is for an open route with a header;
in access, roles change or URLs are made, not both. In `web_portal`, rows of two people are
mixed only before a file is picked (`MixedApart`) and staff are hired in behaviours without
files (`HiresApart`): both cut the product of things that are separate state in the page.

**Violated properties** are sentences of the code or its tests that the code does not
keep; each of the four is a finding with the line it quotes. Their counterexamples are short
interleavings of ordinary requests, and are safety violations.

**What the models show besides.** Worth a reader's attention, though no finding: v1 lets a
client file a report that is already decided, with no reviewer, and lets an update move the
row's cleaner and supervisor without the roster (`hand` sets both apart); a cleaner moved to
another supervisor while the former one's assignment is between its test and its write is
given the task by the former one, and taken back
(`domain/cleaners/cleaners.service.ts:129`); in the web client, one bad file costs the user
the whole choice of photographs it came with; also there, the report form's photographs and
the evidence picked for a resolution survive a sign-out, and an answer 401 to a request of
the earlier session clears the token of a newer one (`mixed` excludes both from
`SessionIsUsers`); provisioning a cleaner whose account was created but whose card failed
cannot be repeated, the account now being in the way (`CardHasAccount` allows it); v2 looks
a token's session up inside the tenant the header names, so a token is of no use under
another slug; a login id in both CSV files ends with the role of the file read last; each
run of the migration adds a roster card for every legacy cleaner again; a late direct upload
and its fall back attach one photograph twice (`ShownTwiceIfDoubted`), and a report whose
creation timed out is stored once per attempt (`DraftsAreReports`).

**Fairness.** In `sync_v2_feed` it is weak fairness on each statement of a started request
(the event loop and the database run what was issued) and strong fairness on the
conditional UPDATE, because Postgres queues the waiters of a row lock and a waiter is
enabled only while the lock is free. A client's poll is weakly fair: the feed is enabled
as long as it has something to give. Nothing makes a new request arrive. In `web_portal`
it is weak fairness on `Settle`: a request the browser has sent is answered, refused or
fails in the end, which `fetch` guarantees of a promise; that the user presses anything is
not assumed. Symmetry is used only in runs without liveness.

**Deadlock** is checked in every run but `services`, whose scenes come to an end. `Quiet` in
ReportsV2 and DeviceSessionsV2 stutters when the bound on events or session ids is used up
and nobody has anything left to do; it is what lets TLC tell the end of a bounded run from a
request stuck half way.

## Proofs

Eight modules hold proofs, each for **every** value of the constants, so for any number of
users, tenants, reports, tokens, requests in flight and any bound. Each is built the same
way: an inductive invariant, one lemma per action that says the action keeps it, and a
temporal step by PTL. Every safety property of the passing runs is proved, refinements
included; what is left to TLC alone is liveness.

**Method.** Where a proof needs a fact about *all* finite sets (the largest number taken,
the n-th newest row, a sum over statuses, an event order), it cannot use the library's
induction theorems, whose premise is an operator. It takes the least counterexample
instead: strict inclusion is well founded on the subsets of a finite set
(`FS_StrictSubsetOrderingWellFounded`, `WFMin`), and a minimal set without the property is
refuted by taking one element out. Finiteness is therefore an assumption on the constants
whose sets are counted (`MonReports`, `BoardReports`, `OldNumbers`, tokens, sessions),
which any database satisfies. Induction over the *numbers* is had the same way: a set that
has 0 and with each number the next one has no least gap (`Inductive`, in ServicesProofs,
from `NatLessThanWellFounded`). It carries the proofs about the two loops of GeoV2, which
are recursive functions: that such a function exists, and what it has at its n-th value.
The order of a feed's page is written as a `CHOOSE` of an
ordered enumeration (`SyncV2!InOrder`), because the library's sort reaches operators the
prover cannot open.

**ReportsV2Proofs** (from `UsersAssumption`, `IdsAssumption`, `FeedsAssumption`).
`Invariance`, `TypeCorrect`, `LogTellsStatus` (`LastEventTellsStatus`), `Refinement`
(`ImplementsLifecycle`), `EndorsedForGood` (`EndorsementIsFinal`), `VersionsCounted`
(`VersionCountsEvents`), `WorkIsAssigned` (`WorkByAssignee`), `EvidenceIsLogged`
(`EvidenceHasEvent`), `NextActorHears` (`NextActorNotified`), `ReportFeedsMissNothing`
(`ReportFeedComplete`), `PagesHold` (`PagesAreExact`).
None of these is inductive alone. What they rest on is that a transaction that has written
its row still describes it: `LockInv` (a row lock is held exactly by the request that
wrote), `ReaderInv` (what a request read is a row its handler admits, no newer than the
stored one, and *equal to the stored row if the version is the same*), `WriterInv` (a
writer's pending row is the patch of the stored one), `SeqInv` (allocated `seq`s are below
`nextSeq`, and the one a transaction got under the row lock is above all of that report's
committed ones, which is where the lock orders commits) and `LogInv` (a report is absent
exactly if nothing was ever logged of it). `IInv` is their conjunction with `TypeOK`;
`reports_v2_assignment` and `reports_v2_review` check it. `Refinement` maps a commit to
the handler's abstract step and every other action to a stutter. `VersionsCounted` adds
`CountInv`: the event of a request that has committed is in the log before it pushes.
`WorkIsAssigned` adds `AssigneeInv`: the row keeps the cleaner whom the newest assignment
in the log names, so a transaction that holds the lock has tested its actor against that
assignment. `EvidenceIsLogged` adds `StagedInv`: evidence not yet committed belongs to the
version its request read, the one the pending row replaces. `NextActorHears` compares the
audience of each handler with whoever the patched row names.
The feeds add `SeqsApart` (no two events, committed or about to be, share a `seq`: what
makes a page's order and its cursor mean anything) and `FeedInv` (a report feed's cursor
is the `seq` of one of that report's events). With these, an event that commits behind the
cursor of its own report's feed would have a smaller `seq` than a committed event of the
same report, which `SeqInv` excludes. `PagesHold` needs no lock: everything given is at or
below the cursor, and a page is the first of what its query found. It holds of the tenant
feed too and says what that feed can skip: only an event that was in flight when a page
with a later one was read, which is what `sync_v2_skipped_event` shows it does.

**DeviceSessionsV2Proofs** (from the module's assumptions; `FiniteAssumption` is there
because sessions are counted). `Invariance`, `SessionsHold` (`SessionInv`), `NewestWorks`
(`NewestTokenRefreshes`), `RevokedStays` (`RevokedForGood`). `ActiveSessionsBounded` is
inductive once the logins that have revoked and are *about to create* are counted with the
sessions there are. The rest holds while no two requests have overlapped; `AloneInv` says
what a request that is alone may rely on between its statements: `LoginAlone` (nothing else
is active on its device), `RefreshAlone` (its new token is the newest) and `Newest` or
`Answering` (the stored hash is that of the newest token given out, or of the one on its way).

**AssignmentV1Proofs** (from `PeopleAssumption`, `ReportsAssumption`, `RowAssumption`).
`Invariance`, `ReviewsAreSigned` (`AssignmentInv`), `WritesAreByRight` (`WritesByRight`),
`DecisionsAreDone` (`OrderlyRest`), `OneByOne` (`OneByOneIsSequential`). The v1 statements
do not repeat the decision, so the invariant follows it through the request: `Entitled` (a
decision under way is a supervisor's, and only an endorsement clears), `OnStored` (rows are
never deleted), and, until two requests overlap, `Current` (what the request tested still
holds). `Written` says of the rows a body can make (`WrittenAs`) what the proofs need: the
columns an update changes beyond its stamps are in `hand`. `OrderlyRest` speaks of rest,
which no single step reaches from rest; `OrderlyInv` says what holds at each statement in
between: every report is freed and told *but for* what the one request under way has yet to
do (`FreedBut`, `ToldBut`, and `Settled` for what that request read). `OneByOne` maps
`AssignTask` to the assignment and `ClearAssignment` to the endorsement; the write of the
report that follows is then a stutter (`HalfWritten` is the state between, and what an
endorsing body sets besides is an `Edit`), and every other write is a step of its own.
`Current` is what makes the abstract guards true at that moment.

**AccountsV1Proofs** (from `NamesAssumption`, `NoAccountAssumption`). `Invariance`,
`TypeCorrect`, `LogoutEnds` (`LogoutEndsSessions`), `AccountsAreOwned` (`AccountsInv`),
`OnlyMastersInvite` (`MastersInviteMasters`). The logout property speaks of sessions at
clients. What makes it inductive is the same fact about the sessions requests still hold
(`HeldMarked`: a sign-in or refresh that a logout overtook already carries a version below
the stored one) and that the version held never exceeds the stored one (`Marked`), which a
bump needs to put it above. `OwnInv` is the other half: the two unique indexes give
`OneAccountPerKey` under any overlap; `StaffInv` says that a supervisor's or cleaner's
row, stored or about to be inserted, has a master behind it; and
`AloneInv` says, until two requests overlap, that what a request has read still holds when
it writes (`ReadHolds`) and that no link takes a subject from its account (`HomesHeld`).

**PushV1Proofs** (from `PushAssumption`, with finitely many tokens, and `GoneAssumption`).
`Invariance`, `HeardByRight` (`PushInv`), `LeavesByRight` (`RegistrationLeavesByRight`).
The invariant ties the owner columns to whoever registered the token last (`RegInv`: the
update sets both), and follows a delivery (`Sound`): past its history every recipient is
recorded or it has failed, the tokens it sends to were held by recipients when listed, and
what it calls invalid is dead at Firebase. That a batch is a run of the list is `BatchOfList`.

**PhotosV1Proofs** (from `PhotosAssumption`). `NumbersStayFresh` (`NumbersAreFresh`),
`UploadsAreKept` (`PhotosAreSound`), `OneReportPerTry` (`DraftsAreReports`). `NumbersGrow`
puts every number taken at or below the counter, so that the next is fresh; the first use
of the counter starts above the largest stored number (`LargestExists`). `JobsStand` and
`ComposersStand` say what each handler has put in the bucket by each of its statements and
which report its client is uploading to; `HeardInTurn` that a client listens to one handler
at most, whatever it gave up on. `OverlapsAreKnown` is why the array survives: handlers
that have not overlapped write to the array they read. `ArraysStand` follows a photograph
that is in no doubt (shown once, no longer under way), and `SubmissionsCount` counts a
submission as a create handler or a report, never both.

**WebPortalProofs** (from `WebAssumption`). `ScreenIsTheUsers` (`SessionIsUsers`),
`FormsAreKept` (`InputIsKept`). Until the flag has let two handlers overlap, a handler is
alone and acts for the user of the screen (`AloneInv`, `ActsForUser`: nobody is signed in
before `GET /me` is answered). `OnePlace` says that a file not picked, being read or in a
form is so in one place (a choice of photographs being read is one place for all of them),
`CarriesRight` what a request under way took out of its form, and
`UnsentInv` that none of it has been sent.

**ServicesProofs** holds the smaller services, each proved about on its own:

- TenantScope: `Apart` (`TenantsAreApart`). `ScopesInv` says of each request which tenant
  it may act for at each step (token's or slug's), and of the slug cache that what it holds
  was active since the process started.
- AccessV2: `Grounded` (`RightsHaveGround`). Roles are never taken away (`Grows`), so what
  a request read of them stays true while it is under way (`HoldsStays`).
- GeoV2: `Nearest` (`NearestWhenRounded`). The loop invariant: of the landmarks considered
  so far none rounds to less than the best, and none is nearer by more than half a metre
  (`RoundedComparison`).
  `InsideByParity` (`InsideIsParity`): for coordinates that are any integers and rings of
  any length. For a point on no line of the figure, a triangle holds the point exactly
  when the ray meets its edges an odd number of times (`TriangleByRay`: the three turns,
  weighted by the heights of the opposite corners, add up to nothing, `TurnsBalance`, which
  leaves the signs no other way). Walking round the ring (`FanWalk`), the edges met so far,
  with the diagonal back to the first vertex, are odd together exactly when the triangles
  passed that hold the point are; at the last vertex that diagonal is an edge met already,
  and what is left is the hits of the loop. `RingIsThePairs` is the same for the loop that
  parses the column.
- PhoneV2: `RepeatsAreIdle` (`RepeatsChangeNothing`). `PhoneInv` says what a request still
  knows at its write: that the row it found is there and, unless another request was about
  the same one meanwhile (`OneAbout`), unchanged; and that a time taken is not ahead of the
  clock (`StampKeeps`).
- StatusBoardV1: `TilesCountTheirRows` (`RowsUnderTile`, for any set of other words),
  `BoardOnlyAdvances` (`BoardNotOlder`). `BoardIsCounted` says that a summary was counted over the rows it came
  with; `NothingOlder` that, until a silent load crosses another, no answer on its way is
  older than the board.
- MonitorV2: `FiguresAddUp` (`FiguresAgree`), `RowsAreCounted` (`RowsMatchFilter`).
  `LoadIs` says that a load under way is for the view and the filter on the page, and that
  its answers so far are those of *the present* state unless a report has moved since it
  began. That the statuses the code counts as open, awaiting review and resolved are all
  that a report can reach is `FiguresAdd`; `SumsAre` adds up the counts per status and
  `NewestAre` counts a page.
- MigrationV1: `ReferencesLead` (`RefsResolve`). `MapsHold` is the script's own memory: its
  maps name exactly what its earlier loops have gone through in this run.
- BootstrapV1: `RosterIsSound` (`BootstrapInv`). `BootInv` follows a run through the two
  files: each row met so far has its supervisor at its location, and the card being written
  is one its look-up allows.

Only model-checked: the liveness properties (`FeedCatchesUp`, `BusyEnds`: fairness, with
ENABLED, is out of the prover's reach). The properties of the violated runs are not
theorems, of course.

## Not modelled, and the plan

Not modelled, and why:

- **Android lists and connection monitor**: `PublicReportsViewModel.kt:48` and
  `ServerConnectionMonitor.kt:82` poll and write what arrives last to the screen; the late
  answer is repaired by the next poll. The composer is in PhotosV1; marking a notification of the inbox read is in PhoneV2.
- **v2 read endpoints**: `reports.service.ts:193` reads a report, its attachments and its
  events with separate statements, so a detail may show an event newer than the row. It
  writes nothing.
- **Visibility behind a cursor**: a cleaner newly assigned does not get the report's earlier
  events from the feed (`sync.service.ts:39`); no document promises them.
- **The seed of landmarks** (`seed-geo.ts`), run by hand before the API serves. The other
  scripts are in BootstrapV1, MigrationV1 and AccessV2.
- OpenAPI and the contract's types, rendering, translation, HTTP routing and validation:
  they keep no state between calls.

What would add most next:

1. the detail view of the v2 client, read statement by statement against the handlers;
2. an abstract specification of the feed (a log read from a cursor) that one report's feed
   refines, with the tenant feed's gaps as its only departure.

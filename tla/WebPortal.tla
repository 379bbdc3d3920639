----------------------------- MODULE WebPortal -----------------------------
(***************************************************************************)
(* The web client in one tab: apps/web/src/App.jsx over lib/api.js.  Every *)
(* handler is a chain of awaits; between two of them any other control may *)
(* be used, unless the one flag `busy' disables it.  Most handlers raise   *)
(* the flag and lower it in their finally; Refresh does not raise it, the  *)
(* supervisor's cleaner menu and Google's callback do not ask it.  The     *)
(* token is in localStorage and is read when a request is sent, while a    *)
(* handler keeps the user of the render it was made in.  Texts, toasts,    *)
(* the map, the other fields of the forms and the views are left out.      *)
(***************************************************************************)
EXTENDS Naturals, FiniteSets

CONSTANTS
  People, Public,     \* who signs in; those with the role public
  NoOne, Nothing, Idle,
  Handlers,           \* handlers that can be under way at once
  Files,              \* files the user picks, each once
  Hires               \* cleaners to be provisioned

ASSUME WebAssumption ==
  /\ Public \subseteq People /\ NoOne \notin People
  /\ Nothing \notin Files

VARIABLES
  token,              \* localStorage: whose access token is stored
  valid,              \* external: whose session the API accepts
  user,               \* state: the signed-in user
  reports,            \* state: whose rows are shown and with whose token they came
  cleaners,           \* state: with whose token the roster came
  busy,
  task,               \* what each handler awaits
  photos,             \* state: the report form's photographs
  evidence,           \* state: resolutionEvidenceByReport, of one report
  unpicked,           \* files the user has not picked yet
  reading,            \* what FileReader is at work on: <<files of one choice, purpose>>
  accounts, cards,    \* external: cleaner accounts and roster cards made
  mixed,              \* history: a handler no flag covers overlapped another, or
                      \* Google's callback came when somebody was signed in
  sent,               \* history: file -> how many accepted requests carried it
  removed,            \* history: files the user took out or replaced
  refused,            \* history: files of a choice the page refused with a toast
  late                \* history: files that arrived during a submission

sessionVars == <<token, valid, user, reports, cleaners, busy>>
formVars == <<photos, evidence, unpicked, reading, sent, removed, refused, late>>
hireVars == <<accounts, cards>>
webVars == <<sessionVars, task, formVars, hireVars, mixed>>

NoRows == [of |-> NoOne, by |-> NoOne]
Uncovered == {"refresh", "assign", "google"}
Running == {h \in Handlers : task[h] # Idle}

WebInit ==
  /\ token \in People \cup {NoOne} /\ valid = People
  /\ user = NoOne /\ reports = NoRows /\ cleaners = NoOne
  /\ \E h \in Handlers :
       task = [i \in Handlers |-> IF i = h /\ token # NoOne
                 THEN [kind |-> "bootstrap", step |-> "me", who |-> NoOne, token |-> token,
                       carries |-> {}]
                 ELSE Idle]
  /\ busy = (token # NoOne)
  /\ photos = {} /\ evidence = Nothing /\ unpicked = Files /\ reading = {}
  /\ accounts = {} /\ cards = {}
  /\ mixed = FALSE
  /\ sent = [f \in Files |-> 0] /\ removed = {} /\ refused = {} /\ late = {}

-----------------------------------------------------------------------------
(* What a handler does between two awaits *)

\* A request that needs the token throws when there is none: the handler ends.
Await(t, step, who, tok) ==
  IF tok = NoOne THEN Idle
  ELSE [t EXCEPT !.step = step, !.who = who, !.token = tok]

\* Mutant: finally is left out.
NotLowered(h) == busy

\* finally: setBusy(false), which loadPortalData on its own does not have.
Lowered(h) == IF task'[h] = Idle /\ task[h].kind # "refresh" THEN FALSE ELSE busy

\* Handler h begins with a request; `raises' says whether it sets the flag.
Begin(h, kind, step, who, carries, raises) ==
  /\ task[h] = Idle
  /\ LET t == [kind |-> kind, step |-> step, who |-> who, token |-> token, carries |-> carries] IN
     /\ task' = [task EXCEPT ![h] = IF step = "login" THEN t ELSE Await(t, step, who, token)]
     /\ busy' = IF ~raises THEN busy ELSE task'[h] # Idle
     /\ mixed' = (mixed \/ (kind = "google" /\ user # NoOne)
                        \/ \E i \in Running : Uncovered \cap {kind, task[i].kind} # {})

-----------------------------------------------------------------------------
(* The controls *)

\* Mutant: the button is not disabled while a request is under way.
AlwaysEnabled == TRUE

\* disabled={busy}
Enabled == ~busy

\* Which controls are on the page, by who is signed in, and which of them are
\* disabled while the flag is up: the sign-in forms, the report form, the form that
\* hires, a task's buttons, the menu that assigns a task (never disabled).
MaySignIn == user = NoOne /\ Enabled
MaySubmit == user \in Public /\ Enabled
MayHire == user \in People \ Public /\ Enabled
MayUpdateTask == user \in People \ Public /\ Enabled
MayAssign == user \in People \ Public

\* The forms of the sign-in page: handleUserLogin, handleMasterLogin, handleRegister.
SignIn(h, p) ==
  /\ MaySignIn
  /\ Begin(h, "signIn", "login", p, {}, TRUE)
  /\ UNCHANGED <<token, valid, user, reports, cleaners, formVars, hireVars>>

\* Google's callback fires when the account is chosen, signed in or not by then.
GoogleCallback(h, p) ==
  /\ p \in Public
  /\ Begin(h, "google", "login", p, {}, TRUE)
  /\ UNCHANGED <<token, valid, user, reports, cleaners, formVars, hireVars>>

SubmitReport(h) ==
  /\ MaySubmit
  /\ Begin(h, "submit", "send", user, photos, TRUE)
  /\ UNCHANGED <<token, valid, user, reports, cleaners, formVars, hireVars>>

\* handleStartTask; handleResolve, which returns at once without evidence.
UpdateTask(h, resolve) ==
  /\ MayUpdateTask
  /\ resolve => evidence # Nothing
  /\ Begin(h, IF resolve THEN "resolve" ELSE "start", "send", user,
           IF resolve THEN {evidence} ELSE {}, TRUE)
  /\ UNCHANGED <<token, valid, user, reports, cleaners, formVars, hireVars>>

\* handleAssign, from the cleaner menu of the task board.
Assign(h) ==
  /\ MayAssign
  /\ Begin(h, "assign", "send", user, {}, TRUE)
  /\ UNCHANGED <<token, valid, user, reports, cleaners, formVars, hireVars>>

\* provisionUser, then createCleaner.
HireOrder == <<"account", "card">>

ProvisionStaff(h, c) ==
  /\ MayHire
  /\ Begin(h, "provision", HireOrder[1], user, {c}, TRUE)
  /\ UNCHANGED <<token, valid, user, reports, cleaners, formVars, hireVars>>

\* loadPortalData() behind a button.
Refresh(h) ==
  /\ user # NoOne /\ Enabled
  /\ Begin(h, "refresh", "load", user, {}, FALSE)
  /\ UNCHANGED <<token, valid, user, reports, cleaners, formVars, hireVars>>

\* handleLogout's finally, and clearSession in that of api.logout.
SignedOut ==
  /\ token' = NoOne /\ user' = NoOne /\ reports' = NoRows /\ cleaners' = NoOne

Logout(h) ==
  /\ user # NoOne /\ Enabled
  /\ Begin(h, "logout", "logout", user, {}, TRUE)
  /\ IF token = NoOne THEN SignedOut ELSE UNCHANGED <<token, user, reports, cleaners>>
  /\ UNCHANGED <<valid, formVars, hireVars>>

-----------------------------------------------------------------------------
(* The answers *)

Awaits(h, step) == task[h] # Idle /\ task[h].step = step
Accepted(h) == task[h].token \in valid

\* storeSession, then GET /me with the token found in storage: this one.
LoginAnswered(h) ==
  /\ Awaits(h, "login")
  /\ token' = task[h].who
  /\ valid' = valid \cup {task[h].who}
  /\ task' = [task EXCEPT ![h] = Await(@, "me", NoOne, token')]
  /\ UNCHANGED <<user, reports, cleaners, busy, formVars, hireVars, mixed>>

\* setUser(whoever the token is), then loadPortalData of that user.
MeAnswered(h) ==
  /\ Awaits(h, "me") /\ Accepted(h)
  /\ user' = task[h].token
  /\ task' = [task EXCEPT ![h] = Await(@, "load", user', token)]
  /\ busy' = Lowered(h)
  /\ UNCHANGED <<token, valid, reports, cleaners, formVars, hireVars, mixed>>

\* Public users ask for their own reports; the others for all the server lets
\* them see and, unless that request fails, for the roster.
LoadAnswered(h, rosterToo) ==
  /\ Awaits(h, "load") /\ Accepted(h)
  /\ LET t == task[h] IN
     /\ t.who \in Public => t.token = t.who \/ t.token \notin Public
     /\ reports' = [of |-> t.who, by |-> t.token]
     /\ cleaners' = IF rosterToo /\ t.who \notin Public THEN t.token ELSE NoOne
     /\ task' = [task EXCEPT ![h] =
          IF t.kind \in {"bootstrap", "signIn", "google", "refresh"}
            THEN Idle ELSE [t EXCEPT !.step = "panel"]]
  /\ busy' = Lowered(h)
  /\ UNCHANGED <<token, valid, user, formVars, hireVars, mixed>>

\* loadPublicStatusPanel keeps its errors to itself.
PanelSettled(h) ==
  /\ Awaits(h, "panel")
  /\ task' = [task EXCEPT ![h] = Idle]
  /\ busy' = Lowered(h)
  /\ UNCHANGED <<token, valid, user, reports, cleaners, formVars, hireVars, mixed>>

PhotosAfterSubmit == {}

\* createReport, updateReport or assignCleaner went through.
SendAnswered(h) ==
  /\ Awaits(h, "send") /\ Accepted(h)
  /\ LET t == task[h] IN
     /\ sent' = [f \in Files |-> sent[f] + IF f \in t.carries THEN 1 ELSE 0]
     /\ photos' = IF t.kind = "submit" THEN PhotosAfterSubmit ELSE photos
     /\ evidence' = IF t.kind = "resolve" THEN Nothing ELSE evidence
     /\ task' = [task EXCEPT ![h] = Await(t, "load", t.who, token)]
  /\ busy' = Lowered(h)
  /\ UNCHANGED <<token, valid, user, reports, cleaners, unpicked, reading, removed, refused, late,
                 hireVars, mixed>>

\* POST /users/provision, refused when the account exists; POST /cleaners.
HireAnswered(h) ==
  /\ Awaits(h, "account") \/ Awaits(h, "card")
  /\ Accepted(h)
  /\ LET t == task[h] IN
     /\ t.step = "account" => t.carries \cap accounts = {}
     /\ accounts' = IF t.step = "account" THEN accounts \cup t.carries ELSE accounts
     /\ cards' = IF t.step = "card" THEN cards \cup t.carries ELSE cards
     /\ task' = [task EXCEPT ![h] =
          Await(t, IF t.step = HireOrder[1] THEN HireOrder[2] ELSE "load", t.who, token)]
  /\ busy' = Lowered(h)
  /\ UNCHANGED <<token, valid, user, reports, cleaners, formVars, mixed>>

\* The request fails or its answer is lost: catch shows a toast.  The server may
\* have made the account or the card all the same.
Failed(h) ==
  /\ task[h] # Idle /\ task[h].step \notin {"logout", "panel"}
  /\ task' = [task EXCEPT ![h] = Idle]
  /\ busy' = Lowered(h)
  /\ LET t == task[h] IN
     \/ UNCHANGED hireVars
     \/ t.step = "account" /\ Accepted(h) /\ accounts' = accounts \cup t.carries /\ UNCHANGED cards
     \/ t.step = "card" /\ Accepted(h) /\ cards' = cards \cup t.carries /\ UNCHANGED accounts
  /\ UNCHANGED <<token, valid, user, reports, cleaners, formVars, mixed>>

\* 401 with auth: clearSession takes away whatever token is stored by then.
Refused(h) ==
  /\ task[h] # Idle /\ task[h].step \notin {"login", "logout", "panel"}
  /\ ~Accepted(h)
  /\ token' = NoOne
  /\ task' = [task EXCEPT ![h] = Idle]
  /\ busy' = Lowered(h)
  /\ UNCHANGED <<valid, user, reports, cleaners, formVars, hireVars, mixed>>

Cleared(answered) == NoOne

LogoutSettled(h, answered) ==
  /\ Awaits(h, "logout")
  /\ valid' = IF answered THEN valid \ {task[h].token} ELSE valid
  /\ token' = Cleared(answered) /\ user' = NoOne /\ reports' = NoRows /\ cleaners' = NoOne
  /\ task' = [task EXCEPT ![h] = Idle]
  /\ busy' = Lowered(h)
  /\ UNCHANGED <<formVars, hireVars, mixed>>

\* External: a session expires or is revoked.
Expire(p) ==
  /\ p \in valid
  /\ valid' = valid \ {p}
  /\ UNCHANGED <<token, user, reports, cleaners, busy, task, formVars, hireVars, mixed>>

-----------------------------------------------------------------------------
(* Photographs: handlePhotoSelect, removeSelectedPhoto, clearSelectedPhotos and
   handleResolutionEvidenceSelect.  No control of theirs asks the flag. *)

Submitting(kind) == \E h \in Running : task[h].kind = kind /\ task[h].step = "send"

MayPick(purpose) == IF purpose = "photo" THEN user \in Public ELSE user \in People \ Public

\* Any number of photographs, or one file of evidence.
Choices(purpose) == IF purpose = "photo" THEN SUBSET unpicked \ {{}} ELSE {{f} : f \in unpicked}

\* The files of one choice are all images of at most 10 MB, and are read.
PickFiles(batch, purpose) ==
  /\ MayPick(purpose) /\ batch \in Choices(purpose)
  /\ unpicked' = unpicked \ batch
  /\ reading' = reading \cup {<<batch, purpose>>}
  /\ UNCHANGED <<sessionVars, task, photos, evidence, sent, removed, refused, late, hireVars, mixed>>

\* One file that is none refuses the whole choice.
RefuseFiles(batch, purpose) ==
  /\ MayPick(purpose) /\ batch \in Choices(purpose)
  /\ unpicked' = unpicked \ batch
  /\ refused' = refused \cup batch
  /\ UNCHANGED <<sessionVars, task, photos, evidence, reading, sent, removed, late, hireVars, mixed>>

\* One reader that fails loses the whole choice: the catch of Promise.all.
ReadFails(batch, purpose) ==
  /\ <<batch, purpose>> \in reading
  /\ reading' = reading \ {<<batch, purpose>>}
  /\ refused' = refused \cup batch
  /\ UNCHANGED <<sessionVars, task, photos, evidence, unpicked, sent, removed, late, hireVars, mixed>>

\* Mutant: the files that were read take the place of the others.
Replaced(batch) == batch

\* append: the previews that are there by then, and the new ones.
Appended(batch) == photos \cup batch

PhotosRead(batch) ==
  /\ <<batch, "photo">> \in reading
  /\ reading' = reading \ {<<batch, "photo">>}
  /\ photos' = Appended(batch)
  /\ late' = IF Submitting("submit") THEN late \cup batch ELSE late
  /\ UNCHANGED <<sessionVars, task, evidence, unpicked, sent, removed, refused, hireVars, mixed>>

EvidenceRead(f) ==
  /\ <<{f}, "evidence">> \in reading
  /\ reading' = reading \ {<<{f}, "evidence">>}
  /\ evidence' = f
  /\ removed' = removed \cup ({evidence} \ {Nothing})
  /\ late' = IF Submitting("resolve") THEN late \cup {f} ELSE late
  /\ UNCHANGED <<sessionVars, task, photos, unpicked, sent, refused, hireVars, mixed>>

RemovePhotos(out) ==
  /\ user \in Public /\ out # {}
  /\ photos' = photos \ out
  /\ removed' = removed \cup out
  /\ UNCHANGED <<sessionVars, task, evidence, unpicked, reading, sent, refused, late, hireVars, mixed>>

-----------------------------------------------------------------------------
Settle(h) ==
  \/ LoginAnswered(h) \/ MeAnswered(h) \/ \E b \in BOOLEAN : LoadAnswered(h, b)
  \/ PanelSettled(h) \/ SendAnswered(h) \/ HireAnswered(h)
  \/ Failed(h) \/ Refused(h) \/ \E b \in BOOLEAN : LogoutSettled(h, b)

Use(h) ==
  \/ \E p \in People : SignIn(h, p) \/ GoogleCallback(h, p)
  \/ SubmitReport(h) \/ \E b \in BOOLEAN : UpdateTask(h, b)
  \/ Assign(h) \/ \E c \in Hires : ProvisionStaff(h, c)
  \/ Refresh(h) \/ Logout(h)

WebNext ==
  \/ \E h \in Handlers : Use(h) \/ Settle(h)
  \/ \E batch \in SUBSET Files :
       \/ PhotosRead(batch)
       \/ \E purpose \in {"photo", "evidence"} :
            PickFiles(batch, purpose) \/ RefuseFiles(batch, purpose) \/ ReadFails(batch, purpose)
  \/ \E f \in Files : EvidenceRead(f)
  \/ \E out \in {photos} \cup {{f} : f \in photos} : RemovePhotos(out)
  \/ \E p \in People : Expire(p)

\* A request is answered, refused or fails in the end.
WebSpec == WebInit /\ [][WebNext]_webVars /\ \A h \in Handlers : WF_webVars(Settle(h))

-----------------------------------------------------------------------------
\* The rows and the roster on the screen are those of the user who is signed in,
\* fetched with that user's token, unless a handler the flag does not cover has
\* overlapped another: an answer that comes back after the session has changed
\* is shown whoever is there.
RowsAreTheUsers ==
  ~mixed => /\ reports # NoRows => reports.of = user /\ reports.by = user
            /\ cleaners \in {NoOne, user}

\* The stored token is the user's or gone, under the same proviso: a handler
\* sends the token it finds, so another one would act in another's name.
TokenIsUsers == ~mixed /\ user # NoOne => token \in {user, NoOne}

\* What is shown and what is sent are the user's.
SessionIsUsers == RowsAreTheUsers /\ TokenIsUsers

\* The controls come back: the flag never stays up for good.
BusyEnds == busy ~> ~busy

\* No photograph is carried by two requests that were accepted and answered,
\* unless an uncovered handler lowered the flag during the first.
SentOnce == ~mixed => \A f \in Files : sent[f] <= 1

BeingRead(f) == \E r \in reading : f \in r[1]

\* A photograph the user has picked is in its form, on its way there, sent or taken
\* out by the user, or it was of a choice that the page refused aloud; the one that
\* goes without a word arrived while a request was under way, whose answer clears it
\* with the rest.
PickedIsKept ==
  \A f \in Files \ unpicked :
    \/ f \in photos \/ f = evidence \/ BeingRead(f)
    \/ sent[f] > 0 \/ f \in removed \/ f \in refused \/ f \in late

\* Every roster card made from the form has its account: what may be left half
\* done by a failure is an account without a card.
CardHasAccount == cards \subseteq accounts

\* What the user has put into a form is neither lost, nor doubled, nor half done.
InputIsKept == SentOnce /\ PickedIsKept /\ CardHasAccount
=============================================================================

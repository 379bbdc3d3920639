--------------------------- MODULE WebPortalProofs ---------------------------
(***************************************************************************)
(* What is shown and sent is the user's, and what the user has put into a  *)
(* form is kept, for any people, handlers, files and cleaners hired.  The  *)
(* session's half rests on handlers being alone while none that the flag   *)
(* does not cover has overlapped another; the forms' half on a file being  *)
(* in one place, and on what a request under way carries.                  *)
(***************************************************************************)
EXTENDS WebPortal, TLAPS

Kinds == {"bootstrap", "signIn", "google", "submit", "resolve", "start", "assign",
          "provision", "refresh", "logout"}
Steps == {"login", "me", "load", "send", "account", "card", "panel", "logout"}
Tasks == [kind : Kinds, step : Steps, who : People \cup {NoOne}, token : People \cup {NoOne},
          carries : SUBSET (Files \cup Hires)]

WebTypeOK ==
  /\ token \in People \cup {NoOne} /\ valid \subseteq People
  /\ user \in People \cup {NoOne}
  /\ reports \in [of : People \cup {NoOne}, by : People \cup {NoOne}]
  /\ cleaners \in People \cup {NoOne}
  /\ busy \in BOOLEAN /\ mixed \in BOOLEAN
  /\ task \in [Handlers -> Tasks \cup {Idle}]
  /\ \A h \in Running : task[h].step = "login" => task[h].who \in People
  /\ photos \subseteq Files /\ evidence \in Files \cup {Nothing}
  /\ unpicked \subseteq Files /\ reading \subseteq (SUBSET Files) \X {"photo", "evidence"}
  /\ sent \in [Files -> Nat]

\* A file that was not picked, is being read, or is in a form, is so in one place.
OnePlace ==
  /\ \A f \in photos : f \notin unpicked /\ ~BeingRead(f) /\ f # evidence
  /\ evidence \notin unpicked /\ ~BeingRead(evidence)
  /\ \A f \in unpicked : ~BeingRead(f)
  /\ \A r, s \in reading : r # s => r[1] \cap s[1] = {}

\* What the request of a task carries: it came out of one form and is nowhere else,
\* and what has come into that form since is known to be late.
CarriesRight(t) ==
  /\ t.step = "send" =>
       /\ t.carries \subseteq Files
       /\ \A f \in t.carries : f \notin unpicked /\ ~BeingRead(f)
       /\ t.kind = "submit" => photos \subseteq t.carries \cup late /\ evidence \notin t.carries
       /\ t.kind = "resolve" =>
            evidence \in t.carries \cup late \cup {Nothing} /\ photos \cap t.carries = {}
       /\ t.kind \notin {"submit", "resolve"} => t.carries = {}
  /\ t.step = "card" => t.carries \subseteq accounts

FormsInv ==
  /\ OnePlace
  /\ \A h \in Running : CarriesRight(task[h])
  /\ PickedIsKept /\ CardHasAccount

\* Whose name a task acts in: before GET /me is answered nobody is signed in.
ActsForUser(t) ==
  /\ t.step \in {"login", "me"} => user = NoOne
  /\ t.step = "me" => t.token = token
  /\ t.step \notin {"login", "me"} => user # NoOne /\ t.who = user /\ t.token = user

AloneInv ==
  ~mixed =>
    /\ \A h \in Running, i \in Running : h = i
    /\ \A h \in Running : task[h].kind # "refresh" => busy
    /\ \A h \in Running : ActsForUser(task[h])
    /\ user = NoOne => reports = NoRows /\ cleaners = NoOne

\* What is in a form, or on its way from one, has not been sent.
UnsentInv ==
  ~mixed =>
    /\ \A f \in Files : sent[f] <= 1
    /\ \A f \in Files : f \in unpicked \cup photos \cup {evidence} \/ BeingRead(f) => sent[f] = 0
    /\ \A h \in Running : task[h].step = "send" => \A f \in task[h].carries : sent[f] = 0

PortalInv == WebTypeOK /\ FormsInv /\ AloneInv /\ SessionIsUsers /\ UnsentInv

-----------------------------------------------------------------------------
(* What a control begins, and what an answer makes of a task *)

LEMMA TaskMoves ==
  ASSUME WebTypeOK, NEW h \in Handlers, NEW t, task' = [task EXCEPT ![h] = t]
  PROVE  /\ task'[h] = t
         /\ \A i \in Running' : i = h \/ (i \in Running /\ task'[i] = task[i])
         /\ t = Idle => h \notin Running'
BY DEF WebTypeOK, Running

LEMMA AwaitIs ==
  ASSUME NEW t \in Tasks, NEW step \in Steps, NEW who \in People \cup {NoOne},
         NEW tok \in People \cup {NoOne}, NEW r, r = Await(t, step, who, tok)
  PROVE  /\ r \in Tasks \cup {Idle}
         /\ r # Idle => /\ r.kind = t.kind /\ r.carries = t.carries /\ r.step = step
                        /\ r.who = who /\ r.token = tok /\ tok # NoOne
         /\ tok = NoOne => r = Idle
BY DEF Await, Tasks

LEMMA BeginIs ==
  ASSUME WebTypeOK, NEW h \in Handlers,
         NEW kind \in Kinds, NEW step \in Steps, NEW who \in People,
         NEW carries \in SUBSET (Files \cup Hires), NEW raises \in BOOLEAN,
         Begin(h, kind, step, who, carries, raises)
  PROVE  /\ task[h] = Idle
         /\ mixed' = (mixed \/ (kind = "google" /\ user # NoOne)
                        \/ \E i \in Running : Uncovered \cap {kind, task[i].kind} # {})
         /\ \E t \in Tasks \cup {Idle} :
              /\ task' = [task EXCEPT ![h] = t]
              /\ busy' = IF raises THEN t # Idle ELSE busy
              /\ t # Idle => /\ t.kind = kind /\ t.step = step /\ t.who = who
                             /\ t.token = token /\ t.carries = carries
                             /\ step = "login" \/ token # NoOne
<1> DEFINE r == [kind |-> kind, step |-> step, who |-> who, token |-> token, carries |-> carries]
           t == IF step = "login" THEN r ELSE Await(r, step, who, token)
<1>1. r \in Tasks
  BY DEF Tasks, WebTypeOK
<1>2. PICK a : a = Await(r, step, who, token)
  OBVIOUS
<1>b. /\ a \in Tasks \cup {Idle}
      /\ a # Idle => /\ a.kind = r.kind /\ a.carries = r.carries /\ a.step = step
                     /\ a.who = who /\ a.token = token /\ token # NoOne
  <2>1. token \in People \cup {NoOne}
    BY DEF WebTypeOK
  <2> QED
    BY <1>1, <1>2, <2>1, AwaitIs
<1>3. task' = [task EXCEPT ![h] = t] /\ task[h] = Idle
  BY DEF Begin
<1>4. busy' = IF raises THEN t # Idle ELSE busy
  BY <1>3 DEF Begin, WebTypeOK
<1>5. t \in Tasks \cup {Idle}
  BY <1>1, <1>2, <1>b
<1>6. t # Idle => /\ t.kind = kind /\ t.step = step /\ t.who = who
                  /\ t.token = token /\ t.carries = carries
                  /\ step = "login" \/ token # NoOne
  BY <1>2, <1>b
<1> HIDE DEF t
<1> QED
  BY <1>3, <1>4, <1>5, <1>6 DEF Begin

\* What a task that has just begun carries, and in whose name.
Fresh(t) ==
  /\ t.step \notin {"me", "card"}
  /\ t.step = "login" => t.who \in People /\ (~mixed' => user = NoOne)
  /\ t.step # "login" => user # NoOne /\ t.who = user /\ t.token = token /\ token # NoOne
  /\ t.step = "send" =>
       t.carries = CASE t.kind = "submit" -> photos
                     [] t.kind = "resolve" -> {evidence}
                     [] OTHER -> {}
  /\ t.kind = "resolve" => evidence # Nothing
  /\ t.kind # "refresh" => busy'

\* A control is used while no handler that the flag covers is under way, or the
\* overlap is noted.
UsedAlone(kind) ==
  ~mixed' => /\ ~mixed
             /\ kind \in Uncovered => Running = {}
             /\ kind \notin Uncovered => ~busy /\ \A i \in Running : task[i].kind \notin Uncovered

\* What the use of a control comes to.
Begun(h) ==
  /\ task[h] = Idle
  /\ \E kind \in Kinds : UsedAlone(kind)
  /\ busy' \in BOOLEAN /\ mixed' \in BOOLEAN
  /\ \E t \in Tasks \cup {Idle} :
       /\ task' = [task EXCEPT ![h] = t]
       /\ t # Idle => Fresh(t)
       /\ UNCHANGED <<token, user, reports, cleaners>> \/ (t = Idle /\ SignedOut)
  /\ UNCHANGED <<valid, formVars, hireVars>>

LEMMA BeginBegins ==
  ASSUME WebTypeOK, NEW h \in Handlers,
         NEW kind \in Kinds, NEW step \in Steps, NEW who \in People,
         NEW carries \in SUBSET (Files \cup Hires), NEW raises \in BOOLEAN,
         Begin(h, kind, step, who, carries, raises),
         step \notin {"me", "card"},
         step = "login" => kind = "google" \/ user = NoOne,
         step # "login" => user # NoOne /\ who = user,
         step = "send" => carries = CASE kind = "submit" -> photos
                                      [] kind = "resolve" -> {evidence}
                                      [] OTHER -> {},
         kind = "resolve" => evidence # Nothing,
         kind # "refresh" => raises,
         kind \notin Uncovered => ~busy,
         UNCHANGED <<valid, formVars, hireVars>>,
         UNCHANGED <<token, user, reports, cleaners>>
           \/ (token = NoOne /\ step # "login" /\ SignedOut)
  PROVE  Begun(h)
<1>1. /\ task[h] = Idle
      /\ mixed' = (mixed \/ (kind = "google" /\ user # NoOne)
                     \/ \E i \in Running : Uncovered \cap {kind, task[i].kind} # {})
  BY DEF Begin
<1>2. PICK t \in Tasks \cup {Idle} :
        /\ task' = [task EXCEPT ![h] = t]
        /\ busy' = IF raises THEN t # Idle ELSE busy
        /\ t # Idle => /\ t.kind = kind /\ t.step = step /\ t.who = who
                       /\ t.token = token /\ t.carries = carries
                       /\ step = "login" \/ token # NoOne
  BY BeginIs
<1>3. UsedAlone(kind)
  <2>1. ASSUME ~mixed', NEW i \in Running PROVE kind \notin Uncovered /\ task[i].kind \notin Uncovered
    BY <1>1, <2>1
  <2> QED
    BY <1>1, <2>1 DEF UsedAlone
<1>4. ASSUME t # Idle PROVE Fresh(t)
  <2>1. t.step = step /\ t.kind = kind /\ t.who = who /\ t.token = token /\ t.carries = carries
    BY <1>2, <1>4
  <2>2. kind # "refresh" => busy'
    BY <1>2, <1>4
  <2>3. step = "login" => (~mixed' => user = NoOne)
    BY <1>1
  <2>4. step # "login" => token # NoOne
    BY <1>2, <1>4
  <2> QED
    BY <2>1, <2>2, <2>3, <2>4 DEF Fresh
<1>5. busy' \in BOOLEAN /\ mixed' \in BOOLEAN
  BY <1>1, <1>2 DEF WebTypeOK
<1>6. UNCHANGED <<token, user, reports, cleaners>> \/ (t = Idle /\ SignedOut)
  BY <1>2
<1> QED
  BY <1>1, <1>2, <1>3, <1>4, <1>5, <1>6 DEF Begun

LEMMA UseIs == ASSUME WebTypeOK, NEW h \in Handlers, Use(h) PROVE Begun(h)
<1> USE DEF Kinds, Steps
<1>a. Uncovered = {"refresh", "assign", "google"}
  BY DEF Uncovered
<1>p. Public \subseteq People /\ NoOne \notin People /\ Nothing \notin Files
  BY WebAssumption DEF WebAssumption
<1>1. ASSUME NEW p \in People, SignIn(h, p) PROVE Begun(h)
  <2>1. Begin(h, "signIn", "login", p, {}, TRUE) /\ user = NoOne /\ ~busy
        /\ UNCHANGED <<token, valid, user, reports, cleaners, formVars, hireVars>>
    BY <1>1 DEF SignIn, MaySignIn, Enabled
  <2> QED
    BY <2>1, BeginBegins
<1>2. ASSUME NEW p \in People, GoogleCallback(h, p) PROVE Begun(h)
  <2>1. Begin(h, "google", "login", p, {}, TRUE)
        /\ UNCHANGED <<token, valid, user, reports, cleaners, formVars, hireVars>>
    BY <1>2 DEF GoogleCallback
  <2> QED
    BY <2>1, <1>a, BeginBegins
<1>3. ASSUME SubmitReport(h) PROVE Begun(h)
  <2>1. Begin(h, "submit", "send", user, photos, TRUE) /\ user \in Public /\ ~busy
        /\ UNCHANGED <<token, valid, user, reports, cleaners, formVars, hireVars>>
    BY <1>3 DEF SubmitReport, MaySubmit, Enabled
  <2>2. user \in People /\ user # NoOne /\ photos \in SUBSET (Files \cup Hires)
    BY <2>1, <1>p DEF WebTypeOK
  <2> QED
    BY <2>1, <2>2, BeginBegins
<1>4. ASSUME NEW b \in BOOLEAN, UpdateTask(h, b) PROVE Begun(h)
  <2> DEFINE kind == IF b THEN "resolve" ELSE "start"
             carries == IF b THEN {evidence} ELSE {}
  <2>1. Begin(h, kind, "send", user, carries, TRUE) /\ user \in People \ Public /\ ~busy
        /\ (b => evidence # Nothing)
        /\ UNCHANGED <<token, valid, user, reports, cleaners, formVars, hireVars>>
    BY <1>4 DEF UpdateTask, MayUpdateTask, Enabled
  <2>2. user \in People /\ user # NoOne /\ carries \in SUBSET (Files \cup Hires)
    BY <2>1, <1>p DEF WebTypeOK
  <2>3. carries = CASE kind = "submit" -> photos
                    [] kind = "resolve" -> {evidence}
                    [] OTHER -> {}
    OBVIOUS
  <2>4. kind \in Kinds /\ kind # "refresh" /\ (kind = "resolve" => evidence # Nothing)
    BY <2>1
  <2> HIDE DEF kind, carries
  <2> QED
    BY <2>1, <2>2, <2>3, <2>4, BeginBegins
<1>5. ASSUME Assign(h) PROVE Begun(h)
  <2>1. Begin(h, "assign", "send", user, {}, TRUE) /\ user \in People \ Public
        /\ UNCHANGED <<token, valid, user, reports, cleaners, formVars, hireVars>>
    BY <1>5 DEF Assign, MayAssign
  <2> QED
    BY <2>1, <1>a, <1>p, BeginBegins
<1>6. ASSUME NEW c \in Hires, ProvisionStaff(h, c) PROVE Begun(h)
  <2>1. Begin(h, "provision", "account", user, {c}, TRUE) /\ user \in People \ Public /\ ~busy
        /\ UNCHANGED <<token, valid, user, reports, cleaners, formVars, hireVars>>
    BY <1>6 DEF ProvisionStaff, MayHire, HireOrder, Enabled
  <2> QED
    BY <2>1, <1>p, BeginBegins
<1>7. ASSUME Refresh(h) PROVE Begun(h)
  <2>1. Begin(h, "refresh", "load", user, {}, FALSE) /\ user # NoOne
        /\ UNCHANGED <<token, valid, user, reports, cleaners, formVars, hireVars>>
    BY <1>7 DEF Refresh
  <2>2. user \in People
    BY <2>1 DEF WebTypeOK
  <2> QED
    BY <2>1, <2>2, <1>a, BeginBegins
<1>8. ASSUME Logout(h) PROVE Begun(h)
  <2>1. Begin(h, "logout", "logout", user, {}, TRUE) /\ user # NoOne /\ ~busy
        /\ UNCHANGED <<valid, formVars, hireVars>>
        /\ (UNCHANGED <<token, user, reports, cleaners>> \/ (token = NoOne /\ SignedOut))
    BY <1>8 DEF Logout, Enabled
  <2>2. user \in People
    BY <2>1 DEF WebTypeOK
  <2> QED
    BY <2>1, <2>2, BeginBegins
<1> QED
  BY <1>1, <1>2, <1>3, <1>4, <1>5, <1>6, <1>7, <1>8 DEF Use

\* What an answer, or the lack of one, comes to.
Settled(h) ==
  /\ task[h] # Idle
  /\ mixed' = mixed
  /\ busy' = busy \/ (busy' = FALSE /\ task'[h] = Idle /\ task[h].kind # "refresh")
  /\ \E t \in Tasks \cup {Idle} :
       /\ task' = [task EXCEPT ![h] = t]
       /\ t # Idle => /\ t.kind = task[h].kind /\ t.carries = task[h].carries
                      /\ t.step # "send" /\ t.step # "login"
                      /\ t.step = "card" => task[h].step = "account"

LEMMA SettleIs == ASSUME WebTypeOK, NEW h \in Handlers, Settle(h) PROVE Settled(h)
<1>s. "me" \in Steps /\ "load" \in Steps /\ "card" \in Steps /\ "panel" \in Steps
  BY DEF Steps
<1>a. task[h] # Idle
  BY DEF Settle, LoginAnswered, MeAnswered, LoadAnswered, PanelSettled, SendAnswered,
         HireAnswered, Failed, Refused, LogoutSettled, Awaits
<1>d. task[h] \in Tasks /\ task[h].who \in People \cup {NoOne}
      /\ task[h].token \in People \cup {NoOne}
  BY <1>a DEF WebTypeOK, Tasks
<1>b. ASSUME task[h] # Idle, busy' = Lowered(h), mixed' = mixed, NEW t \in Tasks \cup {Idle},
             task' = [task EXCEPT ![h] = t],
             t # Idle => /\ t.kind = task[h].kind /\ t.carries = task[h].carries
                         /\ t.step # "send" /\ t.step # "login"
                         /\ t.step = "card" => task[h].step = "account"
      PROVE  Settled(h)
  BY <1>b DEF Settled, Lowered
<1>c. token \in People \cup {NoOne}
  BY DEF WebTypeOK
<1>1. CASE LoginAnswered(h)
  <2>1. task[h] # Idle /\ task[h].step = "login" /\ token' = task[h].who /\ busy' = busy
        /\ mixed' = mixed /\ task' = [task EXCEPT ![h] = Await(task[h], "me", NoOne, token')]
    BY <1>1 DEF LoginAnswered, Awaits, WebTypeOK
  <2>a. PICK tok \in People \cup {NoOne} : tok = token'
    BY <2>1, <1>d
  <2>b. PICK who \in People \cup {NoOne} : who = NoOne
    OBVIOUS
  <2>2. PICK t : t = Await(task[h], "me", who, tok)
    OBVIOUS
  <2>3. t \in Tasks \cup {Idle} /\ (t # Idle => t.kind = task[h].kind /\ t.carries = task[h].carries
                                             /\ t.step = "me")
    BY <2>a, <2>b, <2>2, <1>d, <1>s DEF Await, Tasks
  <2>4. task' = [task EXCEPT ![h] = t]
    BY <2>1, <2>a, <2>b, <2>2
  <2> QED
    BY <2>1, <2>3, <2>4, <1>a DEF Settled
<1>2. CASE MeAnswered(h)
  <2>1. task[h] # Idle /\ user' = task[h].token /\ busy' = Lowered(h) /\ mixed' = mixed
        /\ task' = [task EXCEPT ![h] = Await(task[h], "load", user', token)]
    BY <1>2 DEF MeAnswered, Awaits, WebTypeOK
  <2>a. PICK who \in People \cup {NoOne} : who = user'
    BY <2>1, <1>d
  <2>2. PICK t : t = Await(task[h], "load", who, token)
    OBVIOUS
  <2>3. t \in Tasks \cup {Idle} /\ (t # Idle => t.kind = task[h].kind /\ t.carries = task[h].carries
                                             /\ t.step = "load")
    BY <2>a, <2>2, <1>c, <1>d, <1>s, AwaitIs
  <2> QED
    BY <2>1, <2>a, <2>2, <2>3, <1>b
<1>3. CASE \E b \in BOOLEAN : LoadAnswered(h, b)
  <2>1. task[h] # Idle /\ busy' = Lowered(h) /\ mixed' = mixed
        /\ (task' = [task EXCEPT ![h] = Idle]
              \/ task' = [task EXCEPT ![h] = [task[h] EXCEPT !.step = "panel"]])
    BY <1>3 DEF LoadAnswered, Awaits
  <2>2. [task[h] EXCEPT !.step = "panel"] \in Tasks
        /\ [task[h] EXCEPT !.step = "panel"].kind = task[h].kind
        /\ [task[h] EXCEPT !.step = "panel"].carries = task[h].carries
        /\ [task[h] EXCEPT !.step = "panel"].step = "panel"
    BY <1>d, <1>s DEF Tasks
  <2>3. CASE task' = [task EXCEPT ![h] = Idle]
    BY <2>1, <2>3, <1>b
  <2>4. CASE task' = [task EXCEPT ![h] = [task[h] EXCEPT !.step = "panel"]]
    BY <2>1, <2>2, <2>4, <1>b
  <2> QED
    BY <2>1, <2>3, <2>4
<1>4. CASE PanelSettled(h) \/ Failed(h) \/ Refused(h) \/ \E b \in BOOLEAN : LogoutSettled(h, b)
  <2>1. task[h] # Idle /\ busy' = Lowered(h) /\ mixed' = mixed /\ task' = [task EXCEPT ![h] = Idle]
    BY <1>4 DEF PanelSettled, Failed, Refused, LogoutSettled, Awaits
  <2> QED
    BY <2>1, <1>b
<1>5. CASE SendAnswered(h)
  <2>1. task[h] # Idle /\ busy' = Lowered(h) /\ mixed' = mixed
        /\ task' = [task EXCEPT ![h] = Await(task[h], "load", task[h].who, token)]
    BY <1>5 DEF SendAnswered, Awaits
  <2>2. PICK t : t = Await(task[h], "load", task[h].who, token)
    OBVIOUS
  <2>3. t \in Tasks \cup {Idle} /\ (t # Idle => t.kind = task[h].kind /\ t.carries = task[h].carries
                                             /\ t.step = "load")
    BY <2>2, <1>c, <1>d, <1>s, AwaitIs
  <2> QED
    BY <2>1, <2>2, <2>3, <1>b
<1>6. CASE HireAnswered(h)
  <2>1. PICK s : s = IF task[h].step = "account" THEN "card" ELSE "load"
    OBVIOUS
  <2>a. s \in Steps
    BY <2>1, <1>s
  <2>2. task[h] # Idle /\ busy' = Lowered(h) /\ mixed' = mixed
        /\ task' = [task EXCEPT ![h] = Await(task[h], s, task[h].who, token)]
    BY <1>6, <2>1 DEF HireAnswered, Awaits, HireOrder
  <2>3. PICK t : t = Await(task[h], s, task[h].who, token)
    OBVIOUS
  <2>4. t \in Tasks \cup {Idle} /\ (t # Idle => t.kind = task[h].kind /\ t.carries = task[h].carries
                                             /\ t.step = s)
    BY <2>a, <2>3, <1>c, <1>d, AwaitIs
  <2> QED
    BY <2>1, <2>2, <2>3, <2>4, <1>b
<1> QED
  BY <1>1, <1>2, <1>3, <1>4, <1>5, <1>6 DEF Settle

LEMMA UseTypes == ASSUME WebTypeOK, NEW h \in Handlers, Use(h) PROVE WebTypeOK'
<1>1. Begun(h)
  BY UseIs
<1>2. PICK t \in Tasks \cup {Idle} :
        /\ task' = [task EXCEPT ![h] = t]
        /\ t # Idle => Fresh(t)
        /\ UNCHANGED <<token, user, reports, cleaners>> \/ (t = Idle /\ SignedOut)
  BY <1>1 DEF Begun
<1>3. /\ task' \in [Handlers -> Tasks \cup {Idle}]
      /\ \A i \in Running' : task'[i].step = "login" => task'[i].who \in People
  <2>1. task' \in [Handlers -> Tasks \cup {Idle}]
    BY <1>2 DEF WebTypeOK
  <2>2. t # Idle /\ t.step = "login" => t.who \in People
    BY <1>2 DEF Fresh
  <2> QED
    BY <1>2, <2>1, <2>2, TaskMoves DEF WebTypeOK, Running
<1>4. /\ token' \in People \cup {NoOne} /\ user' \in People \cup {NoOne}
      /\ reports' \in [of : People \cup {NoOne}, by : People \cup {NoOne}]
      /\ cleaners' \in People \cup {NoOne}
  BY <1>2 DEF WebTypeOK, SignedOut, NoRows
<1> QED
  BY <1>1, <1>3, <1>4 DEF WebTypeOK, Begun, formVars

LEMMA SettleTypes == ASSUME WebTypeOK, NEW h \in Handlers, Settle(h) PROVE WebTypeOK'
<1>1. Settled(h)
  BY SettleIs
<1>2. task' \in [Handlers -> Tasks \cup {Idle}] /\ mixed' \in BOOLEAN /\ busy' \in BOOLEAN
  BY <1>1 DEF Settled, WebTypeOK
<1>3. task[h] \in Tasks /\ task[h] # Idle /\ h \in Running
  BY <1>1 DEF Settled, WebTypeOK, Running
<1>4. task[h].who \in People \cup {NoOne} /\ task[h].token \in People \cup {NoOne}
  BY <1>3 DEF Tasks
<1>5. \A i \in Running' : task'[i].step = "login" => task'[i].who \in People
  <2>1. PICK t : task' = [task EXCEPT ![h] = t] /\ (t # Idle => t.step # "login")
    BY <1>1 DEF Settled
  <2> QED
    BY <2>1, TaskMoves DEF Running, WebTypeOK
<1>6. CASE LoginAnswered(h)
  <2>1. task[h].who \in People
    BY <1>3, <1>6 DEF WebTypeOK, LoginAnswered, Awaits
  <2> QED
    BY <1>2, <1>5, <1>6, <2>1 DEF WebTypeOK, LoginAnswered, formVars
<1>7. CASE MeAnswered(h)
  BY <1>2, <1>4, <1>5, <1>7 DEF WebTypeOK, MeAnswered, formVars
<1>8. CASE \E b \in BOOLEAN : LoadAnswered(h, b)
  BY <1>2, <1>4, <1>5, <1>8 DEF WebTypeOK, LoadAnswered, formVars
<1>9. CASE SendAnswered(h)
  <2>1. sent' \in [Files -> Nat] /\ photos' \subseteq Files /\ evidence' \in Files \cup {Nothing}
    BY <1>9 DEF SendAnswered, WebTypeOK, PhotosAfterSubmit
  <2> QED
    BY <1>2, <1>5, <1>9, <2>1 DEF WebTypeOK, SendAnswered
<1>10. CASE PanelSettled(h) \/ HireAnswered(h)
  BY <1>2, <1>5, <1>10 DEF WebTypeOK, PanelSettled, HireAnswered, formVars
<1>11. CASE Failed(h) \/ Refused(h)
  BY <1>2, <1>5, <1>11 DEF WebTypeOK, Failed, Refused, formVars
<1>12. CASE \E b \in BOOLEAN : LogoutSettled(h, b)
  BY <1>2, <1>5, <1>12 DEF WebTypeOK, LogoutSettled, formVars, NoRows, Cleared
<1> QED
  BY <1>6, <1>7, <1>8, <1>9, <1>10, <1>11, <1>12 DEF Settle

FileSteps(batch) ==
  \/ \E purpose \in {"photo", "evidence"} :
       PickFiles(batch, purpose) \/ RefuseFiles(batch, purpose) \/ ReadFails(batch, purpose)
  \/ PhotosRead(batch)
  \/ \E f \in Files : batch = {f} /\ EvidenceRead(f)

LEMMA FileTypes == ASSUME WebTypeOK, NEW batch \in SUBSET Files, FileSteps(batch) PROVE WebTypeOK'
<1>1. UNCHANGED <<sessionVars, task, mixed, sent>>
  BY DEF FileSteps, PickFiles, RefuseFiles, ReadFails, PhotosRead, EvidenceRead
<1>2. photos' \subseteq Files /\ evidence' \in Files \cup {Nothing} /\ unpicked' \subseteq Files
  BY DEF WebTypeOK, FileSteps, PickFiles, RefuseFiles, ReadFails, PhotosRead, EvidenceRead, Appended
<1>3. reading' \subseteq (SUBSET Files) \X {"photo", "evidence"}
  <2>1. reading \subseteq (SUBSET Files) \X {"photo", "evidence"}
    BY DEF WebTypeOK
  <2>2. ASSUME NEW purpose \in {"photo", "evidence"}, PickFiles(batch, purpose)
        PROVE  reading' \subseteq (SUBSET Files) \X {"photo", "evidence"}
    <3>1. reading' = reading \cup {<<batch, purpose>>}
      BY <2>2 DEF PickFiles
    <3>2. <<batch, purpose>> \in (SUBSET Files) \X {"photo", "evidence"}
      OBVIOUS
    <3> QED
      BY <2>1, <3>1, <3>2
  <2>3. ASSUME NEW purpose \in {"photo", "evidence"},
               RefuseFiles(batch, purpose) \/ ReadFails(batch, purpose)
        PROVE  reading' \subseteq reading
    BY <2>3 DEF RefuseFiles, ReadFails
  <2>4. ASSUME PhotosRead(batch) \/ (\E f \in Files : batch = {f} /\ EvidenceRead(f))
        PROVE  reading' \subseteq reading
    BY <2>4 DEF PhotosRead, EvidenceRead
  <2> QED
    BY <2>1, <2>2, <2>3, <2>4 DEF FileSteps
<1> QED
  BY <1>1, <1>2, <1>3 DEF WebTypeOK, sessionVars, Running

LEMMA OtherTypes ==
  ASSUME WebTypeOK,
         (\E out \in SUBSET photos : RemovePhotos(out)) \/ (\E p \in People : Expire(p))
           \/ UNCHANGED webVars
  PROVE  WebTypeOK'
<1>1. CASE \E out \in SUBSET photos : RemovePhotos(out)
  BY <1>1 DEF WebTypeOK, RemovePhotos, sessionVars, Running
<1>2. CASE \E p \in People : Expire(p)
  BY <1>2 DEF WebTypeOK, Expire, formVars, Running
<1>3. CASE UNCHANGED webVars
  BY <1>3 DEF WebTypeOK, webVars, sessionVars, formVars, Running
<1> QED
  BY <1>1, <1>2, <1>3

-----------------------------------------------------------------------------
(* The forms *)

\* Nothing comes into a form: all but picking and reading a file.
FormsShrink ==
  /\ photos' \subseteq photos /\ evidence' \in {evidence, Nothing}
  /\ UNCHANGED <<unpicked, reading>> /\ late \subseteq late' /\ accounts \subseteq accounts'

LEMMA CarriesStays ==
  ASSUME FormsShrink, NEW t, CarriesRight(t) PROVE CarriesRight(t)'
<1>1. Nothing \notin Files
  BY WebAssumption DEF WebAssumption
<1>2. \A f : BeingRead(f)' = BeingRead(f)
  BY DEF BeingRead, FormsShrink
<1>3. ASSUME t.step = "send" PROVE t.carries \subseteq Files /\ Nothing \notin t.carries
  BY <1>1, <1>3 DEF CarriesRight
<1> QED
  BY <1>2, <1>3 DEF FormsShrink, CarriesRight

LEMMA OnePlaceStays == ASSUME WebTypeOK, OnePlace, FormsShrink PROVE OnePlace'
<1>1. Nothing \notin Files
  BY WebAssumption DEF WebAssumption
<1>2. \A f : BeingRead(f)' = BeingRead(f)
  BY DEF BeingRead, FormsShrink
<1>3. Nothing \notin unpicked /\ ~BeingRead(Nothing)
  BY <1>1 DEF WebTypeOK, BeingRead
<1>4. \A f \in photos : f # Nothing
  BY <1>1 DEF WebTypeOK
<1> QED
  BY <1>2, <1>3, <1>4 DEF OnePlace, FormsShrink

LEMMA UseKeepsForms == ASSUME WebTypeOK, FormsInv, NEW h \in Handlers, Use(h) PROVE FormsInv'
<1>1. Begun(h)
  BY UseIs
<1>2. PICK t \in Tasks \cup {Idle} : task' = [task EXCEPT ![h] = t] /\ (t # Idle => Fresh(t))
  BY <1>1 DEF Begun
<1>3. UNCHANGED <<formVars, hireVars>>
  BY <1>1 DEF Begun
<1>4. FormsShrink
  BY <1>3 DEF FormsShrink, formVars, hireVars
<1>5. OnePlace'
  BY <1>4, OnePlaceStays DEF FormsInv
<1>6. ASSUME t # Idle PROVE CarriesRight(t)'
  <2>1. Fresh(t)
    BY <1>2, <1>6
  <2>2. CarriesRight(t)
    <3>1. evidence \in Files \/ evidence = Nothing
      BY DEF WebTypeOK
    <3>2. t.step # "card"
      BY <2>1 DEF Fresh
    <3>3. CASE t.step = "send" /\ t.kind = "submit"
      <4>1. t.carries = photos
        BY <2>1, <3>3 DEF Fresh
      <4> QED
        BY <3>2, <3>3, <4>1 DEF CarriesRight, FormsInv, OnePlace, WebTypeOK
    <3>4. CASE t.step = "send" /\ t.kind = "resolve"
      <4>1. t.carries = {evidence} /\ evidence # Nothing
        BY <2>1, <3>4 DEF Fresh
      <4> QED
        BY <3>1, <3>2, <3>4, <4>1 DEF CarriesRight, FormsInv, OnePlace
    <3>5. CASE t.step = "send" /\ t.kind \notin {"submit", "resolve"}
      <4>1. t.carries = {}
        BY <2>1, <3>5 DEF Fresh
      <4> QED
        BY <3>2, <3>5, <4>1 DEF CarriesRight
    <3> QED
      BY <3>2, <3>3, <3>4, <3>5 DEF CarriesRight
  <2> QED
    BY <1>4, <2>2, CarriesStays
<1>7. ASSUME NEW i \in Running' PROVE CarriesRight(task[i])'
  <2>1. PICK s : s = task'[i]
    OBVIOUS
  <2>2. CASE i = h
    <3>1. s = t /\ t # Idle
      BY <1>2, <1>7, <2>1, <2>2, TaskMoves
    <3> QED
      BY <1>6, <2>1, <3>1
  <2>3. CASE i # h
    <3>1. i \in Running /\ task[i] = s
      BY <1>2, <1>7, <2>1, <2>3, TaskMoves
    <3>2. CarriesRight(s)
      BY <3>1 DEF FormsInv
    <3>3. CarriesRight(s)'
      BY <1>4, <3>2, CarriesStays
    <3> QED
      BY <2>1, <3>3
  <2> QED
    BY <2>2, <2>3
<1>8. PickedIsKept' /\ CardHasAccount'
  BY <1>3 DEF FormsInv, PickedIsKept, CardHasAccount, BeingRead, formVars, hireVars
<1> QED
  BY <1>5, <1>7, <1>8 DEF FormsInv

LEMMA SettleKeepsForms ==
  ASSUME WebTypeOK, FormsInv, NEW h \in Handlers, Settle(h) PROVE FormsInv'
<1>1. Settled(h)
  BY SettleIs
<1>2. PICK t \in Tasks \cup {Idle} :
        /\ task' = [task EXCEPT ![h] = t]
        /\ t # Idle => /\ t.kind = task[h].kind /\ t.carries = task[h].carries
                       /\ t.step # "send" /\ t.step # "login"
                       /\ t.step = "card" => task[h].step = "account"
  BY <1>1 DEF Settled
<1>3. h \in Running /\ task[h] \in Tasks /\ CarriesRight(task[h])
  BY <1>1 DEF Settled, Running, WebTypeOK, FormsInv
<1>4. FormsShrink
  <2>1. CASE SendAnswered(h)
    BY <2>1 DEF FormsShrink, SendAnswered, hireVars, PhotosAfterSubmit
  <2>2. CASE HireAnswered(h)
    BY <2>2 DEF FormsShrink, HireAnswered, formVars
  <2>3. CASE Failed(h)
    BY <2>3 DEF FormsShrink, Failed, formVars, hireVars
  <2>4. CASE UNCHANGED <<formVars, hireVars>>
    BY <2>4 DEF FormsShrink, formVars, hireVars
  <2> QED
    BY <2>1, <2>2, <2>3, <2>4 DEF Settle, LoginAnswered, MeAnswered, LoadAnswered, PanelSettled,
       Refused, LogoutSettled
<1>5. OnePlace'
  BY <1>4, OnePlaceStays DEF FormsInv
<1>6. ASSUME t # Idle PROVE CarriesRight(t)'
  <2>1. CASE t.step = "card"
    <3>1. t.carries \subseteq accounts'
      <4>1. task[h].step = "account"
        BY <1>2, <1>6, <2>1
      <4>2. t # Idle /\ task'[h] # Idle
        BY <1>2, <1>6, TaskMoves
      <4>3. HireAnswered(h)
        BY <1>2, <4>1, <4>2, TaskMoves DEF Settle, LoginAnswered, MeAnswered, LoadAnswered,
           PanelSettled, SendAnswered, Failed, Refused, LogoutSettled, Awaits
      <4> QED
        BY <1>2, <1>6, <4>1, <4>3 DEF HireAnswered
    <3> QED
      BY <1>2, <1>6, <2>1, <3>1 DEF CarriesRight
  <2>2. CASE t.step # "card"
    BY <1>2, <1>6, <2>2 DEF CarriesRight
  <2> QED
    BY <2>1, <2>2
<1>7. ASSUME NEW i \in Running' PROVE CarriesRight(task[i])'
  <2>1. PICK s : s = task'[i]
    OBVIOUS
  <2>2. CASE i = h
    <3>1. s = t /\ t # Idle
      BY <1>2, <1>7, <2>1, <2>2, TaskMoves
    <3> QED
      BY <1>6, <2>1, <3>1
  <2>3. CASE i # h
    <3>1. i \in Running /\ task[i] = s
      BY <1>2, <1>7, <2>1, <2>3, TaskMoves
    <3>2. CarriesRight(s)
      BY <3>1 DEF FormsInv
    <3>3. CarriesRight(s)'
      BY <1>4, <3>2, CarriesStays
    <3> QED
      BY <2>1, <3>3
  <2> QED
    BY <2>2, <2>3
<1>8. PickedIsKept'
  <2>1. CASE SendAnswered(h)
    <3>1. task[h].step = "send"
      BY <2>1 DEF SendAnswered, Awaits
    <3>2. UNCHANGED <<unpicked, reading, removed, refused, late>>
      BY <2>1 DEF SendAnswered
    <3>3. \A f \in Files : sent'[f] = sent[f] + (IF f \in task[h].carries THEN 1 ELSE 0)
      BY <2>1 DEF SendAnswered
    <3>4. \A f \in Files : sent[f] \in Nat
      BY DEF WebTypeOK
    <3>5. \A f \in Files : /\ sent[f] > 0 => sent'[f] > 0
                           /\ f \in task[h].carries => sent'[f] > 0
      BY <3>3, <3>4
    <3>6. \A f \in photos : f \in photos' \/ f \in task[h].carries \/ f \in late
      BY <1>3, <2>1, <3>1 DEF SendAnswered, CarriesRight
    <3>7. evidence = Nothing \/ evidence = evidence' \/ evidence \in task[h].carries \/ evidence \in late
      BY <1>3, <2>1, <3>1 DEF SendAnswered, CarriesRight
    <3>8. Nothing \notin Files
      BY WebAssumption DEF WebAssumption
    <3> QED
      BY <3>2, <3>5, <3>6, <3>7, <3>8 DEF PickedIsKept, FormsInv, BeingRead
  <2>2. CASE UNCHANGED formVars
    BY <2>2 DEF PickedIsKept, FormsInv, BeingRead, formVars
  <2> QED
    BY <2>1, <2>2 DEF Settle, LoginAnswered, MeAnswered, LoadAnswered, PanelSettled,
       HireAnswered, Failed, Refused, LogoutSettled
<1>9. CardHasAccount'
  <2>1. CASE HireAnswered(h)
    <3>1. task[h].step = "card" => task[h].carries \subseteq accounts
      BY <1>3 DEF CarriesRight
    <3> QED
      BY <2>1, <3>1 DEF HireAnswered, Awaits, CardHasAccount, FormsInv
  <2>2. CASE Failed(h)
    <3>1. task[h].step = "card" => task[h].carries \subseteq accounts
      BY <1>3 DEF CarriesRight
    <3> QED
      BY <2>2, <3>1 DEF Failed, CardHasAccount, FormsInv, hireVars
  <2>3. CASE UNCHANGED hireVars
    BY <2>3 DEF CardHasAccount, FormsInv, hireVars
  <2> QED
    BY <2>1, <2>2, <2>3 DEF Settle, LoginAnswered, MeAnswered, LoadAnswered, PanelSettled,
       SendAnswered, Refused, LogoutSettled
<1> QED
  BY <1>5, <1>7, <1>8, <1>9 DEF FormsInv

\* What is no longer read is out of the way of what is.
LEMMA ReadingEnds ==
  ASSUME WebTypeOK, OnePlace, NEW batch \in SUBSET Files, NEW purpose \in {"photo", "evidence"},
         <<batch, purpose>> \in reading, reading' = reading \ {<<batch, purpose>>}
  PROVE  /\ \A g : BeingRead(g)' <=> BeingRead(g) /\ g \notin batch
         /\ \A r, s \in reading' : r # s => r[1] \cap s[1] = {}
         /\ \A f \in batch : f \notin unpicked /\ f \notin photos /\ f # evidence /\ BeingRead(f)
<1>1. PICK r : r = <<batch, purpose>>
  OBVIOUS
<1>2. r \in reading /\ r[1] = batch /\ reading' = reading \ {r}
  BY <1>1
<1>3. \A s \in reading' : s \in reading /\ s[1] \cap batch = {}
  BY <1>2 DEF OnePlace
<1>4. \A g : BeingRead(g) <=> g \in batch \/ BeingRead(g)'
  BY <1>2 DEF BeingRead
<1>5. \A g : BeingRead(g)' => g \notin batch
  BY <1>3 DEF BeingRead
<1>6. \A f \in batch : BeingRead(f)
  BY <1>4
<1> QED
  BY <1>2, <1>4, <1>5, <1>6 DEF OnePlace

LEMMA FileKeepsForms ==
  ASSUME WebTypeOK, FormsInv, NEW batch \in SUBSET Files, FileSteps(batch) PROVE FormsInv'
<1>1. /\ UNCHANGED <<task, sent, accounts, cards>> /\ Running' = Running
      /\ removed \subseteq removed' /\ refused \subseteq refused' /\ late \subseteq late'
  BY DEF FileSteps, PickFiles, RefuseFiles, ReadFails, PhotosRead, EvidenceRead, Running, hireVars
<1>2. CardHasAccount'
  BY <1>1 DEF FormsInv, CardHasAccount
<1>3. evidence \in Files \cup {Nothing} /\ Nothing \notin Files
  BY WebAssumption DEF WebAssumption, WebTypeOK
<1>4. \A i \in Running : CarriesRight(task[i]) /\ task'[i] = task[i]
  BY <1>1 DEF FormsInv
<1>5. CASE \E purpose \in {"photo", "evidence"} : PickFiles(batch, purpose)
  <2>1. PICK purpose \in {"photo", "evidence"} :
          /\ unpicked' = unpicked \ batch /\ reading' = reading \cup {<<batch, purpose>>}
          /\ UNCHANGED <<photos, evidence, removed, refused, late>>
    BY <1>5 DEF PickFiles
  <2>2. batch \subseteq unpicked
    BY <1>5 DEF PickFiles, Choices
  <2>3. PICK r : r = <<batch, purpose>>
    OBVIOUS
  <2>4. r[1] = batch /\ reading' = reading \cup {r}
    BY <2>1, <2>3
  <2>5. \A g : BeingRead(g)' <=> BeingRead(g) \/ g \in batch
    BY <2>4 DEF BeingRead
  <2>6. \A s \in reading : s[1] \cap batch = {}
    BY <2>2 DEF BeingRead, FormsInv, OnePlace
  <2>7. \A q, s \in reading' : q # s => q[1] \cap s[1] = {}
    BY <2>4, <2>6 DEF FormsInv, OnePlace
  <2>8. OnePlace'
    BY <2>1, <2>2, <2>5, <2>7 DEF FormsInv, OnePlace
  <2>9. ASSUME NEW t, CarriesRight(t) PROVE CarriesRight(t)'
    BY <1>1, <2>1, <2>2, <2>5, <2>9 DEF CarriesRight
  <2>10. PickedIsKept'
    BY <1>1, <2>1, <2>5 DEF FormsInv, PickedIsKept
  <2> QED
    BY <1>1, <1>2, <1>4, <2>8, <2>9, <2>10 DEF FormsInv
<1>6. CASE \E purpose \in {"photo", "evidence"} : RefuseFiles(batch, purpose)
  <2>1. /\ unpicked' = unpicked \ batch /\ refused' = refused \cup batch
        /\ UNCHANGED <<photos, evidence, reading, removed, late>>
    BY <1>6 DEF RefuseFiles
  <2>2. \A g : BeingRead(g)' <=> BeingRead(g)
    BY <2>1 DEF BeingRead
  <2>3. OnePlace'
    BY <2>1, <2>2 DEF FormsInv, OnePlace
  <2>4. ASSUME NEW t, CarriesRight(t) PROVE CarriesRight(t)'
    BY <1>1, <2>1, <2>2, <2>4 DEF CarriesRight
  <2>5. PickedIsKept'
    BY <1>1, <2>1, <2>2 DEF FormsInv, PickedIsKept
  <2> QED
    BY <1>1, <1>2, <1>4, <2>3, <2>4, <2>5 DEF FormsInv
<1>7. CASE \E purpose \in {"photo", "evidence"} : ReadFails(batch, purpose)
  <2>1. PICK purpose \in {"photo", "evidence"} :
          /\ <<batch, purpose>> \in reading /\ reading' = reading \ {<<batch, purpose>>}
          /\ refused' = refused \cup batch /\ UNCHANGED <<photos, evidence, unpicked, removed, late>>
    BY <1>7 DEF ReadFails
  <2>2. /\ \A g : BeingRead(g)' <=> BeingRead(g) /\ g \notin batch
        /\ \A r, s \in reading' : r # s => r[1] \cap s[1] = {}
    BY <2>1, ReadingEnds DEF FormsInv
  <2>3. OnePlace'
    BY <2>1, <2>2 DEF FormsInv, OnePlace
  <2>4. ASSUME NEW t, CarriesRight(t) PROVE CarriesRight(t)'
    BY <1>1, <2>1, <2>2, <2>4 DEF CarriesRight
  <2>5. PickedIsKept'
    BY <1>1, <2>1, <2>2 DEF FormsInv, PickedIsKept
  <2> QED
    BY <1>1, <1>2, <1>4, <2>3, <2>4, <2>5 DEF FormsInv
<1>8. CASE PhotosRead(batch)
  <2>1. /\ <<batch, "photo">> \in reading /\ reading' = reading \ {<<batch, "photo">>}
        /\ photos' = photos \cup batch
        /\ UNCHANGED <<unpicked, evidence, removed, refused>>
        /\ late' = IF Submitting("submit") THEN late \cup batch ELSE late
    BY <1>8 DEF PhotosRead, Appended
  <2>2. /\ \A g : BeingRead(g)' <=> BeingRead(g) /\ g \notin batch
        /\ \A r, s \in reading' : r # s => r[1] \cap s[1] = {}
        /\ \A f \in batch : f \notin unpicked /\ f # evidence /\ BeingRead(f)
    BY <2>1, ReadingEnds DEF FormsInv
  <2>3. OnePlace'
    BY <2>1, <2>2 DEF FormsInv, OnePlace
  <2>4. ASSUME NEW i \in Running PROVE CarriesRight(task[i])'
    <3>1. CarriesRight(task[i])
      BY <1>4
    <3>2. task[i].step = "send" /\ task[i].kind = "submit" => batch \subseteq late'
      BY <2>1 DEF Submitting
    <3>3. task[i].step = "send" => batch \cap task[i].carries = {}
      BY <2>2, <3>1 DEF CarriesRight
    <3> QED
      BY <1>1, <1>4, <2>1, <2>2, <3>1, <3>2, <3>3 DEF CarriesRight
  <2>5. PickedIsKept'
    BY <1>1, <2>1, <2>2 DEF FormsInv, PickedIsKept
  <2> QED
    BY <1>1, <1>2, <1>4, <2>3, <2>4, <2>5 DEF FormsInv
<1>9. CASE \E f \in Files : batch = {f} /\ EvidenceRead(f)
  <2>1. PICK f \in Files :
          /\ batch = {f}
          /\ <<batch, "evidence">> \in reading /\ reading' = reading \ {<<batch, "evidence">>}
          /\ evidence' = f /\ removed' = removed \cup ({evidence} \ {Nothing})
          /\ UNCHANGED <<unpicked, photos, refused>>
          /\ late' = IF Submitting("resolve") THEN late \cup {f} ELSE late
    BY <1>9 DEF EvidenceRead
  <2>2. /\ \A g : BeingRead(g)' <=> BeingRead(g) /\ g # f
        /\ \A r, s \in reading' : r # s => r[1] \cap s[1] = {}
        /\ f \notin unpicked /\ f \notin photos /\ BeingRead(f)
    <3>1. /\ \A g : BeingRead(g)' <=> BeingRead(g) /\ g \notin batch
          /\ \A r, s \in reading' : r # s => r[1] \cap s[1] = {}
          /\ \A g \in batch : g \notin unpicked /\ g \notin photos /\ BeingRead(g)
      BY <2>1, ReadingEnds DEF FormsInv
    <3> QED
      BY <2>1, <3>1
  <2>3. OnePlace'
    BY <2>1, <2>2 DEF FormsInv, OnePlace
  <2>4. ASSUME NEW i \in Running PROVE CarriesRight(task[i])'
    <3>1. CarriesRight(task[i])
      BY <1>4
    <3>2. task[i].step = "send" /\ task[i].kind = "resolve" => f \in late'
      BY <2>1 DEF Submitting
    <3>3. task[i].step = "send" => f \notin task[i].carries
      BY <2>2, <3>1 DEF CarriesRight
    <3> QED
      BY <1>1, <1>4, <2>1, <2>2, <3>1, <3>2, <3>3 DEF CarriesRight
  <2>5. PickedIsKept'
    BY <1>1, <1>3, <2>1, <2>2 DEF FormsInv, PickedIsKept
  <2> QED
    BY <1>1, <1>2, <1>4, <2>3, <2>4, <2>5 DEF FormsInv
<1> QED
  BY <1>5, <1>6, <1>7, <1>8, <1>9 DEF FileSteps

LEMMA OthersKeepForms ==
  ASSUME WebTypeOK, FormsInv,
         (\E out \in SUBSET photos : RemovePhotos(out)) \/ (\E p \in People : Expire(p))
           \/ UNCHANGED webVars
  PROVE  FormsInv'
<1>1. FormsShrink /\ UNCHANGED <<task, accounts, cards, sent, refused>>
      /\ removed \subseteq removed' /\ (\A f \in photos : f \in photos' \/ f \in removed')
      /\ evidence' = evidence
  BY DEF FormsShrink, RemovePhotos, Expire, webVars, formVars, hireVars
<1>2. OnePlace'
  BY <1>1, OnePlaceStays DEF FormsInv
<1>3. ASSUME NEW i \in Running' PROVE CarriesRight(task[i])'
  <2>1. i \in Running /\ task'[i] = task[i]
    BY <1>1 DEF Running
  <2>2. CarriesRight(task[i])
    BY <2>1 DEF FormsInv
  <2>3. PICK s : s = task[i]
    OBVIOUS
  <2>4. CarriesRight(s)'
    BY <1>1, <2>2, <2>3, CarriesStays
  <2> QED
    BY <2>1, <2>3, <2>4
<1>4. PickedIsKept' /\ CardHasAccount'
  BY <1>1 DEF FormsInv, PickedIsKept, CardHasAccount, FormsShrink, BeingRead
<1> QED
  BY <1>2, <1>3, <1>4 DEF FormsInv

-----------------------------------------------------------------------------
(* The session *)

\* While no overlap is noted, a control is used when no handler is under way.
LEMMA UsedInTurn ==
  ASSUME AloneInv, NEW h \in Handlers, Begun(h), ~mixed' PROVE ~mixed /\ Running = {}
<1>1. PICK kind \in Kinds : UsedAlone(kind)
  BY DEF Begun
<1>2. \A i \in Running : task[i].kind \notin Uncovered => busy
  BY <1>1 DEF AloneInv, UsedAlone, Uncovered
<1> QED
  BY <1>1, <1>2 DEF UsedAlone

LEMMA UseKeepsAlone ==
  ASSUME WebTypeOK, AloneInv, SessionIsUsers, NEW h \in Handlers, Use(h)
  PROVE  AloneInv' /\ SessionIsUsers'
<1>1. Begun(h)
  BY UseIs
<1>2. SUFFICES ASSUME ~mixed'
               PROVE  AloneInv' /\ SessionIsUsers'
  BY DEF AloneInv, SessionIsUsers, RowsAreTheUsers, TokenIsUsers
<1>3. ~mixed /\ Running = {}
  BY <1>1, <1>2, UsedInTurn
<1>4. PICK t \in Tasks \cup {Idle} :
        /\ task' = [task EXCEPT ![h] = t]
        /\ t # Idle => Fresh(t)
        /\ UNCHANGED <<token, user, reports, cleaners>> \/ (t = Idle /\ SignedOut)
  BY <1>1 DEF Begun
<1>5. \A i \in Running' : i = h /\ task'[i] = t /\ t # Idle
  BY <1>3, <1>4, TaskMoves
<1>6. SessionIsUsers'
  BY <1>2, <1>3, <1>4 DEF SessionIsUsers, RowsAreTheUsers, TokenIsUsers, SignedOut
<1>7. (user = NoOne => reports = NoRows /\ cleaners = NoOne)'
  BY <1>3, <1>4 DEF AloneInv, SignedOut, NoRows
<1>8. ASSUME NEW i \in Running' PROVE ActsForUser(task[i])' /\ (task'[i].kind # "refresh" => busy')
  <2>1. t # Idle /\ task'[i] = t /\ Fresh(t)
    BY <1>4, <1>5, <1>8
  <2>2. UNCHANGED <<token, user>>
    BY <1>4, <2>1
  <2>3. user # NoOne /\ token # NoOne => token = user
    BY <1>3 DEF SessionIsUsers, TokenIsUsers
  <2> QED
    BY <1>2, <2>1, <2>2, <2>3 DEF Fresh, ActsForUser
<1> QED
  BY <1>5, <1>6, <1>7, <1>8 DEF AloneInv

LEMMA SettleKeepsAlone ==
  ASSUME WebTypeOK, AloneInv, SessionIsUsers, NEW h \in Handlers, Settle(h)
  PROVE  AloneInv' /\ SessionIsUsers'
<1>1. Settled(h)
  BY SettleIs
<1>2. mixed' = mixed /\ task[h] # Idle /\ h \in Running /\ task[h] \in Tasks
  BY <1>1 DEF Settled, Running, WebTypeOK
<1>3. SUFFICES ASSUME ~mixed
               PROVE  AloneInv' /\ SessionIsUsers'
  BY <1>2 DEF AloneInv, SessionIsUsers, RowsAreTheUsers, TokenIsUsers
<1>4. PICK t \in Tasks \cup {Idle} :
        /\ task' = [task EXCEPT ![h] = t]
        /\ t # Idle => t.kind = task[h].kind /\ t.step # "login"
  BY <1>1 DEF Settled
<1>a. task'[h] = t
  BY <1>4, TaskMoves
<1>5. \A i \in Running' : i = h /\ task'[i] = t /\ t # Idle
  <2>1. \A i \in Running' : i = h \/ i \in Running
    BY <1>4, TaskMoves
  <2>2. \A i \in Running : i = h
    BY <1>2, <1>3 DEF AloneInv
  <2> QED
    BY <1>a, <2>1, <2>2 DEF Running
<1>6. ActsForUser(task[h])
  BY <1>2, <1>3 DEF AloneInv
<1>7. t # Idle /\ t.kind # "refresh" => busy'
  <2>1. task[h].kind # "refresh" => busy
    BY <1>2, <1>3 DEF AloneInv
  <2> QED
    BY <1>1, <1>4, <2>1, TaskMoves DEF Settled
<1>n. NoOne \notin People
  BY WebAssumption DEF WebAssumption
<1>t. /\ task[h].step = "login" => task[h].who \in People
      /\ task[h].token \in People \cup {NoOne}
  BY <1>2 DEF WebTypeOK, Tasks
<1>o. ASSUME ~mixed PROVE /\ user # NoOne => token \in {user, NoOne}
                          /\ reports # NoRows => reports.of = user /\ reports.by = user
                          /\ cleaners \in {NoOne, user}
                          /\ user = NoOne => reports = NoRows /\ cleaners = NoOne
  BY <1>o DEF AloneInv, SessionIsUsers, RowsAreTheUsers, TokenIsUsers
<1>8. ASSUME SessionIsUsers', user' = NoOne => reports' = NoRows /\ cleaners' = NoOne,
             t # Idle => ActsForUser(t)'
      PROVE  AloneInv' /\ SessionIsUsers'
  <2>1. ASSUME NEW i \in Running' PROVE ActsForUser(task[i])' /\ (task'[i].kind # "refresh" => busy')
    BY <1>5, <1>7, <1>8, <2>1 DEF ActsForUser
  <2> QED
    BY <1>5, <1>8, <2>1 DEF AloneInv
<1>9. CASE LoginAnswered(h)
  <2>1. /\ user = NoOne /\ user' = NoOne /\ UNCHANGED <<reports, cleaners>>
        /\ token' = task[h].who /\ token' \in People
        /\ t = Await(task[h], "me", NoOne, token')
    BY <1>6, <1>9, <1>a, <1>t DEF LoginAnswered, Awaits, ActsForUser, WebTypeOK
  <2>2. t # Idle => t.step = "me" /\ t.token = token'
    BY <1>2, <2>1 DEF Await, Tasks
  <2>3. SessionIsUsers'
    BY <1>2, <1>3, <1>o, <2>1 DEF SessionIsUsers, RowsAreTheUsers, TokenIsUsers
  <2>4. t # Idle => ActsForUser(t)'
    BY <2>1, <2>2 DEF ActsForUser
  <2> QED
    BY <1>3, <1>o, <1>8, <2>1, <2>3, <2>4
<1>10. CASE MeAnswered(h)
  <2>1. /\ user = NoOne /\ user' = task[h].token /\ token = task[h].token
        /\ UNCHANGED <<token, reports, cleaners>>
        /\ t = Await(task[h], "load", user', token)
    BY <1>6, <1>10, <1>a DEF MeAnswered, Awaits, ActsForUser, WebTypeOK
  <2>2. t # Idle => t.step = "load" /\ t.who = user' /\ t.token = token /\ token # NoOne
    BY <1>2, <2>1 DEF Await, Tasks
  <2>3. SessionIsUsers'
    BY <1>2, <1>3, <1>o, <2>1 DEF SessionIsUsers, RowsAreTheUsers, TokenIsUsers
  <2>4. t # Idle => ActsForUser(t)'
    BY <2>1, <2>2 DEF ActsForUser
  <2> QED
    BY <1>3, <1>o, <1>8, <2>1, <2>3, <2>4
<1>11. CASE \E b \in BOOLEAN : LoadAnswered(h, b)
  <2>1. /\ task[h].step = "load" /\ UNCHANGED <<token, user>>
        /\ reports' = [of |-> task[h].who, by |-> task[h].token]
        /\ cleaners' \in {task[h].token, NoOne}
        /\ t = Idle \/ t = [task[h] EXCEPT !.step = "panel"]
    BY <1>11, <1>a DEF LoadAnswered, Awaits, WebTypeOK
  <2>2. user # NoOne /\ task[h].who = user /\ task[h].token = user
    BY <1>6, <2>1 DEF ActsForUser
  <2>3. t # Idle => t.step = "panel" /\ t.who = user /\ t.token = user
    BY <1>2, <2>1, <2>2 DEF Tasks
  <2>4. SessionIsUsers'
    BY <1>2, <1>3, <1>o, <2>1, <2>2 DEF SessionIsUsers, RowsAreTheUsers, TokenIsUsers
  <2>5. t # Idle => ActsForUser(t)'
    BY <2>1, <2>2, <2>3 DEF ActsForUser
  <2> QED
    BY <1>8, <2>1, <2>2, <2>4, <2>5
<1>12. CASE SendAnswered(h) \/ HireAnswered(h)
  <2>1. PICK s \in {"load", "card"} : t = Await(task[h], s, task[h].who, token)
    <3>1. CASE SendAnswered(h)
      BY <3>1, <1>a DEF SendAnswered, WebTypeOK
    <3>2. CASE HireAnswered(h)
      BY <3>2, <1>a DEF HireAnswered, HireOrder, WebTypeOK
    <3> QED
      BY <1>12, <3>1, <3>2
  <2>2. /\ task[h].step \notin {"login", "me"} /\ UNCHANGED <<token, user, reports, cleaners>>
    BY <1>12 DEF SendAnswered, HireAnswered, Awaits
  <2>3. user # NoOne /\ task[h].who = user
    BY <1>6, <2>2 DEF ActsForUser
  <2>4. t # Idle => t.step = s /\ t.who = user /\ t.token = token /\ token # NoOne
    BY <1>2, <2>1, <2>3 DEF Await, Tasks
  <2>5. SessionIsUsers'
    BY <1>2, <1>3, <1>o, <2>2 DEF SessionIsUsers, RowsAreTheUsers, TokenIsUsers
  <2>6. t # Idle => ActsForUser(t)'
    BY <1>3, <1>o, <2>2, <2>3, <2>4 DEF ActsForUser
  <2> QED
    BY <1>3, <1>o, <1>8, <2>2, <2>3, <2>5, <2>6
<1>13. CASE PanelSettled(h) \/ Failed(h) \/ Refused(h)
  <2>1. t = Idle /\ UNCHANGED <<user, reports, cleaners>> /\ token' \in {token, NoOne}
    BY <1>13, <1>a DEF PanelSettled, Failed, Refused, WebTypeOK
  <2>2. SessionIsUsers'
    BY <1>2, <1>3, <1>o, <2>1 DEF SessionIsUsers, RowsAreTheUsers, TokenIsUsers
  <2> QED
    BY <1>3, <1>o, <1>8, <2>1, <2>2
<1>14. CASE \E b \in BOOLEAN : LogoutSettled(h, b)
  <2>1. t = Idle /\ user' = NoOne /\ reports' = NoRows /\ cleaners' = NoOne /\ token' = NoOne
    BY <1>14, <1>a DEF LogoutSettled, Cleared, WebTypeOK
  <2>2. SessionIsUsers'
    BY <2>1 DEF SessionIsUsers, RowsAreTheUsers, TokenIsUsers
  <2> QED
    BY <1>8, <2>1, <2>2
<1> QED
  BY <1>9, <1>10, <1>11, <1>12, <1>13, <1>14 DEF Settle

LEMMA OthersKeepAlone ==
  ASSUME AloneInv, SessionIsUsers,
         \/ \E batch \in SUBSET Files : FileSteps(batch)
         \/ \E out \in SUBSET photos : RemovePhotos(out)
         \/ \E p \in People : Expire(p)
         \/ UNCHANGED webVars
  PROVE  AloneInv' /\ SessionIsUsers'
<1>1. UNCHANGED <<token, user, reports, cleaners, busy, task, mixed>>
  BY DEF FileSteps, PickFiles, RefuseFiles, ReadFails, PhotosRead, EvidenceRead, RemovePhotos,
     Expire, webVars, sessionVars
<1>2. Running' = Running
  BY <1>1 DEF Running
<1> QED
  BY <1>1, <1>2 DEF AloneInv, SessionIsUsers, RowsAreTheUsers, TokenIsUsers, ActsForUser

-----------------------------------------------------------------------------
(* What has been sent *)

LEMMA UseKeepsUnsent ==
  ASSUME WebTypeOK, AloneInv, UnsentInv, NEW h \in Handlers, Use(h) PROVE UnsentInv'
<1>1. Begun(h)
  BY UseIs
<1>2. SUFFICES ASSUME ~mixed' PROVE UnsentInv'
  BY DEF UnsentInv
<1>3. ~mixed /\ Running = {}
  BY <1>1, <1>2, UsedInTurn
<1>4. PICK t \in Tasks \cup {Idle} : task' = [task EXCEPT ![h] = t] /\ (t # Idle => Fresh(t))
  BY <1>1 DEF Begun
<1>5. \A i \in Running' : i = h /\ task'[i] = t /\ t # Idle
  BY <1>3, <1>4, TaskMoves
<1>6. UNCHANGED formVars
  BY <1>1 DEF Begun
<1>7. \A f \in Files : BeingRead(f)' = BeingRead(f)
  BY <1>6 DEF BeingRead, formVars
<1>8. ASSUME NEW i \in Running', task'[i].step = "send", NEW f \in task'[i].carries PROVE sent'[f] = 0
  <2>1. Fresh(t) /\ t.step = "send" /\ f \in t.carries
    BY <1>4, <1>5, <1>8
  <2>2. f \in photos \cup {evidence} /\ (f = evidence => f \in Files \/ f \in photos)
    BY <2>1 DEF Fresh, WebTypeOK
  <2>3. f \in Files /\ f \in photos \cup {evidence}
    BY <2>2 DEF WebTypeOK
  <2> QED
    BY <1>3, <1>6, <2>3 DEF UnsentInv, formVars
<1> QED
  BY <1>3, <1>6, <1>7, <1>8 DEF UnsentInv, formVars

LEMMA SettleKeepsUnsent ==
  ASSUME WebTypeOK, FormsInv, AloneInv, UnsentInv, NEW h \in Handlers, Settle(h)
  PROVE  UnsentInv'
<1>1. Settled(h)
  BY SettleIs
<1>2. mixed' = mixed /\ task[h] # Idle /\ h \in Running /\ task[h] \in Tasks
  BY <1>1 DEF Settled, Running, WebTypeOK
<1>3. SUFFICES ASSUME ~mixed PROVE UnsentInv'
  BY <1>2 DEF UnsentInv
<1>4. PICK t \in Tasks \cup {Idle} :
        task' = [task EXCEPT ![h] = t] /\ (t # Idle => t.step # "send")
  BY <1>1 DEF Settled
<1>5. \A i \in Running' : task'[i].step # "send"
  <2>1. \A i \in Running' : i = h \/ i \in Running
    BY <1>4, TaskMoves
  <2>2. \A i \in Running : i = h
    BY <1>2, <1>3 DEF AloneInv
  <2> QED
    BY <1>4, <2>1, <2>2, TaskMoves DEF Running
<1>6. CASE SendAnswered(h)
  <2>1. task[h].step = "send" /\ CarriesRight(task[h])
    BY <1>2, <1>6 DEF SendAnswered, Awaits, FormsInv
  <2>2. \A f \in Files : sent'[f] = sent[f] + (IF f \in task[h].carries THEN 1 ELSE 0)
    BY <1>6 DEF SendAnswered
  <2>3. \A f \in Files : sent[f] \in Nat /\ sent[f] <= 1 /\ (f \in task[h].carries => sent[f] = 0)
    BY <1>2, <1>3, <2>1 DEF UnsentInv, WebTypeOK
  <2>4. \A f \in Files : sent'[f] <= 1
    BY <2>2, <2>3
  <2>5. /\ UNCHANGED <<unpicked, reading>> /\ \A f : BeingRead(f)' = BeingRead(f)
        /\ photos' = IF task[h].kind = "submit" THEN {} ELSE photos
        /\ evidence' = IF task[h].kind = "resolve" THEN Nothing ELSE evidence
    BY <1>6 DEF SendAnswered, BeingRead, PhotosAfterSubmit
  <2>6. Nothing \notin Files
    BY WebAssumption DEF WebAssumption
  <2>7. ASSUME NEW f \in Files, f \in unpicked' \cup photos' \cup {evidence'} \/ BeingRead(f)'
        PROVE  sent'[f] = 0
    <3>1. f \in unpicked \cup photos \cup {evidence} \/ BeingRead(f)
      BY <2>5, <2>6, <2>7
    <3>2. sent[f] = 0
      BY <1>3, <3>1 DEF UnsentInv
    <3>3. f \notin task[h].carries
      BY <2>1, <2>5, <2>6, <2>7 DEF CarriesRight
    <3> QED
      BY <2>2, <3>2, <3>3
  <2> QED
    BY <1>5, <2>4, <2>7 DEF UnsentInv
<1>7. CASE UNCHANGED formVars
  <2>1. \A f \in Files : BeingRead(f)' = BeingRead(f)
    BY <1>7 DEF BeingRead, formVars
  <2> QED
    BY <1>3, <1>5, <1>7, <2>1 DEF UnsentInv, formVars
<1> QED
  BY <1>6, <1>7 DEF Settle, LoginAnswered, MeAnswered, LoadAnswered, PanelSettled,
     HireAnswered, Failed, Refused, LogoutSettled

LEMMA OthersKeepUnsent ==
  ASSUME WebTypeOK, UnsentInv,
         \/ \E batch \in SUBSET Files : FileSteps(batch)
         \/ \E out \in SUBSET photos : RemovePhotos(out)
         \/ \E p \in People : Expire(p)
         \/ UNCHANGED webVars
  PROVE  UnsentInv'
<1>1. UNCHANGED <<task, mixed, sent>>
  BY DEF FileSteps, PickFiles, RefuseFiles, ReadFails, PhotosRead, EvidenceRead, RemovePhotos,
     Expire, webVars, sessionVars, formVars
<1>2. Running' = Running
  BY <1>1 DEF Running
<1>3. ASSUME NEW f \in Files, f \in unpicked' \cup photos' \cup {evidence'} \/ BeingRead(f)'
      PROVE  f \in unpicked \cup photos \cup {evidence} \/ BeingRead(f)
  <2>1. CASE \E batch \in SUBSET Files : FileSteps(batch)
    <3>1. PICK batch \in SUBSET Files : FileSteps(batch)
      BY <2>1
    <3>2. CASE \E purpose \in {"photo", "evidence"} : PickFiles(batch, purpose)
      <4>0. PICK purpose \in {"photo", "evidence"} : PickFiles(batch, purpose)
        BY <3>2
      <4>1. reading' = reading \cup {<<batch, purpose>>}
        BY <4>0 DEF PickFiles
      <4>2. batch \subseteq unpicked /\ unpicked' \subseteq unpicked /\ UNCHANGED <<photos, evidence>>
        BY <3>2 DEF PickFiles, Choices
      <4> QED
        BY <1>3, <4>1, <4>2 DEF BeingRead
    <3>3. CASE \E purpose \in {"photo", "evidence"} :
                 RefuseFiles(batch, purpose) \/ ReadFails(batch, purpose)
      BY <1>3, <3>3 DEF RefuseFiles, ReadFails, BeingRead
    <3>4. CASE PhotosRead(batch)
      <4>1. PICK r \in reading : reading' = reading \ {r} /\ r[1] = batch
        BY <3>4 DEF PhotosRead
      <4>2. photos' = photos \cup batch /\ UNCHANGED <<unpicked, evidence>>
        BY <3>4 DEF PhotosRead, Appended
      <4> QED
        BY <1>3, <4>1, <4>2 DEF BeingRead
    <3>5. CASE \E g \in Files : batch = {g} /\ EvidenceRead(g)
      <4>1. PICK g \in Files, r \in reading :
              reading' = reading \ {r} /\ r[1] = {g} /\ evidence' = g /\ UNCHANGED <<unpicked, photos>>
        BY <3>5 DEF EvidenceRead
      <4> QED
        BY <1>3, <4>1 DEF BeingRead
    <3> QED
      BY <3>1, <3>2, <3>3, <3>4, <3>5 DEF FileSteps
  <2>2. CASE \E out \in SUBSET photos : RemovePhotos(out)
    BY <1>3, <2>2 DEF RemovePhotos, BeingRead
  <2>3. CASE (\E p \in People : Expire(p)) \/ UNCHANGED webVars
    BY <1>3, <2>3 DEF Expire, webVars, formVars, BeingRead
  <2> QED
    BY <2>1, <2>2, <2>3
<1> QED
  BY <1>1, <1>2, <1>3 DEF UnsentInv

-----------------------------------------------------------------------------
LEMMA InitPortal == WebInit => PortalInv
<1> SUFFICES ASSUME WebInit PROVE PortalInv
  OBVIOUS
<1>n. NoOne \notin People /\ Nothing \notin Files
  BY WebAssumption DEF WebAssumption
<1>1. PICK h \in Handlers :
        task = [i \in Handlers |-> IF i = h /\ token # NoOne
                  THEN [kind |-> "bootstrap", step |-> "me", who |-> NoOne, token |-> token,
                        carries |-> {}]
                  ELSE Idle]
  BY DEF WebInit
<1>2. \A i \in Running :
        /\ i = h /\ token # NoOne /\ task[i] \in Tasks
        /\ task[i].kind = "bootstrap" /\ task[i].step = "me" /\ task[i].token = token
  BY <1>1 DEF Running, Tasks, Kinds, Steps, WebInit
<1>3. WebTypeOK
  <2>1. task \in [Handlers -> Tasks \cup {Idle}]
    BY <1>1 DEF Tasks, Kinds, Steps, WebInit
  <2> QED
    BY <1>2, <2>1 DEF WebTypeOK, WebInit, NoRows
<1>4. FormsInv
  BY <1>n, <1>2 DEF FormsInv, OnePlace, BeingRead, CarriesRight, PickedIsKept, CardHasAccount, WebInit
<1>5. AloneInv
  BY <1>2 DEF AloneInv, ActsForUser, WebInit
<1>6. SessionIsUsers
  BY DEF SessionIsUsers, RowsAreTheUsers, TokenIsUsers, WebInit
<1>7. UnsentInv
  BY <1>2 DEF UnsentInv, WebInit
<1> QED
  BY <1>3, <1>4, <1>5, <1>6, <1>7 DEF PortalInv

LEMMA NextPortal == PortalInv /\ [WebNext]_webVars => PortalInv'
<1> SUFFICES ASSUME PortalInv, [WebNext]_webVars PROVE PortalInv'
  OBVIOUS
<1> USE DEF PortalInv
<1>1. CASE \E h \in Handlers : Use(h)
  BY <1>1, UseTypes, UseKeepsForms, UseKeepsAlone, UseKeepsUnsent
<1>2. CASE \E h \in Handlers : Settle(h)
  BY <1>2, SettleTypes, SettleKeepsForms, SettleKeepsAlone, SettleKeepsUnsent
<1>3. CASE \E batch \in SUBSET Files : FileSteps(batch)
  BY <1>3, FileTypes, FileKeepsForms, OthersKeepAlone, OthersKeepUnsent
<1>4. CASE (\E out \in SUBSET photos : RemovePhotos(out)) \/ (\E p \in People : Expire(p))
             \/ UNCHANGED webVars
  BY <1>4, OtherTypes, OthersKeepForms, OthersKeepAlone, OthersKeepUnsent
<1>5. ASSUME NEW out \in {photos} \cup {{f} : f \in photos} PROVE out \in SUBSET photos
  BY <1>5
<1>6. ASSUME NEW f \in Files, EvidenceRead(f) PROVE \E batch \in SUBSET Files : FileSteps(batch)
  <2>1. {f} \in SUBSET Files /\ FileSteps({f})
    BY <1>6 DEF FileSteps
  <2> QED
    BY <2>1
<1>7. CASE \E batch \in SUBSET Files :
             \/ PhotosRead(batch)
             \/ \E purpose \in {"photo", "evidence"} :
                  PickFiles(batch, purpose) \/ RefuseFiles(batch, purpose) \/ ReadFails(batch, purpose)
  BY <1>3, <1>7 DEF FileSteps
<1> QED
  BY <1>1, <1>2, <1>3, <1>4, <1>5, <1>6, <1>7 DEF WebNext

LEMMA PortalHolds == WebSpec => []PortalInv
BY InitPortal, NextPortal, PTL DEF WebSpec

\* Whoever shares the browser and however answers cross: unless a handler that the flag
\* does not cover has overlapped another, the rows, the roster and the stored token are
\* those of the user who is signed in (App.jsx: loadPortalData, handleLogout).
THEOREM ScreenIsTheUsers == WebSpec => []SessionIsUsers
<1>1. PortalInv => SessionIsUsers
  BY DEF PortalInv
<1> QED
  BY <1>1, PortalHolds, PTL

\* Whatever is picked, read, removed and sent meanwhile: no photograph is carried by two
\* accepted requests, none is lost but those of a choice the page refused aloud and those
\* that came during a request, and no roster card is without its account (App.jsx:
\* processSelectedPhotos, handleResolutionEvidenceSelect, handleSubmitReport,
\* handleResolve, handleProvisionStaff).
THEOREM FormsAreKept == WebSpec => []InputIsKept
<1>1. PortalInv => InputIsKept
  BY DEF PortalInv, InputIsKept, SentOnce, UnsentInv, FormsInv
<1> QED
  BY <1>1, PortalHolds, PTL
=============================================================================

----------------------------- MODULE AccountsV1 -----------------------------
(***************************************************************************)
(* Accounts and v1 sessions of one tenant: domain/users, domain/master and *)
(* domain/auth (auth.service.ts, google.service.ts).  A user is named by   *)
(* its idNumber, which never changes, and a master by its username, so the *)
(* unique indexes on those two are the function account itself; a Google   *)
(* account's idNumber "g:<sub>" is written as the sub.  A handler reads,   *)
(* decides and then writes: adjacent reads are one step, since what they   *)
(* refuse (a key in use, a master that exists) can only become more true.  *)
(* Every account is active: nothing in the API writes status.  A session   *)
(* is a signed pair of tokens that carries the sessionVersion it was       *)
(* signed with; expiry is left out.                                        *)
(***************************************************************************)
EXTENDS Integers, FiniteSets

CONSTANTS
  IdNumbers, Usernames, Subs, Emails,
  Requests,           \* requests the API can have in flight
  NoAccount, NoEmail, NoSub,
  MaxVersion          \* bound: logouts begin below this session version

ASSUME NamesAssumption ==
  /\ IdNumbers \cap Subs = {} /\ IdNumbers \cap Usernames = {} /\ Subs \cap Usernames = {}
  /\ NoEmail \notin Emails /\ NoSub \notin Subs
ASSUME MaxVersionAssumption == MaxVersion \in Nat

VARIABLES
  account,            \* the UserAccount and MasterUser rows
  version,            \* their sessionVersion
  tokens,             \* history: the sessions that reached a client
  home,               \* history: the account that last answered each Google subject
  op,                 \* what each request is doing, and what it read
  overlapped          \* history: two requests have been under way at once

vars == <<account, version, tokens, home, op, overlapped>>

-----------------------------------------------------------------------------
UserNames == IdNumbers \cup Subs
Principals == UserNames \cup Usernames
Roles == {"public", "cleaner", "supervisor", "master"}

\* Whoever has no password signs in with Google.
Row == {r \in [role : Roles, email : Emails \cup {NoEmail}, sub : Subs \cup {NoSub},
               password : BOOLEAN] : r.password \/ r.sub # NoSub}
ASSUME NoAccountAssumption == NoAccount \notin Row

Stored == {p \in Principals : account[p] # NoAccount}
Masters == Stored \cap Usernames
EmailInUse(e) == e # NoEmail /\ \E p \in Stored : account[p].email = e
SubInUse(s) == s # NoSub /\ \E p \in Stored : account[p].sub = s

\* ended: a logout has taken effect since the row was read for this session.
Session == [of : Principals, version : Nat, ended : BOOLEAN]

\* Where a request can stand.
Idle == [step |-> "idle"]
Inserting == [step : {"insert"}, name : Principals, row : Row]
Matching == [step : {"match"}, sub : Subs, email : Emails]
SigningIn == [step : {"link"}, session : Session, sub : Subs]
             \cup [step : {"answer"}, session : Session, sub : Subs \cup {NoSub}]
Leaving == [step : {"leave"}, of : Principals]
Op == {Idle} \cup Inserting \cup Matching \cup SigningIn \cup Leaving

Insert(name, row) == [step |-> "insert", name |-> name, row |-> row]
Match(s, e) == [step |-> "match", sub |-> s, email |-> e]
Leave(p) == [step |-> "leave", of |-> p]

\* The row of p has been read, with its session version.
Hold(step, p, s) ==
  [step |-> step, sub |-> s,
   session |-> [of |-> p, version |-> version[p], ended |-> FALSE]]

\* loadAuthContext: only a token older than the stored version is refused.
Accepted(t) == ~(t.version < version[t.of])

\* requireRoles and allowedRoles of provision.
AllowedRoles(role) ==
  CASE role = "master"     -> {"public", "supervisor", "cleaner"}
    [] role = "supervisor" -> {"cleaner"}
    [] OTHER               -> {}

Begin(q) == op[q] = Idle /\ overlapped' = (overlapped \/ \E r \in Requests : op[r] # Idle)
Goto(q, o) == op' = [op EXCEPT ![q] = o]

-----------------------------------------------------------------------------
Init ==
  /\ account = [p \in Principals |-> NoAccount]
  /\ version = [p \in Principals |-> 0]
  /\ tokens = {}
  /\ home = [s \in Subs |-> NoAccount]
  /\ op = [q \in Requests |-> Idle]
  /\ overlapped = FALSE

\* registerPublic: the keys are free.  An idNumber that looks like one Google
\* sign-in makes up is not among the inputs.
RegisterPublic(q, name, e) ==
  /\ Begin(q)
  /\ name \notin Stored /\ ~EmailInUse(e)
  /\ Goto(q, Insert(name, [role |-> "public", email |-> e, sub |-> NoSub, password |-> TRUE]))
  /\ UNCHANGED <<account, version, tokens, home>>

\* provision, by the holder of t; the e-mail is optional.
Provision(q, t, name, e, role) ==
  /\ Begin(q)
  /\ Accepted(t) /\ role \in AllowedRoles(account[t.of].role)
  /\ name \notin Stored /\ ~EmailInUse(e)
  /\ Goto(q, Insert(name, [role |-> role, email |-> e, sub |-> NoSub, password |-> TRUE]))
  /\ UNCHANGED <<account, version, tokens, home>>

\* Mutant: anyone may create a master.
MayCreateAlways == TRUE

\* masterService.create: the first master needs no token.
MayCreateMaster ==
  \/ Masters = {}
  \/ \E t \in tokens : Accepted(t) /\ account[t.of].role = "master"

CreateMaster(q, u) ==
  /\ Begin(q)
  /\ MayCreateMaster
  /\ u \notin Stored
  /\ Goto(q, Insert(u, [role |-> "master", email |-> NoEmail, sub |-> NoSub, password |-> TRUE]))
  /\ UNCHANGED <<account, version, tokens, home>>

\* create, where the unique indexes decide.  A Google account signs in at once.
CreateAccount(q) ==
  /\ op[q].step = "insert"
  /\ LET o == op[q] IN
       IF o.name \in Stored \/ EmailInUse(o.row.email) \/ SubInUse(o.row.sub)
         THEN Goto(q, Idle) /\ UNCHANGED account
         ELSE /\ account' = [account EXCEPT ![o.name] = o.row]
              /\ Goto(q, IF o.row.sub = NoSub THEN Idle ELSE Hold("answer", o.name, o.row.sub))
  /\ UNCHANGED <<version, tokens, home, overlapped>>

\* loginUser and loginMaster: the row is read and its password verified.
LoginPassword(q, p) ==
  /\ Begin(q)
  /\ p \in Stored /\ account[p].password
  /\ Goto(q, Hold("answer", p, NoSub))
  /\ UNCHANGED <<account, version, tokens, home>>

\* resolveOrLink, by the subject of a verified Google token.
SignInGoogle(q, s, e) ==
  /\ Begin(q)
  /\ IF SubInUse(s)
       THEN \E p \in Stored : account[p].sub = s /\ Goto(q, Hold("answer", p, s))
       ELSE Goto(q, Match(s, e))
  /\ UNCHANGED <<account, version, tokens, home>>

\* Mutant: an account linked to another subject is linked again.
NeverConflicts(s, p) == FALSE

Conflicts(s, p) == account[p].sub \notin {NoSub, s}

\* resolveOrLink, by its e-mail; an unknown one gets an account of its own.
MatchEmail(q) ==
  /\ op[q].step = "match"
  /\ LET s == op[q].sub  e == op[q].email IN
       \/ \E p \in Stored : account[p].email = e
                            /\ Goto(q, IF Conflicts(s, p) THEN Idle ELSE Hold("link", p, s))
       \/ /\ ~EmailInUse(e)
          /\ Goto(q, Insert(s, [role |-> "public", email |-> e, sub |-> s, password |-> FALSE]))
  /\ UNCHANGED <<account, version, tokens, home, overlapped>>

\* linkGoogle names only the account; the index refuses a subject held elsewhere.
LinkGoogle(q) ==
  /\ op[q].step = "link"
  /\ LET s == op[q].sub  p == op[q].session.of IN
       IF \E r \in Stored \ {p} : account[r].sub = s
         THEN Goto(q, Idle) /\ UNCHANGED account
         ELSE account' = [account EXCEPT ![p].sub = s] /\ Goto(q, [op[q] EXCEPT !.step = "answer"])
  /\ UNCHANGED <<version, tokens, home, overlapped>>

\* refresh: the checked token's account is signed in again.
Refresh(q, t) ==
  /\ Begin(q)
  /\ Accepted(t)
  /\ Goto(q, Hold("answer", t.of, NoSub))
  /\ UNCHANGED <<account, version, tokens, home>>

\* Mutant: the answer is signed with the version the row has by then.
SignedLate(q) == [op[q].session EXCEPT !.version = version[op[q].session.of]]

\* The envelope is signed with the version that was read at the start.
Signed(q) == op[q].session

\* recordLogin and the answer.
Answer(q) ==
  /\ op[q].step = "answer"
  /\ tokens' = tokens \cup {Signed(q)}
  /\ home' = IF op[q].sub = NoSub THEN home ELSE [home EXCEPT ![op[q].sub] = op[q].session.of]
  /\ Goto(q, Idle)
  /\ UNCHANGED <<account, version, overlapped>>

\* logout: the token is checked, then the version is bumped.
Logout(q, t) ==
  /\ Begin(q)
  /\ Accepted(t) /\ version[t.of] < MaxVersion
  /\ Goto(q, Leave(t.of))
  /\ UNCHANGED <<account, version, tokens, home>>

End(t, p) == IF t.of = p THEN [t EXCEPT !.ended = TRUE] ELSE t

BumpSessionVersion(p) == version' = [version EXCEPT ![p] = @ + 1]

FinishLogout(q) ==
  /\ op[q].step = "leave"
  /\ LET p == op[q].of IN
       /\ BumpSessionVersion(p)
       /\ tokens' = {End(t, p) : t \in tokens}
       /\ op' = [r \in Requests |->
                   IF r = q THEN Idle
                   ELSE IF op[r].step \in {"link", "answer"}
                          THEN [op[r] EXCEPT !.session = End(@, p)] ELSE op[r]]
  /\ UNCHANGED <<account, home, overlapped>>

\* A statement throws, or the process dies, between two statements.
Fail(q) ==
  /\ op[q] # Idle
  /\ Goto(q, Idle)
  /\ UNCHANGED <<account, version, tokens, home, overlapped>>

Step(q) ==
  \/ \E name \in IdNumbers, e \in Emails : RegisterPublic(q, name, e)
  \/ \E t \in tokens, name \in IdNumbers, e \in Emails \cup {NoEmail}, role \in Roles :
       Provision(q, t, name, e, role)
  \/ \E u \in Usernames : CreateMaster(q, u)
  \/ CreateAccount(q)
  \/ \E p \in Principals : LoginPassword(q, p)
  \/ \E s \in Subs, e \in Emails : SignInGoogle(q, s, e)
  \/ MatchEmail(q) \/ LinkGoogle(q) \/ Answer(q)
  \/ \E t \in tokens : Refresh(q, t) \/ Logout(q, t)
  \/ FinishLogout(q)
  \/ Fail(q)

Next == \E q \in Requests : Step(q)

Spec == Init /\ [][Next]_vars

-----------------------------------------------------------------------------
TypeOK ==
  /\ account \in [Principals -> Row \cup {NoAccount}]
  /\ version \in [Principals -> Nat]
  /\ tokens \subseteq Session
  /\ home \in [Subs -> Principals \cup {NoAccount}]
  /\ op \in [Requests -> Op]
  /\ overlapped \in BOOLEAN

\* A logout ends exactly the sessions of its account that were read before it:
\* those already with a client, and those whose sign-in or refresh was under way
\* and is answered later; every other session goes on being accepted.
LogoutEndsSessions == \A t \in tokens : t.ended <=> ~Accepted(t)

\* No two users are one Google subject or have one e-mail, however sign-ups,
\* links and provisions overlap: the reads before an insert cannot see to it.
OneAccountPerKey ==
  \A p, r \in Stored : p # r => /\ account[p].sub = account[r].sub => account[p].sub = NoSub
                                /\ account[p].email = account[r].email => account[p].email = NoEmail

\* Every supervisor and cleaner goes back to a master: no path of sign-up,
\* Google sign-in or provision makes staff in a tenant without one.
StaffDescendFromMaster ==
  (\E p \in Stored : account[p].role \in {"supervisor", "cleaner"}) => Masters # {}

\* While requests do not overlap, the account that answered a Google subject
\* stays that subject's: no later link takes it away (ADR 0008, step 2).
HomeHoldsSub ==
  ~overlapped => \A s \in Subs : home[s] # NoAccount => account[home[s]].sub = s

\* Type correctness and whose an account is.
AccountsInv == TypeOK /\ OneAccountPerKey /\ StaffDescendFromMaster /\ HomeHoldsSub

\* While requests do not overlap, a master after the first is created only
\* when a master's session is accepted.
MastersInviteMasters ==
  [][Masters' # Masters /\ ~overlapped' =>
       Masters = {} \/ \E t \in tokens : Accepted(t) /\ account[t.of].role = "master"]_vars
=============================================================================

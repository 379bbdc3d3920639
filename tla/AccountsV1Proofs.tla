-------------------------- MODULE AccountsV1Proofs --------------------------
(***************************************************************************)
(* For any numbers of names, e-mails, Google subjects and requests: a      *)
(* logout ends exactly the sessions read before it; no two accounts have   *)
(* one key, staff descend from a master, a Google subject keeps its        *)
(* account, and only masters invite masters.                               *)
(***************************************************************************)
EXTENDS AccountsV1, TLAPS

\* A session compares with the stored version as its history says.
MarkedAt(v, t) == t.version <= v[t.of] /\ (t.ended <=> t.version < v[t.of])
Marked(t) == MarkedAt(version, t)

Holds(q) == op[q].step \in {"link", "answer"}

\* LogoutEndsSessions alone is not inductive: a sign-in that a logout overtakes
\* must be marked before it is answered, and a link needs an account to write to.
HeldMarked ==
  \A q \in Requests : Holds(q) => Marked(op[q].session) /\ op[q].session.of \in Stored

TokensMarked == \A t \in tokens : Marked(t) /\ t.of \in Stored

IInv ==
  /\ TypeOK
  /\ TokensMarked
  /\ HeldMarked

-----------------------------------------------------------------------------
\* A request is idle or has the record its step calls for.
LEMMA StepShapes ==
  ASSUME NEW o \in Op
  PROVE  /\ o.step = "insert" => o \in Inserting
         /\ o.step = "match" => o \in Matching
         /\ o.step \in {"link", "answer"} => o \in SigningIn
         /\ o.step = "leave" => o \in Leaving
BY DEF Op, Idle, Inserting, Matching, SigningIn, Leaving

\* What a read of p's row holds is a session that no logout has overtaken.
LEMMA HoldShape ==
  ASSUME TypeOK, NEW p \in Principals, NEW s \in Subs \cup {NoSub},
         NEW step \in {"link", "answer"}, step = "link" => s \in Subs
  PROVE  /\ Hold(step, p, s) \in Op
         /\ Marked(Hold(step, p, s).session)
         /\ Hold(step, p, s).session.of = p
<1>1. version[p] \in Nat
  BY DEF TypeOK
<1>2. [of |-> p, version |-> version[p], ended |-> FALSE] \in Session
  BY <1>1 DEF Session
<1> QED
  BY <1>1, <1>2 DEF Hold, SigningIn, Op, Marked, MarkedAt

\* A row that was read has the fields of a row.
LEMMA StoredRows ==
  ASSUME TypeOK, NEW p \in Stored
  PROVE  p \in Principals /\ account[p] \in Row
BY DEF TypeOK, Stored

-----------------------------------------------------------------------------
LEMMA InitIInv == Init => IInv
<1> SUFFICES ASSUME Init PROVE IInv
  OBVIOUS
<1>1. TypeOK
  BY DEF Init, TypeOK, Session, Op
<1>2. HeldMarked
  BY DEF Init, HeldMarked, Holds, Idle
<1> QED
  BY <1>1, <1>2 DEF Init, IInv, TokensMarked

\* Requests that neither hold a session afterwards nor touch the versions or the
\* sessions of clients keep what is marked.
LEMMA StillMarked ==
  ASSUME IInv, NEW q \in Requests,
         NEW o \in Op,
         o.step \in {"link", "answer"} => Marked(o.session) /\ o.session.of \in Stored',
         op' = [op EXCEPT ![q] = o], UNCHANGED version, Stored \subseteq Stored'
  PROVE  /\ op' \in [Requests -> Op]
         /\ HeldMarked'
<1>1. op \in [Requests -> Op]
  BY DEF IInv, TypeOK
<1>2. ASSUME NEW r \in Requests, Holds(r)' PROVE (Marked(op[r].session) /\ op[r].session.of \in Stored)'
  <2>1. CASE r = q
    BY <1>1, <2>1, <1>2 DEF Holds, Marked, MarkedAt
  <2>2. CASE r # q
    BY <1>1, <2>2, <1>2 DEF Holds, Marked, MarkedAt, IInv, HeldMarked
  <2> QED
    BY <2>1, <2>2
<1> QED
  BY <1>1, <1>2 DEF HeldMarked

\* An insert that is decided on carries a row.
LEMMA InsertShape ==
  ASSUME NEW name \in Principals, NEW role \in Roles, NEW e \in Emails \cup {NoEmail},
         NEW s \in Subs \cup {NoSub}, NEW password \in BOOLEAN, password \/ s # NoSub
  PROVE  LET o == Insert(name, [role |-> role, email |-> e, sub |-> s, password |-> password])
         IN  o \in Op /\ o.step = "insert"
<1>1. [role |-> role, email |-> e, sub |-> s, password |-> password] \in Row
  BY DEF Row
<1> QED
  BY <1>1 DEF Insert, Op, Inserting

\* The steps that only move one request.
LEMMA OnlyMoves ==
  ASSUME IInv, NEW q \in Requests, NEW o \in Op,
         o.step \in {"link", "answer"} => Marked(o.session) /\ o.session.of \in Stored, Goto(q, o),
         UNCHANGED <<account, version, tokens, home>>, overlapped' \in BOOLEAN
  PROVE  IInv'
<1>1. op' \in [Requests -> Op] /\ HeldMarked'
  BY StillMarked DEF Goto, Stored
<1> QED
  BY <1>1 DEF IInv, TypeOK, TokensMarked, Marked, MarkedAt, Stored

LEMMA BeginTypes ==
  ASSUME IInv, NEW q, Begin(q)
  PROVE  overlapped' \in BOOLEAN
BY DEF Begin, IInv, TypeOK

LEMMA IdleShape == Idle \in Op /\ Idle.step = "idle"
BY DEF Idle, Op

\* The bump that ends a session also puts the stored version above it.
LEMMA EndMarks ==
  ASSUME NEW p \in Principals, NEW v \in [Principals -> Nat], NEW t \in Session,
         MarkedAt(v, t)
  PROVE  LET w == [v EXCEPT ![p] = @ + 1]  u == End(t, p) IN
         u \in Session /\ u.of = t.of /\ MarkedAt(w, u)
<1>1. t.of \in Principals /\ t.version \in Nat /\ v[t.of] \in Nat
  BY DEF Session
<1>2. CASE t.of = p
  <2>1. End(t, p) = [of |-> p, version |-> t.version, ended |-> TRUE]
    BY <1>2 DEF End, Session
  <2> QED
    BY <1>1, <1>2, <2>1 DEF Session, MarkedAt
<1>3. CASE t.of # p
  BY <1>1, <1>3 DEF End, MarkedAt
<1> QED
  BY <1>2, <1>3

-----------------------------------------------------------------------------
\* Every step of a request preserves the invariant.
LEMMA StepIInv ==
  ASSUME IInv, NEW q \in Requests, Step(q)
  PROVE  IInv'
<1> USE DEF UserNames
<1>0. TypeOK /\ op[q] \in Op
  BY DEF IInv, TypeOK
<1>1. ASSUME NEW name \in IdNumbers, NEW e \in Emails, RegisterPublic(q, name, e) PROVE IInv'
  <2> DEFINE o == Insert(name, [role |-> "public", email |-> e, sub |-> NoSub, password |-> TRUE])
  <2>1. o \in Op /\ o.step = "insert"
    BY InsertShape DEF Principals, Roles
  <2>2. Goto(q, o) /\ UNCHANGED <<account, version, tokens, home>> /\ overlapped' \in BOOLEAN
    BY <1>1, BeginTypes DEF RegisterPublic
  <2> HIDE DEF o
  <2> QED
    BY <2>1, <2>2, OnlyMoves
<1>2. ASSUME NEW t \in tokens, NEW name \in IdNumbers, NEW e \in Emails \cup {NoEmail},
             NEW role \in Roles, Provision(q, t, name, e, role)
      PROVE  IInv'
  <2> DEFINE o == Insert(name, [role |-> role, email |-> e, sub |-> NoSub, password |-> TRUE])
  <2>1. o \in Op /\ o.step = "insert"
    BY InsertShape DEF Principals
  <2>2. Goto(q, o) /\ UNCHANGED <<account, version, tokens, home>> /\ overlapped' \in BOOLEAN
    BY <1>2, BeginTypes DEF Provision
  <2> HIDE DEF o
  <2> QED
    BY <2>1, <2>2, OnlyMoves
<1>3. ASSUME NEW u \in Usernames, CreateMaster(q, u) PROVE IInv'
  <2> DEFINE o == Insert(u, [role |-> "master", email |-> NoEmail, sub |-> NoSub, password |-> TRUE])
  <2>1. o \in Op /\ o.step = "insert"
    BY InsertShape DEF Principals, Roles
  <2>2. Goto(q, o) /\ UNCHANGED <<account, version, tokens, home>> /\ overlapped' \in BOOLEAN
    BY <1>3, BeginTypes DEF CreateMaster
  <2> HIDE DEF o
  <2> QED
    BY <2>1, <2>2, OnlyMoves
<1>4. CASE CreateAccount(q)
  <2>1. op[q] \in Inserting
    BY <1>0, <1>4, StepShapes DEF CreateAccount
  <2> DEFINE name == op[q].name
             row == op[q].row
  <2>2. name \in Principals /\ row \in Row /\ row.sub \in Subs \cup {NoSub}
    BY <2>1 DEF Inserting, Row
  <2>3. UNCHANGED <<version, tokens, home, overlapped>>
    BY <1>4 DEF CreateAccount
  <2>4. account' \in [Principals -> Row \cup {NoAccount}]
    BY <1>0, <1>4, <2>2 DEF CreateAccount, TypeOK
  <2>a. Stored \subseteq Stored'
    BY <1>0, <1>4, <2>2, NoAccountAssumption DEF CreateAccount, Stored, TypeOK
  <2>5. PICK o \in Op :
          /\ Goto(q, o)
          /\ o.step \in {"link", "answer"} => Marked(o.session) /\ o.session.of \in Stored'
    <3>1. CASE Goto(q, Idle)
      BY <3>1, IdleShape
    <3>2. CASE /\ Goto(q, Hold("answer", name, row.sub))
               /\ account' = [account EXCEPT ![name] = row]
      <4>1. name \in Stored'
        BY <1>0, <2>2, <3>2, NoAccountAssumption DEF Stored, TypeOK
      <4>2. /\ Hold("answer", name, row.sub) \in Op
            /\ Marked(Hold("answer", name, row.sub).session)
            /\ Hold("answer", name, row.sub).session.of = name
        BY <1>0, <2>2, HoldShape
      <4> QED
        BY <3>2, <4>1, <4>2
    <3> QED
      BY <3>1, <3>2, <1>4 DEF CreateAccount
  <2>6. op' \in [Requests -> Op] /\ HeldMarked'
    BY <2>a, <2>3, <2>5, StillMarked DEF Goto
  <2> QED
    BY <2>a, <2>3, <2>4, <2>6 DEF IInv, TypeOK, TokensMarked, Marked, MarkedAt
<1>5. ASSUME NEW p \in Principals, LoginPassword(q, p) PROVE IInv'
  <2>1. /\ Hold("answer", p, NoSub) \in Op
        /\ Marked(Hold("answer", p, NoSub).session)
        /\ Hold("answer", p, NoSub).session.of = p
    BY <1>0, HoldShape
  <2>2. p \in Stored
    BY <1>5 DEF LoginPassword
  <2> QED
    BY <1>5, <2>1, <2>2, OnlyMoves, BeginTypes DEF LoginPassword
<1>6. ASSUME NEW s \in Subs, NEW e \in Emails, SignInGoogle(q, s, e) PROVE IInv'
  <2>1. overlapped' \in BOOLEAN /\ UNCHANGED <<account, version, tokens, home>>
    BY <1>6, BeginTypes DEF SignInGoogle
  <2>2. CASE Goto(q, Match(s, e))
    <3>1. Match(s, e) \in Op /\ Match(s, e).step = "match"
      BY DEF Match, Op, Matching
    <3> QED
      BY <2>1, <2>2, <3>1, OnlyMoves
  <2>3. ASSUME NEW p \in Stored, Goto(q, Hold("answer", p, s)) PROVE IInv'
    <3>1. /\ Hold("answer", p, s) \in Op
          /\ Marked(Hold("answer", p, s).session)
          /\ Hold("answer", p, s).session.of = p
      BY <1>0, HoldShape, StoredRows
    <3> QED
      BY <2>1, <2>3, <3>1, OnlyMoves
  <2> QED
    BY <1>6, <2>2, <2>3 DEF SignInGoogle
<1>7. CASE MatchEmail(q)
  <2>1. op[q] \in Matching
    BY <1>0, <1>7, StepShapes DEF MatchEmail
  <2> DEFINE s == op[q].sub
             e == op[q].email
  <2>2. s \in Subs /\ e \in Emails /\ s # NoSub
    BY <2>1, NamesAssumption DEF Matching
  <2>3. overlapped' \in BOOLEAN /\ UNCHANGED <<account, version, tokens, home>>
    BY <1>0, <1>7 DEF MatchEmail, TypeOK
  <2>4. CASE Goto(q, Idle)
    BY <2>3, <2>4, IdleShape, OnlyMoves
  <2>5. ASSUME NEW p \in Stored, Goto(q, Hold("link", p, s)) PROVE IInv'
    <3>1. /\ Hold("link", p, s) \in Op
          /\ Marked(Hold("link", p, s).session)
          /\ Hold("link", p, s).session.of = p
      BY <1>0, <2>2, HoldShape, StoredRows
    <3> QED
      BY <2>3, <2>5, <3>1, OnlyMoves
  <2> DEFINE new == Insert(s, [role |-> "public", email |-> e, sub |-> s, password |-> FALSE])
  <2>6. CASE Goto(q, new)
    <3>1. [role |-> "public", email |-> e, sub |-> s, password |-> FALSE] \in Row
      BY <2>2 DEF Row, Roles
    <3>2. new \in Op /\ new.step = "insert"
      BY <2>2, <3>1 DEF Principals, Insert, Op, Inserting
    <3> HIDE DEF new
    <3> QED
      BY <2>3, <2>6, <3>2, OnlyMoves
  <2> QED
    BY <1>7, <2>4, <2>5, <2>6 DEF MatchEmail
<1>8. CASE LinkGoogle(q)
  <2>1. op[q] \in SigningIn /\ Marked(op[q].session) /\ op[q].session.of \in Stored
    BY <1>0, <1>8, StepShapes DEF LinkGoogle, IInv, HeldMarked, Holds
  <2> DEFINE s == op[q].sub
             p == op[q].session.of
             o == [op[q] EXCEPT !.step = "answer"]
  <2>2. o \in SigningIn /\ o.session = op[q].session /\ s \in Subs
    BY <1>8, <2>1 DEF SigningIn, LinkGoogle
  <2>3. p \in Principals /\ account[p] \in Row
    BY <1>0, <2>1, StoredRows
  <2>4. UNCHANGED <<version, tokens, home, overlapped>>
    BY <1>8 DEF LinkGoogle
  <2>5. [account[p] EXCEPT !.sub = s] \in Row
    BY <2>2, <2>3, NamesAssumption DEF Row
  <2>6. account' \in [Principals -> Row \cup {NoAccount}] /\ Stored \subseteq Stored'
    <3>1. CASE UNCHANGED account
      BY <1>0, <3>1 DEF TypeOK, Stored
    <3>2. CASE account' = [account EXCEPT ![p].sub = s]
      <4>1. account' = [account EXCEPT ![p] = [account[p] EXCEPT !.sub = s]]
        BY <3>2
      <4> QED
        BY <1>0, <2>3, <2>5, <4>1, NoAccountAssumption DEF TypeOK, Stored
    <3> QED
      BY <1>8, <3>1, <3>2 DEF LinkGoogle
  <2>7. op' \in [Requests -> Op] /\ HeldMarked'
    <3>1. CASE Goto(q, Idle)
      BY <2>4, <2>6, <3>1, IdleShape, StillMarked DEF Goto
    <3>2. CASE Goto(q, o)
      <4>1. o \in Op /\ Marked(o.session) /\ o.session.of \in Stored'
        BY <2>1, <2>2, <2>6 DEF Op
      <4> QED
        BY <2>4, <2>6, <3>2, <4>1, StillMarked DEF Goto
    <3> QED
      BY <1>8, <3>1, <3>2 DEF LinkGoogle
  <2> QED
    BY <2>4, <2>6, <2>7 DEF IInv, TypeOK, TokensMarked, Marked, MarkedAt
<1>9. ASSUME NEW t \in tokens, Refresh(q, t) PROVE IInv'
  <2>1. t.of \in Principals /\ t.of \in Stored
    BY <1>0 DEF TypeOK, Session, IInv, TokensMarked
  <2>2. /\ Hold("answer", t.of, NoSub) \in Op
        /\ Marked(Hold("answer", t.of, NoSub).session)
        /\ Hold("answer", t.of, NoSub).session.of = t.of
    BY <1>0, <2>1, HoldShape
  <2> QED
    BY <1>9, <2>1, <2>2, OnlyMoves, BeginTypes DEF Refresh
<1>10. CASE Answer(q)
  <2>1. op[q] \in SigningIn /\ Marked(op[q].session) /\ op[q].session.of \in Stored
    BY <1>0, <1>10, StepShapes DEF Answer, IInv, HeldMarked, Holds
  <2>2. op[q].session \in Session /\ op[q].session.of \in Principals
    BY <2>1 DEF SigningIn, Session
  <2>3. UNCHANGED <<account, version, overlapped>> /\ tokens' = tokens \cup {op[q].session}
    BY <1>10 DEF Answer, Signed
  <2>4. op' \in [Requests -> Op] /\ HeldMarked'
    BY <1>10, <2>3, IdleShape, StillMarked DEF Answer, Goto, Stored
  <2>5. home' \in [Subs -> Principals \cup {NoAccount}]
    BY <1>0, <1>10, <2>2 DEF Answer, TypeOK
  <2>6. TokensMarked'
    BY <2>1, <2>3 DEF IInv, TokensMarked, Marked, MarkedAt, Stored
  <2> QED
    BY <2>2, <2>3, <2>4, <2>5, <2>6 DEF IInv, TypeOK
<1>11. ASSUME NEW t \in tokens, Logout(q, t) PROVE IInv'
  <2>1. t.of \in Principals
    BY <1>0 DEF TypeOK, Session
  <2>2. Leave(t.of) \in Op /\ Leave(t.of).step = "leave"
    BY <2>1 DEF Leave, Leaving, Op
  <2> QED
    BY <1>11, <2>2, OnlyMoves, BeginTypes DEF Logout
<1>12. CASE FinishLogout(q)
  <2> DEFINE p == op[q].of
  <2>1. p \in Principals
    BY <1>0, <1>12, StepShapes DEF FinishLogout, Leaving
  <2>2. /\ UNCHANGED <<account, home, overlapped>>
        /\ version' = [version EXCEPT ![p] = @ + 1]
        /\ tokens' = {End(t, p) : t \in tokens}
    BY <1>12 DEF FinishLogout, BumpSessionVersion
  <2>3. version' \in [Principals -> Nat]
    BY <1>0, <2>1, <2>2 DEF TypeOK
  <2>4. ASSUME NEW t \in Session, Marked(t)
        PROVE  /\ End(t, p) \in Session
               /\ MarkedAt(version', End(t, p))
               /\ End(t, p).of = t.of
    BY <1>0, <2>1, <2>2, <2>4, EndMarks DEF Marked, TypeOK
  <2>5. tokens' \subseteq Session /\ TokensMarked'
    <3>1. ASSUME NEW u \in tokens'
          PROVE  u \in Session /\ MarkedAt(version', u) /\ u.of \in Stored
      <4>1. PICK t \in tokens : u = End(t, p)
        BY <2>2
      <4>2. t \in Session /\ Marked(t) /\ t.of \in Stored
        BY <1>0 DEF TypeOK, IInv, TokensMarked
      <4> QED
        BY <2>4, <4>1, <4>2
    <3> QED
      BY <2>2, <3>1 DEF TokensMarked, Marked, Stored
  <2>6. ASSUME NEW r \in Requests
        PROVE  op'[r] \in Op /\ (Holds(r)' => (Marked(op[r].session) /\ op[r].session.of \in Stored)')
    <3>1. CASE r = q
      BY <1>12, <3>1, IdleShape DEF FinishLogout, Holds
    <3>2. CASE r # q /\ ~Holds(r)
      <4>1. op'[r] = op[r]
        BY <1>12, <3>2 DEF FinishLogout, Holds
      <4> QED
        BY <1>0, <3>2, <4>1 DEF TypeOK, Holds
    <3>3. CASE r # q /\ Holds(r)
      <4>1. op'[r] = [op[r] EXCEPT !.session = End(op[r].session, p)]
        BY <1>12, <3>3 DEF FinishLogout, Holds
      <4>2. op[r] \in SigningIn /\ Marked(op[r].session) /\ op[r].session.of \in Stored
        BY <1>0, <3>3, StepShapes DEF TypeOK, IInv, HeldMarked, Holds
      <4>3. op[r].session \in Session
        BY <4>2 DEF SigningIn
      <4>4. /\ End(op[r].session, p) \in Session
            /\ End(op[r].session, p).of = op[r].session.of
        BY <2>4, <4>2, <4>3
      <4>5. op'[r] \in SigningIn /\ op'[r].session = End(op[r].session, p)
        BY <4>1, <4>2, <4>4 DEF SigningIn
      <4>6. MarkedAt(version', op'[r].session)
        BY <2>1, <2>2, <1>0, <4>2, <4>3, <4>5, EndMarks DEF Marked, TypeOK
      <4> QED
        BY <2>2, <4>2, <4>4, <4>5, <4>6 DEF Op, Stored, Marked
    <3> QED
      BY <3>1, <3>2, <3>3
  <2>7. op' \in [Requests -> Op] /\ HeldMarked'
    BY <1>12, <2>6 DEF FinishLogout, HeldMarked
  <2> QED
    BY <1>0, <2>2, <2>3, <2>5, <2>7 DEF IInv, TypeOK
<1>13. CASE Fail(q)
  <2>1. Goto(q, Idle) /\ UNCHANGED <<account, version, tokens, home>> /\ overlapped' \in BOOLEAN
    BY <1>0, <1>13 DEF Fail, TypeOK
  <2> QED
    BY <2>1, IdleShape, OnlyMoves
<1> QED
  BY <1>1, <1>2, <1>3, <1>4, <1>5, <1>6, <1>7, <1>8, <1>9, <1>10, <1>11, <1>12, <1>13 DEF Step

\* The inductive invariant holds in every reachable state.
THEOREM Invariance == Spec => []IInv
<1>1. IInv /\ [Next]_vars => IInv'
  <2>1. ASSUME IInv, NEW q \in Requests, Step(q) PROVE IInv'
    BY <2>1, StepIInv
  <2>2. ASSUME IInv, UNCHANGED vars PROVE IInv'
    BY <2>2 DEF vars, IInv, TypeOK, TokensMarked, HeldMarked, Holds, Marked, MarkedAt, Stored
  <2> QED
    BY <2>1, <2>2 DEF Next
<1> QED
  BY InitIInv, <1>1, PTL DEF Spec

\* Type correctness of the accounts, the sessions and what each request holds.
THEOREM TypeCorrect == Spec => []TypeOK
<1>1. IInv => TypeOK
  BY DEF IInv
<1> QED
  BY Invariance, <1>1, PTL

\* auth.service.ts: a logout ends the sessions read before it, those answered
\* after it included, and no other session.
THEOREM LogoutEnds == Spec => []LogoutEndsSessions
<1>1. IInv => LogoutEndsSessions
  BY DEF IInv, TokensMarked, Marked, MarkedAt, LogoutEndsSessions, Accepted
<1> QED
  BY Invariance, <1>1, PTL

-----------------------------------------------------------------------------
(* Whose an account is *)

\* Masters are the accounts a username names, and staff are made by a master or
\* by staff, so also a staff row still to be inserted stands behind a master.
Staff == {"supervisor", "cleaner"}

StaffInv ==
  /\ \A p \in Stored : /\ account[p].role = "master" => p \in Usernames
                       /\ account[p].role \in Staff => Masters # {}
  /\ \A q \in Requests : op[q].step = "insert" =>
       /\ op[q].row.role = "master" => op[q].name \in Usernames
       /\ op[q].row.role \in Staff => Masters # {}

\* What a request alone in the system has read still holds when it writes: the
\* subject it matches or links answered for nobody yet, the account it links has
\* no other subject, the account it answers for has the subject, and whoever
\* creates a master may.
ReadHolds(o) ==
  /\ o.step = "match" => home[o.sub] = NoAccount
  /\ o.step = "link" => /\ home[o.sub] = NoAccount
                        /\ account[o.session.of].sub \in {NoSub, o.sub}
  /\ o.step = "answer" /\ o.sub # NoSub => account[o.session.of].sub = o.sub
  /\ o.step = "insert" /\ o.name \in Usernames => MayCreateMaster

HomesHeld ==
  \A s \in Subs : home[s] # NoAccount => home[s] \in Stored /\ account[home[s]].sub = s

AloneInv ==
  ~overlapped =>
    /\ \A q, r \in Requests : op[q] # Idle /\ op[r] # Idle => q = r
    /\ \A q \in Requests : ReadHolds(op[q])
    /\ HomesHeld

OwnInv == OneAccountPerKey /\ StaffInv /\ AloneInv

\* The states a stutter leaves behind.
LEMMA OwnInvStutters ==
  ASSUME OwnInv, UNCHANGED vars
  PROVE  OwnInv'
BY DEF vars, OwnInv, OneAccountPerKey, StaffInv, AloneInv, ReadHolds, HomesHeld, Stored, Masters,
       MayCreateMaster, Accepted

\* If requests still do not overlap after a step of q, the others are idle.
AloneAfter(q) == ~overlapped' => ~overlapped /\ \A r \in Requests \ {q} : op[r] = Idle

LEMMA BeginAlone ==
  ASSUME AloneInv, NEW q \in Requests, Begin(q)
  PROVE  AloneAfter(q)
BY DEF Begin, AloneAfter

LEMMA GoOnAlone ==
  ASSUME AloneInv, NEW q \in Requests, op[q] # Idle, UNCHANGED overlapped
  PROVE  AloneAfter(q)
BY DEF AloneInv, AloneAfter

\* Of requests that do not overlap only the read of the one that moves has to hold.
LEMMA AloneKeeps ==
  ASSUME AloneInv, NEW q \in Requests, NEW o, AloneAfter(q), op'[q] = o,
         \A r \in Requests \ {q} : op[r] = Idle => op'[r] = Idle,
         ~overlapped => ReadHolds(o)' /\ HomesHeld'
  PROVE  AloneInv'
<1> SUFFICES ASSUME ~overlapped'
             PROVE  /\ \A p, r \in Requests : op'[p] # Idle /\ op'[r] # Idle => p = r
                    /\ \A r \in Requests : ReadHolds(op[r])'
                    /\ HomesHeld'
  BY DEF AloneInv
<1>1. ~overlapped /\ \A r \in Requests \ {q} : op[r] = Idle
  BY DEF AloneAfter
<1>2. \A r \in Requests \ {q} : op'[r] = Idle
  BY <1>1
<1>3. ReadHolds(Idle)'
  BY DEF ReadHolds, Idle
<1>4. \A r \in Requests : ReadHolds(op[r])'
  <2> TAKE r \in Requests
  <2>1. CASE r = q
    BY <1>1, <2>1
  <2>2. CASE r # q
    BY <1>2, <1>3, <2>2
  <2> QED BY <2>1, <2>2
<1> QED BY <1>1, <1>2, <1>4

\* An insert names a master by a username, and a staff row has a master behind it.
Fitting(o) ==
  o.step = "insert" => /\ o.row.role = "master" => o.name \in Usernames
                       /\ o.row.role \in Staff => Masters # {}

LEMMA StaffKeeps ==
  ASSUME StaffInv, TypeOK, NEW q \in Requests, NEW o, op'[q] = o, Fitting(o)',
         \A r \in Requests \ {q} : op'[r].step = "insert" => op'[r] = op[r],
         Masters \subseteq Masters',
         \A p \in Stored' : \/ p \in Stored /\ account'[p].role = account[p].role
                            \/ /\ account'[p].role = "master" => p \in Usernames
                               /\ account'[p].role \in Staff => Masters # {}
  PROVE  StaffInv'
<1>1. ASSUME NEW p \in Stored'
      PROVE  /\ account'[p].role = "master" => p \in Usernames
             /\ account'[p].role \in Staff => Masters' # {}
  BY DEF StaffInv
<1>2. ASSUME NEW r \in Requests, op'[r].step = "insert"
      PROVE  /\ op'[r].row.role = "master" => op'[r].name \in Usernames
             /\ op'[r].row.role \in Staff => Masters' # {}
  <2>1. CASE r = q
    BY <1>2, <2>1 DEF Fitting
  <2>2. CASE r # q
    BY <1>2, <2>2 DEF StaffInv
  <2> QED BY <2>1, <2>2
<1> QED BY <1>1, <1>2 DEF StaffInv

\* The steps that leave the rows, and the subjects answered, alone.
LEMMA MovesOwn ==
  ASSUME IInv, OwnInv, NEW q \in Requests, NEW o, Goto(q, o), UNCHANGED <<account, home>>,
         AloneAfter(q), Fitting(o), ~overlapped => ReadHolds(o)'
  PROVE  OwnInv'
<1>1. op' = [op EXCEPT ![q] = o] /\ op \in [Requests -> Op]
  BY DEF Goto, IInv, TypeOK
<1>2. op'[q] = o /\ \A r \in Requests \ {q} : op'[r] = op[r]
  BY <1>1
<1>3. Stored' = Stored /\ Masters' = Masters
  BY DEF Stored, Masters
<1>4. OneAccountPerKey'
  BY <1>3 DEF OwnInv, OneAccountPerKey
<1>5. StaffInv'
  BY <1>2, <1>3, StaffKeeps DEF OwnInv, IInv, Fitting
<1>6. ~overlapped => HomesHeld'
  BY <1>3 DEF OwnInv, AloneInv, HomesHeld
<1>7. AloneInv'
  BY <1>2, <1>6, AloneKeeps DEF OwnInv
<1> QED BY <1>4, <1>5, <1>7 DEF OwnInv

\* What a holder of a token may hand out: no master, and staff only where a master is.
LEMMA ProvisionedFits ==
  ASSUME IInv, OwnInv, NEW t \in tokens, NEW role \in AllowedRoles(account[t.of].role)
  PROVE  role # "master" /\ (role \in Staff => Masters # {})
<1>1. t.of \in Stored
  BY DEF IInv, TokensMarked
<1>2. CASE account[t.of].role = "master"
  <2>1. role # "master" /\ t.of \in Masters
    BY <1>1, <1>2 DEF AllowedRoles, OwnInv, StaffInv, Masters
  <2> QED BY <2>1
<1>3. CASE account[t.of].role = "supervisor"
  <2>1. role # "master" /\ Masters # {}
    BY <1>1, <1>3 DEF AllowedRoles, OwnInv, StaffInv, Staff
  <2> QED BY <2>1
<1>4. CASE account[t.of].role \notin {"master", "supervisor"}
  BY <1>4 DEF AllowedRoles
<1> QED BY <1>2, <1>3, <1>4

\* A request that begins, or one that ends, keeps what accounts are whose.
LEMMA BeginOwn ==
  ASSUME IInv, OwnInv, NEW q \in Requests,
         \/ \E name \in IdNumbers, e \in Emails : RegisterPublic(q, name, e)
         \/ \E t \in tokens, name \in IdNumbers, e \in Emails \cup {NoEmail}, role \in Roles :
              Provision(q, t, name, e, role)
         \/ \E u \in Usernames : CreateMaster(q, u)
         \/ \E p \in Principals : LoginPassword(q, p)
         \/ \E s \in Subs, e \in Emails : SignInGoogle(q, s, e)
         \/ \E t \in tokens : Refresh(q, t) \/ Logout(q, t)
         \/ Fail(q)
  PROVE  OwnInv'
<1>1. ASSUME NEW name \in IdNumbers, NEW e \in Emails, RegisterPublic(q, name, e) PROVE OwnInv'
  <2>1. PICK o : o = Insert(name, [role |-> "public", email |-> e, sub |-> NoSub, password |-> TRUE])
    OBVIOUS
  <2>2. o.step = "insert" /\ o.name \notin Usernames /\ o.row.role = "public"
    BY <2>1, NamesAssumption DEF Insert
  <2>3. Fitting(o) /\ ReadHolds(o)'
    BY <2>2 DEF Fitting, Staff, ReadHolds
  <2>9. Goto(q, o) /\ AloneAfter(q) /\ UNCHANGED <<account, home>>
    BY <1>1, <2>1, BeginAlone DEF RegisterPublic, OwnInv
  <2> QED BY <2>3, <2>9, MovesOwn
<1>2. ASSUME NEW t \in tokens, NEW name \in IdNumbers, NEW e \in Emails \cup {NoEmail},
             NEW role \in Roles, Provision(q, t, name, e, role)
      PROVE  OwnInv'
  <2>1. PICK o : o = Insert(name, [role |-> role, email |-> e, sub |-> NoSub, password |-> TRUE])
    OBVIOUS
  <2>2. o.step = "insert" /\ o.name \notin Usernames /\ o.row.role = role
    BY <2>1, NamesAssumption DEF Insert
  <2>3. role # "master" /\ (role \in Staff => Masters # {})
    BY <1>2, ProvisionedFits DEF Provision
  <2>4. Fitting(o) /\ ReadHolds(o)'
    BY <2>2, <2>3 DEF Fitting, ReadHolds
  <2>9. Goto(q, o) /\ AloneAfter(q) /\ UNCHANGED <<account, home>>
    BY <1>2, <2>1, BeginAlone DEF Provision, OwnInv
  <2> QED BY <2>4, <2>9, MovesOwn
<1>3. ASSUME NEW u \in Usernames, CreateMaster(q, u) PROVE OwnInv'
  <2>1. PICK o : o = Insert(u, [role |-> "master", email |-> NoEmail, sub |-> NoSub, password |-> TRUE])
    OBVIOUS
  <2>2. o.step = "insert" /\ o.name \in Usernames /\ o.row.role = "master"
    BY <2>1 DEF Insert
  <2>3. MayCreateMaster'
    BY <1>3 DEF CreateMaster, MayCreateMaster, Masters, Stored, Accepted
  <2>4. Fitting(o) /\ ReadHolds(o)'
    BY <2>2, <2>3 DEF Fitting, Staff, ReadHolds
  <2>9. Goto(q, o) /\ AloneAfter(q) /\ UNCHANGED <<account, home>>
    BY <1>3, <2>1, BeginAlone DEF CreateMaster, OwnInv
  <2> QED BY <2>4, <2>9, MovesOwn
<1>4. ASSUME NEW p \in Principals, LoginPassword(q, p) PROVE OwnInv'
  <2>1. PICK o : o = Hold("answer", p, NoSub)
    OBVIOUS
  <2>2. Fitting(o) /\ ReadHolds(o)'
    BY <2>1 DEF Hold, Fitting, ReadHolds
  <2>9. Goto(q, o) /\ AloneAfter(q) /\ UNCHANGED <<account, home>>
    BY <1>4, <2>1, BeginAlone DEF LoginPassword, OwnInv
  <2> QED BY <2>2, <2>9, MovesOwn
<1>5. ASSUME NEW s \in Subs, NEW e \in Emails, SignInGoogle(q, s, e) PROVE OwnInv'
  <2>1. AloneAfter(q) /\ UNCHANGED <<account, home>> /\ s # NoSub
    BY <1>5, BeginAlone, NamesAssumption DEF SignInGoogle, OwnInv
  <2>2. ASSUME NEW p \in Stored, account[p].sub = s, Goto(q, Hold("answer", p, s)) PROVE OwnInv'
    <3>1. PICK o : o = Hold("answer", p, s)
      OBVIOUS
    <3>2. Fitting(o) /\ ReadHolds(o)'
      BY <2>1, <2>2, <3>1 DEF Hold, Fitting, ReadHolds
    <3>3. Goto(q, o)
      BY <2>2, <3>1
    <3> QED BY <2>1, <3>2, <3>3, MovesOwn
  <2>3. CASE ~SubInUse(s) /\ Goto(q, Match(s, e))
    <3>1. PICK o : o = Match(s, e)
      OBVIOUS
    <3>2. ~overlapped => home[s] = NoAccount
      BY <2>1, <2>3 DEF OwnInv, AloneInv, HomesHeld, SubInUse
    <3>3. Fitting(o) /\ (~overlapped => ReadHolds(o)')
      BY <2>1, <3>1, <3>2 DEF Match, Fitting, ReadHolds
    <3>4. Goto(q, o)
      BY <2>3, <3>1
    <3> QED BY <2>1, <3>3, <3>4, MovesOwn
  <2> QED BY <1>5, <2>2, <2>3 DEF SignInGoogle
<1>6. ASSUME NEW t \in tokens, Refresh(q, t) PROVE OwnInv'
  <2>1. PICK o : o = Hold("answer", t.of, NoSub)
    OBVIOUS
  <2>2. Fitting(o) /\ ReadHolds(o)'
    BY <2>1 DEF Hold, Fitting, ReadHolds
  <2>9. Goto(q, o) /\ AloneAfter(q) /\ UNCHANGED <<account, home>>
    BY <1>6, <2>1, BeginAlone DEF Refresh, OwnInv
  <2> QED BY <2>2, <2>9, MovesOwn
<1>7. ASSUME NEW t \in tokens, Logout(q, t) PROVE OwnInv'
  <2>1. PICK o : o = Leave(t.of)
    OBVIOUS
  <2>2. Fitting(o) /\ ReadHolds(o)'
    BY <2>1 DEF Leave, Fitting, ReadHolds
  <2>9. Goto(q, o) /\ AloneAfter(q) /\ UNCHANGED <<account, home>>
    BY <1>7, <2>1, BeginAlone DEF Logout, OwnInv
  <2> QED BY <2>2, <2>9, MovesOwn
<1>8. CASE Fail(q)
  <2>1. Fitting(Idle) /\ ReadHolds(Idle)'
    BY DEF Idle, Fitting, ReadHolds
  <2>2. Goto(q, Idle) /\ AloneAfter(q) /\ UNCHANGED <<account, home>>
    BY <1>8, GoOnAlone DEF Fail, OwnInv
  <2> QED BY <2>1, <2>2, MovesOwn
<1> QED BY <1>1, <1>2, <1>3, <1>4, <1>5, <1>6, <1>7, <1>8

LEMMA MatchOwn ==
  ASSUME IInv, OwnInv, NEW q \in Requests, MatchEmail(q)
  PROVE  OwnInv'
<1>1. op[q] \in Matching /\ op[q] # Idle /\ UNCHANGED <<account, home, overlapped>>
  BY StepShapes DEF MatchEmail, Idle, IInv, TypeOK
<1>a. AloneAfter(q)
  BY <1>1, GoOnAlone DEF OwnInv
<1>2. PICK s, e : s = op[q].sub /\ e = op[q].email
  OBVIOUS
<1>3. s \in Subs /\ s # NoSub /\ s \notin Usernames
  BY <1>1, <1>2, NamesAssumption DEF Matching
<1>4. ~overlapped => home[s] = NoAccount
  BY <1>2 DEF OwnInv, AloneInv, ReadHolds, MatchEmail
<1>5. CASE Goto(q, Idle)
  <2>1. Fitting(Idle) /\ ReadHolds(Idle)'
    BY DEF Idle, Fitting, ReadHolds
  <2> QED BY <1>1, <1>a, <1>5, <2>1, MovesOwn DEF Goto
<1>6. ASSUME NEW p \in Stored, ~Conflicts(s, p), Goto(q, Hold("link", p, s)) PROVE OwnInv'
  <2>1. PICK o : o = Hold("link", p, s)
    OBVIOUS
  <2>2. Fitting(o) /\ (~overlapped => ReadHolds(o)')
    BY <1>1, <1>4, <1>6, <2>1 DEF Hold, Fitting, ReadHolds, Conflicts
  <2> QED BY <1>1, <1>a, <1>6, <2>1, <2>2, MovesOwn DEF Goto
<1>7. CASE Goto(q, Insert(s, [role |-> "public", email |-> e, sub |-> s, password |-> FALSE]))
  <2>1. PICK o : o = Insert(s, [role |-> "public", email |-> e, sub |-> s, password |-> FALSE])
    OBVIOUS
  <2>2. o.step = "insert" /\ o.name \notin Usernames /\ o.row.role = "public"
    BY <1>3, <2>1 DEF Insert
  <2>3. Fitting(o) /\ ReadHolds(o)'
    BY <2>2 DEF Fitting, Staff, ReadHolds
  <2> QED BY <1>1, <1>a, <1>7, <2>1, <2>3, MovesOwn DEF Goto
<1> QED BY <1>2, <1>5, <1>6, <1>7 DEF MatchEmail

\* The unique indexes are asked when the row is written, so it has keys of its own.
LEMMA CreateOwn ==
  ASSUME IInv, OwnInv, NEW q \in Requests, CreateAccount(q)
  PROVE  OwnInv'
<1>1. /\ op[q] \in Inserting /\ op[q].step = "insert" /\ op[q] # Idle
      /\ UNCHANGED <<version, tokens, home, overlapped>>
  BY StepShapes DEF CreateAccount, Idle, IInv, TypeOK
<1>2. AloneAfter(q)
  BY <1>1, GoOnAlone DEF OwnInv
<1>3. PICK name, row : name = op[q].name /\ row = op[q].row
  OBVIOUS
<1>4. name \in Principals /\ row \in Row /\ row.sub \in Subs \cup {NoSub}
  BY <1>1, <1>3 DEF Inserting, Row
<1>5. CASE Goto(q, Idle) /\ UNCHANGED account
  <2>1. Fitting(Idle) /\ ReadHolds(Idle)'
    BY DEF Idle, Fitting, ReadHolds
  <2>2. Goto(q, Idle) /\ UNCHANGED <<account, home>>
    BY <1>1, <1>5
  <2> QED BY <1>2, <2>1, <2>2, MovesOwn
<1>6. ASSUME NEW o, Goto(q, o), (o = Idle /\ row.sub = NoSub) \/ o = Hold("answer", name, row.sub),
             name \notin Stored, ~EmailInUse(row.email), ~SubInUse(row.sub),
             account' = [account EXCEPT ![name] = row]
      PROVE  OwnInv'
  <2>1. /\ account'[name] = row
        /\ \A p \in Stored : p # name /\ account'[p] = account[p]
        /\ Stored' = Stored \cup {name}
    BY <1>4, <1>6, NoAccountAssumption DEF IInv, TypeOK, Stored
  <2>2. OneAccountPerKey'
    BY <1>6, <2>1 DEF OwnInv, OneAccountPerKey, EmailInUse, SubInUse
  <2>3. op' = [op EXCEPT ![q] = o] /\ op \in [Requests -> Op]
    BY <1>6 DEF Goto, IInv, TypeOK
  <2>4. op'[q] = o /\ \A r \in Requests \ {q} : op'[r] = op[r]
    BY <2>3
  <2>5. o.step # "insert" /\ Masters \subseteq Masters'
    BY <1>6, <2>1 DEF Idle, Hold, Masters
  <2>6. StaffInv'
    <3>1. Fitting(o)'
      BY <2>5 DEF Fitting
    <3>2. /\ row.role = "master" => name \in Usernames
          /\ row.role \in Staff => Masters # {}
      BY <1>1, <1>3 DEF OwnInv, StaffInv
    <3> QED BY <2>1, <2>4, <2>5, <3>1, <3>2, StaffKeeps DEF OwnInv, IInv
  <2>7. ReadHolds(o)'
    BY <1>6, <2>1 DEF ReadHolds, Idle, Hold
  <2>8. ~overlapped => HomesHeld'
    BY <1>1, <2>1 DEF OwnInv, AloneInv, HomesHeld
  <2>9. AloneInv'
    BY <1>2, <2>4, <2>7, <2>8, AloneKeeps DEF OwnInv
  <2> QED BY <2>2, <2>6, <2>9 DEF OwnInv
<1> QED BY <1>3, <1>5, <1>6 DEF CreateAccount

\* A link moves no subject from one account to another, and alone it writes to an
\* account that had no other subject.
LEMMA LinkOwn ==
  ASSUME IInv, OwnInv, NEW q \in Requests, LinkGoogle(q)
  PROVE  OwnInv'
<1>1. /\ op[q] \in SigningIn /\ op[q].step = "link" /\ op[q] # Idle
      /\ UNCHANGED <<version, tokens, home, overlapped>>
  BY StepShapes DEF LinkGoogle, Idle, IInv, TypeOK
<1>2. AloneAfter(q)
  BY <1>1, GoOnAlone DEF OwnInv
<1>3. PICK s, p : s = op[q].sub /\ p = op[q].session.of
  OBVIOUS
<1>4. s \in Subs /\ s # NoSub /\ p \in Stored
  BY <1>1, <1>3, NamesAssumption DEF SigningIn, IInv, HeldMarked, Holds
<1>5. CASE Goto(q, Idle) /\ UNCHANGED account
  <2>1. Fitting(Idle) /\ ReadHolds(Idle)'
    BY DEF Idle, Fitting, ReadHolds
  <2>2. Goto(q, Idle) /\ UNCHANGED <<account, home>>
    BY <1>1, <1>5
  <2> QED BY <1>2, <2>1, <2>2, MovesOwn
<1>6. ASSUME NEW o, Goto(q, o), o = [op[q] EXCEPT !.step = "answer"],
             \A r \in Stored \ {p} : account[r].sub # s,
             account' = [account EXCEPT ![p].sub = s]
      PROVE  OwnInv'
  <2>1. p \in Principals /\ account[p] \in Row
    BY <1>4, StoredRows DEF IInv
  <2>2. PICK row : row = [account[p] EXCEPT !.sub = s]
    OBVIOUS
  <2>3. /\ row.sub = s /\ row.role = account[p].role /\ row.email = account[p].email
        /\ row \in Row
    BY <1>4, <2>1, <2>2 DEF Row
  <2>4. account' = [account EXCEPT ![p] = row]
    BY <1>6, <2>2
  <2>5. /\ account'[p] = row
        /\ \A r \in Stored : r # p => account'[r] = account[r]
        /\ Stored' = Stored
    BY <1>4, <2>1, <2>3, <2>4, NoAccountAssumption DEF IInv, TypeOK, Stored
  <2>6. OneAccountPerKey'
    BY <1>4, <1>6, <2>3, <2>5 DEF OwnInv, OneAccountPerKey
  <2>7. op' = [op EXCEPT ![q] = o] /\ op \in [Requests -> Op]
    BY <1>6 DEF Goto, IInv, TypeOK
  <2>8. op'[q] = o /\ \A r \in Requests \ {q} : op'[r] = op[r]
    BY <2>7
  <2>9. o.step = "answer" /\ o.sub = s /\ o.session.of = p
    BY <1>1, <1>3, <1>6 DEF SigningIn
  <2>10. StaffInv'
    <3>1. Fitting(o)'
      BY <2>9 DEF Fitting
    <3>2. Masters' = Masters /\ \A r \in Stored' : account'[r].role = account[r].role
      BY <2>3, <2>5 DEF Masters
    <3> QED BY <2>5, <2>8, <3>1, <3>2, StaffKeeps DEF OwnInv, IInv
  <2>11. ReadHolds(o)'
    BY <2>3, <2>5, <2>9 DEF ReadHolds
  <2>12. ~overlapped => HomesHeld'
    <3>1. ~overlapped => account[p].sub \in {NoSub, s} /\ home[s] = NoAccount
      BY <1>1, <1>3 DEF OwnInv, AloneInv, ReadHolds
    <3>2. ASSUME ~overlapped, NEW u \in Subs, home[u] # NoAccount
          PROVE  home[u] \in Stored /\ account'[home[u]].sub = u
      <4>1. home[u] \in Stored /\ account[home[u]].sub = u /\ u # NoSub
        BY <3>2, NamesAssumption DEF OwnInv, AloneInv, HomesHeld
      <4>2. home[u] # p
        BY <3>1, <3>2, <4>1
      <4> QED BY <2>5, <4>1, <4>2
    <3> QED BY <1>1, <2>5, <3>2 DEF HomesHeld
  <2>13. AloneInv'
    BY <1>2, <2>8, <2>11, <2>12, AloneKeeps DEF OwnInv
  <2> QED BY <2>6, <2>10, <2>13 DEF OwnInv
<1> QED BY <1>3, <1>5, <1>6 DEF LinkGoogle

\* An answer makes the account the subject's, which alone it still has.
LEMMA AnswerOwn ==
  ASSUME IInv, OwnInv, NEW q \in Requests, Answer(q)
  PROVE  OwnInv'
<1>1. /\ op[q] \in SigningIn /\ op[q].step = "answer" /\ op[q] # Idle
      /\ UNCHANGED <<account, version, overlapped>>
      /\ home' = IF op[q].sub = NoSub THEN home ELSE [home EXCEPT ![op[q].sub] = op[q].session.of]
  BY StepShapes DEF Answer, Idle, IInv, TypeOK
<1>2. AloneAfter(q)
  BY <1>1, GoOnAlone DEF OwnInv
<1>3. op' = [op EXCEPT ![q] = Idle] /\ op \in [Requests -> Op] /\ home \in [Subs -> Principals \cup {NoAccount}]
  BY DEF Answer, Goto, IInv, TypeOK
<1>4. op'[q] = Idle /\ \A r \in Requests \ {q} : op'[r] = op[r]
  BY <1>3
<1>5. Stored' = Stored /\ Masters' = Masters
  BY <1>1 DEF Stored, Masters
<1>6. OneAccountPerKey'
  BY <1>1, <1>5 DEF OwnInv, OneAccountPerKey
<1>7. Fitting(Idle)' /\ ReadHolds(Idle)'
  BY DEF Idle, Fitting, ReadHolds
<1>8. StaffInv'
  BY <1>1, <1>4, <1>5, <1>7, StaffKeeps DEF OwnInv, IInv
<1>9. ~overlapped => HomesHeld'
  <2>1. op[q].session.of \in Stored
    BY <1>1 DEF IInv, HeldMarked, Holds
  <2>2. ~overlapped /\ op[q].sub # NoSub => account[op[q].session.of].sub = op[q].sub
    BY <1>1 DEF OwnInv, AloneInv, ReadHolds
  <2> SUFFICES ASSUME ~overlapped, NEW u \in Subs, home'[u] # NoAccount
               PROVE  home'[u] \in Stored /\ account[home'[u]].sub = u
    BY <1>1, <1>5 DEF HomesHeld
  <2>3. home[u] # NoAccount => home[u] \in Stored /\ account[home[u]].sub = u
    BY DEF OwnInv, AloneInv, HomesHeld
  <2>4. CASE home'[u] = home[u]
    BY <2>3, <2>4
  <2>5. CASE home'[u] # home[u]
    <3>1. op[q].sub # NoSub /\ u = op[q].sub /\ home'[u] = op[q].session.of
      BY <1>1, <1>3, <2>5
    <3> QED BY <2>1, <2>2, <3>1
  <2> QED BY <2>4, <2>5
<1>10. AloneInv'
  BY <1>2, <1>4, <1>7, <1>9, AloneKeeps DEF OwnInv
<1> QED BY <1>6, <1>8, <1>10 DEF OwnInv

LEMMA LogoutOwn ==
  ASSUME IInv, OwnInv, NEW q \in Requests, FinishLogout(q)
  PROVE  OwnInv'
<1>1. /\ op[q] # Idle /\ UNCHANGED <<account, home, overlapped>>
      /\ op' = [r \in Requests |->
                   IF r = q THEN Idle
                   ELSE IF op[r].step \in {"link", "answer"}
                          THEN [op[r] EXCEPT !.session = End(@, op[q].of)] ELSE op[r]]
  BY DEF FinishLogout, Idle
<1>2. AloneAfter(q)
  BY <1>1, GoOnAlone DEF OwnInv
<1>3. op'[q] = Idle
  BY <1>1
<1>4. ASSUME NEW r \in Requests \ {q}, op[r].step \notin {"link", "answer"}
      PROVE  op'[r] = op[r]
  BY <1>1, <1>4
<1>5. ASSUME NEW r \in Requests \ {q}, op[r].step \in {"link", "answer"}
      PROVE  op'[r].step # "insert"
  <2>1. op[r] \in SigningIn
    BY <1>5, StepShapes DEF IInv, TypeOK
  <2>2. op'[r] = [op[r] EXCEPT !.session = End(op[r].session, op[q].of)]
    BY <1>1, <1>5
  <2> QED BY <2>1, <2>2 DEF SigningIn
<1>6. Stored' = Stored /\ Masters' = Masters
  BY <1>1 DEF Stored, Masters
<1>7. OneAccountPerKey'
  BY <1>1, <1>6 DEF OwnInv, OneAccountPerKey
<1>8. Fitting(Idle)' /\ ReadHolds(Idle)'
  BY DEF Idle, Fitting, ReadHolds
<1>9. StaffInv'
  <2>1. \A r \in Requests \ {q} : op'[r].step = "insert" => op'[r] = op[r]
    BY <1>4, <1>5
  <2> QED BY <1>1, <1>3, <1>6, <1>8, <2>1, StaffKeeps DEF OwnInv, IInv
<1>10. ~overlapped => HomesHeld'
  BY <1>1, <1>6 DEF OwnInv, AloneInv, HomesHeld
<1>11. AloneInv'
  <2>1. \A r \in Requests \ {q} : op[r] = Idle => op'[r] = Idle
    BY <1>4 DEF Idle
  <2> QED BY <1>2, <1>3, <1>8, <1>10, <2>1, AloneKeeps DEF OwnInv
<1> QED BY <1>7, <1>9, <1>11 DEF OwnInv

LEMMA InitOwn == Init => OwnInv
<1> SUFFICES ASSUME Init PROVE OwnInv
  OBVIOUS
<1>1. Stored = {} /\ op = [q \in Requests |-> Idle] /\ home = [s \in Subs |-> NoAccount]
  BY DEF Init, Stored
<1> QED
  BY <1>1 DEF OwnInv, OneAccountPerKey, StaffInv, AloneInv, ReadHolds, HomesHeld, Idle

LEMMA StepOwn ==
  ASSUME IInv, OwnInv, NEW q \in Requests, Step(q)
  PROVE  OwnInv'
BY BeginOwn, MatchOwn, CreateOwn, LinkOwn, AnswerOwn, LogoutOwn DEF Step

\* Both invariants hold in every reachable state.
LEMMA OwnInvariance == Spec => [](IInv /\ OwnInv)
<1>1. IInv /\ OwnInv /\ [Next]_vars => OwnInv'
  BY StepOwn, OwnInvStutters DEF Next
<1> QED BY InitOwn, <1>1, Invariance, PTL DEF Spec

\* google.service.ts, auth.service.ts, users.service.ts: no two accounts share an
\* e-mail or a Google subject; staff only where there is a master; and of requests
\* that do not overlap none takes a subject's account away.
THEOREM AccountsAreOwned == Spec => []AccountsInv
<1>1. IInv /\ OwnInv => AccountsInv
  <2> SUFFICES ASSUME IInv, OwnInv PROVE AccountsInv
    OBVIOUS
  <2>1. StaffDescendFromMaster
    BY DEF OwnInv, StaffInv, Staff, StaffDescendFromMaster
  <2>2. HomeHoldsSub
    BY DEF OwnInv, AloneInv, HomesHeld, HomeHoldsSub
  <2> QED BY <2>1, <2>2 DEF IInv, OwnInv, AccountsInv
<1> QED BY OwnInvariance, <1>1, PTL

\* master.service.ts: of requests that do not overlap, one that creates a master
\* after the first has been shown a master's session.
THEOREM OnlyMastersInvite == Spec => MastersInviteMasters
<1> DEFINE Invited == Masters' # Masters /\ ~overlapped' =>
              Masters = {} \/ \E t \in tokens : Accepted(t) /\ account[t.of].role = "master"
<1>1. IInv /\ OwnInv /\ [Next]_vars => Invited
  <2> SUFFICES ASSUME IInv, OwnInv, [Next]_vars, Masters' # Masters, ~overlapped'
               PROVE  MayCreateMaster
    BY DEF MayCreateMaster
  <2>1. account' # account
    BY DEF Masters, Stored
  <2>2. PICK q \in Requests : CreateAccount(q) \/ LinkGoogle(q)
    BY <2>1 DEF vars, Next, Step, RegisterPublic, Provision, CreateMaster, LoginPassword, SignInGoogle,
                MatchEmail, Answer, Refresh, Logout, FinishLogout, Fail
  <2>3. UNCHANGED overlapped
    BY <2>2 DEF CreateAccount, LinkGoogle
  <2>4. ASSUME LinkGoogle(q) PROVE FALSE
    <3>1. op[q].session.of \in Stored
      BY <2>4 DEF IInv, HeldMarked, Holds, LinkGoogle
    <3>2. account' = [account EXCEPT ![op[q].session.of].sub = op[q].sub]
      BY <2>1, <2>4 DEF LinkGoogle
    <3>3. account[op[q].session.of] \in Row
      BY <3>1, StoredRows DEF IInv
    <3>4. Stored' = Stored
      <4>1. [account[op[q].session.of] EXCEPT !.sub = op[q].sub] \in Row
        <5>1. op[q] \in SigningIn
          BY <2>4, StepShapes DEF LinkGoogle, IInv, TypeOK
        <5> QED BY <2>4, <3>3, <5>1, NamesAssumption DEF Row, SigningIn, LinkGoogle
      <4>2. account' = [account EXCEPT ![op[q].session.of] =
                          [account[op[q].session.of] EXCEPT !.sub = op[q].sub]]
        BY <3>2
      <4> QED BY <3>1, <4>1, <4>2, NoAccountAssumption DEF IInv, TypeOK, Stored
    <3> QED BY <3>4 DEF Masters
  <2>5. /\ op[q].step = "insert"
        /\ account' = [account EXCEPT ![op[q].name] = op[q].row]
    BY <2>1, <2>2, <2>4 DEF CreateAccount
  <2>6. op[q].name \in Usernames
    BY <2>5 DEF Masters, Stored, IInv, TypeOK
  <2> QED BY <2>3, <2>5, <2>6 DEF OwnInv, AloneInv, ReadHolds
<1> HIDE DEF Invited
<1>2. Spec => [][Invited]_vars
  BY OwnInvariance, <1>1, PTL DEF Spec
<1> QED BY <1>2 DEF MastersInviteMasters, Invited

=============================================================================

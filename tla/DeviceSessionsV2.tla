-------------------------- MODULE DeviceSessionsV2 --------------------------
(***************************************************************************)
(* v2 device sessions: apps/api/src/v2/auth/v2-auth.service.ts over        *)
(* v2/sessions/sessions.repository.ts and v2/devices/devices.repository.ts.*)
(* Every repository call is a statement of its own; nothing here runs in a *)
(* transaction, and no constraint of the schema limits a device's active   *)
(* sessions.  A refresh token is a JWT of its session whose only varying   *)
(* claim is the second it was signed in, so the pair [session, iat] names  *)
(* the token and two tokens signed for a session in one second are equal.  *)
(***************************************************************************)
EXTENDS Integers, FiniteSets, FiniteSetsExt

CONSTANTS
  Users, Devices,
  Sessions,      \* DeviceSession ids; also the bound on logins
  Requests,      \* requests the API can have in flight
  NoUser, NoDevice, NoSession,
  MaxTime        \* bound: seconds the clock may show

ASSUME SessionIdsAssumption ==
  NoUser \notin Users /\ NoDevice \notin Devices /\ NoSession \notin Sessions
ASSUME MaxTimeAssumption == MaxTime \in Nat \ {0}
ASSUME FiniteAssumption == IsFiniteSet(Sessions) /\ IsFiniteSet(Requests)

VARIABLES
  clock,         \* the current second
  boundTo,       \* DeviceV2.userId
  session,       \* DeviceSession rows
  issued,        \* refresh tokens that reached a client
  lost,          \* sessions that stored a token whose answer never arrived
  pc, call,      \* where each request stands, and what it holds
  overlapped     \* history: two requests have been under way at once

rows == <<boundTo, session>>
vars == <<clock, boundTo, session, issued, lost, pc, call, overlapped>>

Pending == 0     \* the placeholder refreshTokenHash; tokens carry iat >= 1

Row == [device : Devices \cup {NoDevice}, user : Users \cup {NoUser},
        active : BOOLEAN, hash : Nat]
NoRow == [device |-> NoDevice, user |-> NoUser, active |-> FALSE, hash |-> Pending]

Token == [session : Sessions, iat : Nat \ {0}]

Call == [device : Devices \cup {NoDevice}, user : Users \cup {NoUser},
         session : Sessions \cup {NoSession}, iat : Nat]
NoCall == [device |-> NoDevice, user |-> NoUser, session |-> NoSession, iat |-> Pending]

ActiveOn(d) == {s \in Sessions : session[s].device = d /\ session[s].active}

\* Mutant: the prior sessions are left active.
RevokeNone(d) == UNCHANGED session

\* The repository's statements.
RevokeAllForDevice(d) ==
  session' = [s \in Sessions |-> IF session[s].device = d
                                 THEN [session[s] EXCEPT !.active = FALSE] ELSE session[s]]

Revoke(s) == session' = [session EXCEPT ![s].active = FALSE]

\* Mutant: storing a token makes the session active again.
StoreAndActivate(s, iat) ==
  session' = [session EXCEPT ![s].hash = iat, ![s].active = TRUE]

\* Mutant: the new hash is never stored.
StoreNothing(s, iat) == UNCHANGED session

UpdateRefreshToken(s, iat) == session' = [session EXCEPT ![s].hash = iat]

Goto(h, l) == pc' = [pc EXCEPT ![h] = l]
\* A login or a refresh arrives.
Begin(h) == pc[h] = "idle" /\ overlapped' = (overlapped \/ \E g \in Requests : pc[g] # "idle")
Finish(h) == Goto(h, "idle") /\ call' = [call EXCEPT ![h] = NoCall]

-----------------------------------------------------------------------------
Init ==
  /\ clock = 1
  /\ boundTo = [d \in Devices |-> NoUser]
  /\ session = [s \in Sessions |-> NoRow]
  /\ issued = {} /\ lost = {}
  /\ pc = [h \in Requests |-> "idle"]
  /\ call = [h \in Requests |-> NoCall]
  /\ overlapped = FALSE

Tick == clock < MaxTime /\ clock' = clock + 1 /\ UNCHANGED <<rows, issued, lost, pc, call, overlapped>>

\* issueSessionAndEnvelope, after loginWithPassword or loginWithGoogle has
\* identified the user: revoke, create with the placeholder, store, bind, answer.
Login(h, d, u) ==
  /\ Begin(h)
  /\ RevokeAllForDevice(d)
  /\ Goto(h, "revoked")
  /\ call' = [call EXCEPT ![h] = [NoCall EXCEPT !.device = d, !.user = u]]
  /\ UNCHANGED <<clock, boundTo, issued, lost>>

CreateSession(h, s) ==
  /\ pc[h] = "revoked" /\ session[s] = NoRow
  /\ session' = [session EXCEPT ![s] = [device |-> call[h].device, user |-> call[h].user,
                                        active |-> TRUE, hash |-> Pending]]
  /\ call' = [call EXCEPT ![h].session = s, ![h].iat = clock]
  /\ Goto(h, "created")
  /\ UNCHANGED <<clock, boundTo, issued, lost, overlapped>>

StoreLoginToken(h) ==
  /\ pc[h] = "created"
  /\ UpdateRefreshToken(call[h].session, call[h].iat)
  /\ Goto(h, "stored")
  /\ UNCHANGED <<clock, boundTo, issued, lost, call, overlapped>>

BindDevice(h) ==
  /\ pc[h] = "stored"
  /\ boundTo' = [boundTo EXCEPT ![call[h].device] = call[h].user]
  /\ issued' = issued \cup {[session |-> call[h].session, iat |-> call[h].iat]}
  /\ Finish(h)
  /\ UNCHANGED <<clock, session, lost, overlapped>>

\* refresh: the session must be active (else 401, no step); a token whose hash is
\* not the stored one gets the session revoked.
Refresh(h, t) ==
  /\ Begin(h) /\ session[t.session].active
  /\ call' = [call EXCEPT ![h].session = t.session]
  /\ Goto(h, IF session[t.session].hash = t.iat THEN "matched" ELSE "mismatched")
  /\ UNCHANGED <<clock, rows, issued, lost>>

RevokeMismatched(h) ==
  /\ pc[h] = "mismatched"
  /\ Revoke(call[h].session)
  /\ Finish(h)
  /\ UNCHANGED <<clock, boundTo, issued, lost, overlapped>>

SignRefreshed(h) ==
  /\ pc[h] = "matched"
  /\ call' = [call EXCEPT ![h].iat = clock]
  /\ Goto(h, "signed")
  /\ UNCHANGED <<clock, rows, issued, lost, overlapped>>

\* The update names the session only: it neither asks for the hash that was read
\* nor for the session to be active still.  "answering": the answer is under way.
StoreRefreshed(h) ==
  /\ pc[h] = "signed"
  /\ UpdateRefreshToken(call[h].session, call[h].iat)
  /\ Goto(h, "answering")
  /\ UNCHANGED <<clock, boundTo, issued, lost, call, overlapped>>

AnswerRefresh(h) ==
  /\ pc[h] = "answering"
  /\ issued' = issued \cup {[session |-> call[h].session, iat |-> call[h].iat]}
  /\ Finish(h)
  /\ UNCHANGED <<clock, rows, lost, overlapped>>

LogoutDevice(d) ==
  /\ RevokeAllForDevice(d)
  /\ UNCHANGED <<clock, boundTo, issued, lost, pc, call, overlapped>>

\* The process dies, or the answer does not arrive.
Drop(h) ==
  /\ pc[h] # "idle"
  /\ lost' = IF pc[h] \in {"stored", "answering"} THEN lost \cup {call[h].session} ELSE lost
  /\ Finish(h)
  /\ UNCHANGED <<clock, rows, issued, overlapped>>

\* No session id is left, or nobody calls.
Quiet == (\A h \in Requests : pc[h] \in {"idle", "revoked"}) /\ UNCHANGED vars

Next ==
  \/ Tick
  \/ \E h \in Requests :
       \/ \E d \in Devices, u \in Users : Login(h, d, u)
       \/ \E s \in Sessions : CreateSession(h, s)
       \/ StoreLoginToken(h)
       \/ BindDevice(h)
       \/ \E t \in issued : Refresh(h, t)
       \/ RevokeMismatched(h)
       \/ SignRefreshed(h)
       \/ StoreRefreshed(h)
       \/ AnswerRefresh(h)
       \/ Drop(h)
  \/ \E d \in Devices : LogoutDevice(d)
  \/ Quiet

Spec == Init /\ [][Next]_vars

-----------------------------------------------------------------------------
(* Properties *)

TypeOK ==
  /\ clock \in 1..MaxTime
  /\ boundTo \in [Devices -> Users \cup {NoUser}]
  /\ session \in [Sessions -> Row]
  /\ issued \subseteq Token
  /\ lost \subseteq Sessions
  /\ pc \in [Requests -> {"idle", "revoked", "created", "stored", "matched", "mismatched",
                          "signed", "answering"}]
  /\ call \in [Requests -> Call]
  /\ overlapped \in BOOLEAN

\* "Login binds the device to exactly one active account session"
\* (v2-auth.service.ts:4): no device has two.
OneActiveSession == \A d \in Devices : Cardinality(ActiveOn(d)) <= 1

\* It is so as long as no two requests have overlapped, wherever one of them died.
OneActiveUnlessOverlapped == ~ overlapped => OneActiveSession

\* What the code keeps when logins overlap: a device has no more active sessions
\* than requests could overlap on it, those about to create one included.
ActiveSessionsBounded ==
  \A d \in Devices :
    Cardinality(ActiveOn(d)) + Cardinality({h \in Requests : pc[h] = "revoked" /\ call[h].device = d})
      <= Cardinality(Requests)

\* Whoever holds a token of an active session is the user the device is bound to,
\* so notifications addressed to the device reach the account signed in on it.
DeviceBoundToHolder ==
  ~ overlapped => \A t \in issued : session[t.session].active =>
    boundTo[session[t.session].device] = session[t.session].user

\* Type correctness and what login promises of a device, as far as the code keeps it.
SessionInv == TypeOK /\ ActiveSessionsBounded /\ OneActiveUnlessOverlapped /\ DeviceBoundToHolder

\* A client that holds the newest token of its session can refresh with it, unless
\* a newer one was stored and its answer lost.
IssuedFor(s) == {t.iat : t \in {i \in issued : i.session = s}}
NewestTokenRefreshes ==
  ~ overlapped => \A s \in Sessions :
    /\ session[s].active /\ IssuedFor(s) # {} /\ s \notin lost
    /\ \A h \in Requests : call[h].session # s
    => session[s].hash = Max(IssuedFor(s))

\* A revoked session stays revoked, whatever login, refresh or logout was under way.
RevokedForGood ==
  [][\A s \in Sessions : session[s] # NoRow /\ ~ session[s].active
                           => ~ session'[s].active]_vars
=============================================================================

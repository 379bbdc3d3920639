----------------------- MODULE DeviceSessionsV2Proofs -----------------------
(***************************************************************************)
(* What the v2 sessions keep, for any users, devices, sessions, requests   *)
(* and any time: the bound on active sessions and RevokedForGood under any *)
(* overlap, the rest as long as no two requests have overlapped.           *)
(***************************************************************************)
EXTENDS DeviceSessionsV2, TLAPS, FiniteSetTheorems

\* A request holds a session that exists, and a second that has come.
HeldBy(h) ==
  /\ pc[h] \in {"revoked", "created", "stored"} =>
       call[h].device \in Devices /\ call[h].user \in Users
  /\ pc[h] \in {"created", "stored"} =>
       /\ session[call[h].session].device = call[h].device
       /\ session[call[h].session].user = call[h].user
  /\ pc[h] \in {"created", "stored", "matched", "mismatched", "signed", "answering"} =>
       call[h].session \in Sessions /\ session[call[h].session].device \in Devices
  /\ pc[h] \in {"created", "stored", "signed", "answering"} => call[h].iat \in 1..clock

HeldInv ==
  /\ \A h \in Requests : HeldBy(h)
  /\ \A t \in issued : t.iat <= clock /\ session[t.session].device \in Devices

\* A request that is alone: what it has read still holds when it writes.
LoginAlone(h) ==
  /\ pc[h] = "revoked" =>
       \A s \in Sessions : session[s].active => session[s].device # call[h].device
  /\ pc[h] \in {"created", "stored"} =>
       /\ \A s \in Sessions : session[s].active /\ session[s].device = call[h].device
                                => s = call[h].session
       /\ \A t \in issued : t.session # call[h].session
  /\ pc[h] = "stored" => session[call[h].session].hash = call[h].iat

RefreshAlone(h) ==
  /\ pc[h] \in {"matched", "mismatched", "signed", "answering"} =>
       \E t \in issued : t.session = call[h].session
  /\ pc[h] \in {"signed", "answering"} =>
       \A t \in issued : t.session = call[h].session => t.iat <= call[h].iat
  /\ pc[h] = "answering" => session[call[h].session].hash = call[h].iat

\* The stored hash is that of the newest token a client was given.
Newest(s) ==
  session[s].active /\ s \notin lost =>
    \A t \in issued : t.session = s =>
      /\ t.iat <= session[s].hash
      /\ [session |-> s, iat |-> session[s].hash] \in issued

Answering(s) == \E h \in Requests : pc[h] = "answering" /\ call[h].session = s

AloneInv ==
  /\ \A g, h \in Requests : pc[g] # "idle" /\ pc[h] # "idle" => g = h
  /\ \A s, z \in Sessions :
       session[s].active /\ session[z].active /\ session[s].device = session[z].device => s = z
  /\ \A h \in Requests : LoginAlone(h) /\ RefreshAlone(h)
  /\ \A t \in issued : session[t.session].active =>
       boundTo[session[t.session].device] = session[t.session].user
  /\ \A s \in Sessions : Newest(s) \/ Answering(s)

IInv == TypeOK /\ HeldInv /\ ActiveSessionsBounded /\ (~overlapped => AloneInv)

-----------------------------------------------------------------------------
(* The bound on active sessions *)

AboutToCreate(d) == {h \in Requests : pc[h] = "revoked" /\ call[h].device = d}
Bounded(d) == Cardinality(ActiveOn(d)) + Cardinality(AboutToCreate(d)) <= Cardinality(Requests)

LEMMA BoundedEach == ActiveSessionsBounded <=> \A d \in Devices : Bounded(d)
BY DEF ActiveSessionsBounded, Bounded, AboutToCreate

LEMMA CountsFinite ==
  ASSUME NEW d
  PROVE  /\ IsFiniteSet(ActiveOn(d)) /\ Cardinality(ActiveOn(d)) \in Nat
         /\ IsFiniteSet(AboutToCreate(d)) /\ Cardinality(AboutToCreate(d)) \in Nat
         /\ Cardinality(AboutToCreate(d)) <= Cardinality(Requests) /\ Cardinality(Requests) \in Nat
<1>1. IsFiniteSet(ActiveOn(d)) BY FiniteAssumption, FS_Subset DEF ActiveOn
<1>2. AboutToCreate(d) \subseteq Requests BY DEF AboutToCreate
<1>3. IsFiniteSet(AboutToCreate(d)) /\ Cardinality(AboutToCreate(d)) <= Cardinality(Requests)
  BY <1>2, FiniteAssumption, FS_Subset
<1>. QED BY <1>1, <1>3, FiniteAssumption, FS_CardinalityType

LEMMA BoundStays ==
  ASSUME NEW d, Bounded(d), ActiveOn(d)' \subseteq ActiveOn(d),
         AboutToCreate(d)' \subseteq AboutToCreate(d)
  PROVE  Bounded(d)'
<1>1. /\ Cardinality(ActiveOn(d)') <= Cardinality(ActiveOn(d))
      /\ Cardinality(AboutToCreate(d)') <= Cardinality(AboutToCreate(d))
  BY CountsFinite, FS_Subset
<1>2. Cardinality(ActiveOn(d)') \in Nat /\ Cardinality(AboutToCreate(d)') \in Nat
  BY CountsFinite, FS_Subset, FS_CardinalityType
<1>. QED BY <1>1, <1>2, CountsFinite DEF Bounded

\* A login leaves its device without active sessions.
LEMMA BoundAfterRevoke ==
  ASSUME NEW d, ActiveOn(d)' = {} PROVE Bounded(d)'
<1>1. AboutToCreate(d)' \subseteq Requests BY DEF AboutToCreate
<1>2. Cardinality(AboutToCreate(d)') <= Cardinality(Requests)
      /\ Cardinality(AboutToCreate(d)') \in Nat
  BY <1>1, FiniteAssumption, FS_Subset, FS_CardinalityType
<1>3. Cardinality(ActiveOn(d)') = 0 BY FS_EmptySet
<1>. QED BY <1>2, <1>3 DEF Bounded

LEMMA BoundAfterCreate ==
  ASSUME NEW d, Bounded(d), NEW s, NEW h \in AboutToCreate(d),
         ActiveOn(d)' \subseteq ActiveOn(d) \cup {s},
         AboutToCreate(d)' \subseteq AboutToCreate(d) \ {h}
  PROVE  Bounded(d)'
<1>1. /\ IsFiniteSet(ActiveOn(d) \cup {s})
      /\ Cardinality(ActiveOn(d) \cup {s}) \in Nat
      /\ Cardinality(ActiveOn(d) \cup {s}) <= Cardinality(ActiveOn(d)) + 1
  <2>1. IsFiniteSet(ActiveOn(d)) /\ Cardinality(ActiveOn(d)) \in Nat BY CountsFinite
  <2>2. /\ IsFiniteSet(ActiveOn(d) \cup {s})
        /\ Cardinality(ActiveOn(d) \cup {s})
             = IF s \in ActiveOn(d) THEN Cardinality(ActiveOn(d)) ELSE Cardinality(ActiveOn(d)) + 1
    BY <2>1, FS_AddElement
  <2>. QED BY <2>1, <2>2
<1>2. /\ IsFiniteSet(AboutToCreate(d) \ {h})
      /\ Cardinality(AboutToCreate(d) \ {h}) = Cardinality(AboutToCreate(d)) - 1
  BY CountsFinite, FS_RemoveElement
<1>3. /\ Cardinality(ActiveOn(d)') <= Cardinality(ActiveOn(d) \cup {s})
      /\ Cardinality(ActiveOn(d)') \in Nat
  BY <1>1, FS_Subset, FS_CardinalityType
<1>4. /\ Cardinality(AboutToCreate(d)') <= Cardinality(AboutToCreate(d)) - 1
      /\ Cardinality(AboutToCreate(d)') \in Nat
  BY <1>2, FS_Subset, FS_CardinalityType
<1>. QED BY <1>1, <1>3, <1>4, CountsFinite DEF Bounded

-----------------------------------------------------------------------------
(* Each action keeps the four parts *)

\* What the repository's statements do to the rows.
SameRow(s) ==
  /\ session'[s].device = session[s].device
  /\ session'[s].user = session[s].user

LEMMA RevokedAll ==
  ASSUME session \in [Sessions -> Row], NEW d, RevokeAllForDevice(d)
  PROVE  /\ session' \in [Sessions -> Row]
         /\ \A s \in Sessions :
              /\ SameRow(s) /\ session'[s].hash = session[s].hash
              /\ session'[s].active = (session[s].active /\ session[s].device # d)
<1>1. ASSUME NEW s \in Sessions
      PROVE  /\ session'[s] \in Row /\ SameRow(s) /\ session'[s].hash = session[s].hash
             /\ session'[s].active = (session[s].active /\ session[s].device # d)
  BY DEF RevokeAllForDevice, Row, SameRow
<1>. QED BY <1>1 DEF RevokeAllForDevice

LEMMA RevokedOne ==
  ASSUME session \in [Sessions -> Row], NEW r \in Sessions, Revoke(r)
  PROVE  /\ session' \in [Sessions -> Row]
         /\ \A s \in Sessions :
              /\ SameRow(s) /\ session'[s].hash = session[s].hash
              /\ session'[s].active = (session[s].active /\ s # r)
<1>1. ASSUME NEW s \in Sessions
      PROVE  /\ session'[s] \in Row /\ SameRow(s) /\ session'[s].hash = session[s].hash
             /\ session'[s].active = (session[s].active /\ s # r)
  BY DEF Revoke, Row, SameRow
<1>. QED BY <1>1 DEF Revoke

LEMMA StoredOne ==
  ASSUME session \in [Sessions -> Row], NEW r \in Sessions, NEW iat \in Nat,
         UpdateRefreshToken(r, iat)
  PROVE  /\ session' \in [Sessions -> Row]
         /\ \A s \in Sessions :
              /\ SameRow(s) /\ session'[s].active = session[s].active
              /\ session'[s].hash = IF s = r THEN iat ELSE session[s].hash
<1>1. ASSUME NEW s \in Sessions
      PROVE  /\ session'[s] \in Row /\ SameRow(s) /\ session'[s].active = session[s].active
             /\ session'[s].hash = IF s = r THEN iat ELSE session[s].hash
  BY DEF UpdateRefreshToken, Row, SameRow
<1>. QED BY <1>1 DEF UpdateRefreshToken

\* A statement that makes no session active and begins no login keeps the bound.
LEMMA BoundKept ==
  ASSUME ActiveSessionsBounded,
         \A s \in Sessions : session'[s].device = session[s].device
                             /\ (session'[s].active => session[s].active),
         \A h \in Requests : pc'[h] = "revoked" => pc[h] = "revoked" /\ call'[h] = call[h]
  PROVE  ActiveSessionsBounded'
<1>1. ASSUME NEW d \in Devices PROVE Bounded(d)'
  <2>1. ActiveOn(d)' \subseteq ActiveOn(d) BY DEF ActiveOn
  <2>2. AboutToCreate(d)' \subseteq AboutToCreate(d) BY DEF AboutToCreate
  <2>3. Bounded(d) BY BoundedEach
  <2>. QED BY <2>1, <2>2, <2>3, BoundStays
<1>. QED BY <1>1 DEF ActiveSessionsBounded, Bounded, AboutToCreate

\* While one request is under way it is alone, before and after its step.
LEMMA OnlyOne ==
  ASSUME AloneInv, NEW h \in Requests, pc[h] # "idle"
  PROVE  \A g \in Requests \ {h} : pc[g] = "idle"
BY DEF AloneInv

LEMMA LoginKeeps ==
  ASSUME IInv, NEW h \in Requests, NEW d \in Devices, NEW u \in Users, Login(h, d, u)
  PROVE  IInv'
<1>1. /\ session' \in [Sessions -> Row]
      /\ \A s \in Sessions :
           /\ SameRow(s) /\ session'[s].hash = session[s].hash
           /\ session'[s].active = (session[s].active /\ session[s].device # d)
  BY RevokedAll DEF Login, IInv, TypeOK
<1>2. /\ pc[h] = "idle" /\ pc' = [pc EXCEPT ![h] = "revoked"]
      /\ call' = [call EXCEPT ![h] = [NoCall EXCEPT !.device = d, !.user = u]]
      /\ overlapped' = (overlapped \/ \E g \in Requests : pc[g] # "idle")
      /\ UNCHANGED <<clock, boundTo, issued, lost>>
  BY DEF Login, Begin, Goto
<1>3. TypeOK' BY <1>1, <1>2 DEF IInv, TypeOK, Call, NoCall, Pending
<1>4. /\ pc'[h] = "revoked" /\ call'[h].device = d /\ call'[h].user = u
      /\ \A g \in Requests \ {h} : pc'[g] = pc[g] /\ call'[g] = call[g]
  BY <1>2 DEF IInv, TypeOK, NoCall
<1>5. HeldInv'
  <2>1. ASSUME NEW g \in Requests PROVE HeldBy(g)'
    BY <1>1, <1>2, <1>4 DEF IInv, HeldInv, HeldBy, SameRow
  <2>2. \A t \in issued' : t.iat <= clock' /\ session'[t.session].device \in Devices
    BY <1>1, <1>2 DEF IInv, TypeOK, HeldInv, Token, SameRow
  <2>. QED BY <2>1, <2>2 DEF HeldInv
<1>6. ActiveSessionsBounded'
  <2>1. ASSUME NEW e \in Devices PROVE Bounded(e)'
    <3>1. CASE e = d
      <4>1. ActiveOn(d)' = {} BY <1>1 DEF ActiveOn, SameRow
      <4>. QED BY <3>1, <4>1, BoundAfterRevoke
    <3>2. CASE e # d
      <4>1. ActiveOn(e)' \subseteq ActiveOn(e) BY <1>1 DEF ActiveOn, SameRow
      <4>2. AboutToCreate(e)' \subseteq AboutToCreate(e) BY <1>4, <3>2 DEF AboutToCreate
      <4>. QED BY <4>1, <4>2, BoundStays, BoundedEach DEF IInv
    <3>. QED BY <3>1, <3>2
  <2>. QED BY <2>1 DEF ActiveSessionsBounded, Bounded, AboutToCreate
<1>7. ASSUME ~overlapped' PROVE AloneInv'
  <2>1. AloneInv /\ \A g \in Requests : pc[g] = "idle" BY <1>2, <1>7 DEF IInv
  <2>2. \A g, k \in Requests : pc'[g] # "idle" /\ pc'[k] # "idle" => g = k BY <1>4, <2>1
  <2>3. \A s, z \in Sessions : session'[s].active /\ session'[z].active
          /\ session'[s].device = session'[z].device => s = z
    BY <1>1, <2>1 DEF AloneInv, SameRow
  <2>4. ASSUME NEW g \in Requests PROVE LoginAlone(g)' /\ RefreshAlone(g)'
    <3>1. CASE g = h
      <4>1. \A s \in Sessions : session'[s].active => session'[s].device # d
        BY <1>1 DEF SameRow
      <4>. QED BY <3>1, <4>1, <1>4 DEF LoginAlone, RefreshAlone
    <3>2. CASE g # h
      <4>1. pc'[g] = "idle" BY <3>2, <1>4, <2>1
      <4>. QED BY <4>1 DEF LoginAlone, RefreshAlone
    <3>. QED BY <3>1, <3>2
  <2>5. \A t \in issued' : session'[t.session].active =>
          boundTo'[session'[t.session].device] = session'[t.session].user
    BY <1>1, <1>2, <2>1 DEF AloneInv, IInv, TypeOK, Token, SameRow
  <2>6. ASSUME NEW s \in Sessions PROVE Newest(s)'
    BY <1>1, <1>2, <2>1 DEF AloneInv, Newest, Answering
  <2>. QED BY <2>2, <2>3, <2>4, <2>5, <2>6 DEF AloneInv
<1>. QED BY <1>3, <1>5, <1>6, <1>7 DEF IInv

\* The clauses about the other requests, when one is alone after its step.
LEMMA OthersIdle ==
  ASSUME NEW h \in Requests, \A g \in Requests \ {h} : pc'[g] = "idle",
         LoginAlone(h)', RefreshAlone(h)'
  PROVE  /\ \A g, k \in Requests : pc'[g] # "idle" /\ pc'[k] # "idle" => g = k
         /\ \A g \in Requests : LoginAlone(g)' /\ RefreshAlone(g)'
<1>1. ASSUME NEW g \in Requests, pc'[g] = "idle" PROVE LoginAlone(g)' /\ RefreshAlone(g)'
  BY <1>1 DEF LoginAlone, RefreshAlone
<1>. QED BY <1>1

LEMMA CreateKeeps ==
  ASSUME IInv, NEW h \in Requests, NEW s \in Sessions, CreateSession(h, s)
  PROVE  IInv'
<1>. DEFINE d == call[h].device
            row == [device |-> d, user |-> call[h].user, active |-> TRUE, hash |-> Pending]
<1>1. /\ pc[h] = "revoked" /\ session[s] = NoRow
      /\ session' = [session EXCEPT ![s] = row]
      /\ call' = [call EXCEPT ![h].session = s, ![h].iat = clock]
      /\ pc' = [pc EXCEPT ![h] = "created"]
      /\ UNCHANGED <<clock, boundTo, issued, lost, overlapped>>
  BY DEF CreateSession, Goto
<1>2. d \in Devices /\ call[h].user \in Users BY <1>1 DEF IInv, HeldInv, HeldBy
<1>3. /\ session'[s] = row /\ \A z \in Sessions \ {s} : session'[z] = session[z]
      /\ pc'[h] = "created" /\ \A g \in Requests \ {h} : pc'[g] = pc[g] /\ call'[g] = call[g]
      /\ call'[h].device = d /\ call'[h].user = call[h].user
      /\ call'[h].session = s /\ call'[h].iat = clock
  BY <1>1 DEF IInv, TypeOK, Call
<1>4. session[s].device \notin Devices /\ ~session[s].active
  BY <1>1, SessionIdsAssumption DEF NoRow
<1>5. TypeOK'
  <2>1. row \in Row BY <1>2 DEF Row, Pending
  <2>2. session' \in [Sessions -> Row] BY <1>1, <2>1 DEF IInv, TypeOK
  <2>3. clock \in Nat BY MaxTimeAssumption DEF IInv, TypeOK
  <2>4. call' \in [Requests -> Call] BY <1>1, <2>3 DEF IInv, TypeOK, Call
  <2>. QED BY <1>1, <2>2, <2>4 DEF IInv, TypeOK
<1>6. \A t \in issued : t.session # s /\ t.session \in Sessions
  BY <1>4 DEF IInv, HeldInv, TypeOK, Token
<1>7. HeldInv'
  <2>1. HeldBy(h)'
    BY <1>1, <1>2, <1>3 DEF HeldBy, IInv, TypeOK
  <2>2. ASSUME NEW g \in Requests \ {h} PROVE HeldBy(g)'
    <3>1. HeldBy(g) BY DEF IInv, HeldInv
    <3>2. pc[g] \in {"created", "stored", "matched", "mismatched", "signed", "answering"}
            => call[g].session \in Sessions \ {s}
      BY <3>1, <1>4 DEF HeldBy
    <3>. QED BY <3>1, <3>2, <1>1, <1>3 DEF HeldBy
  <2>3. \A t \in issued' : t.iat <= clock' /\ session'[t.session].device \in Devices
    BY <1>1, <1>3, <1>6 DEF IInv, HeldInv
  <2>. QED BY <2>1, <2>2, <2>3 DEF HeldInv
<1>8. ActiveSessionsBounded'
  <2>1. ASSUME NEW e \in Devices PROVE Bounded(e)'
    <3>1. Bounded(e) BY BoundedEach DEF IInv
    <3>2. CASE e = d
      <4>1. h \in AboutToCreate(e) BY <1>1, <3>2 DEF AboutToCreate
      <4>2. ActiveOn(e)' \subseteq ActiveOn(e) \cup {s} BY <1>3 DEF ActiveOn
      <4>3. AboutToCreate(e)' \subseteq AboutToCreate(e) \ {h} BY <1>3 DEF AboutToCreate
      <4>. QED BY <3>1, <4>1, <4>2, <4>3, BoundAfterCreate
    <3>3. CASE e # d
      <4>1. ActiveOn(e)' \subseteq ActiveOn(e) BY <1>3, <3>3 DEF ActiveOn
      <4>2. AboutToCreate(e)' \subseteq AboutToCreate(e) BY <1>3, <3>3 DEF AboutToCreate
      <4>. QED BY <3>1, <4>1, <4>2, BoundStays
    <3>. QED BY <3>2, <3>3
  <2>. QED BY <2>1 DEF ActiveSessionsBounded, Bounded, AboutToCreate
<1>9. ASSUME ~overlapped' PROVE AloneInv'
  <2>1. AloneInv BY <1>1, <1>9 DEF IInv
  <2>2. \A g \in Requests \ {h} : pc[g] = "idle" BY <1>1, <2>1, OnlyOne
  <2>3. \A z \in Sessions : session[z].active => session[z].device # d
    BY <1>1, <2>1 DEF AloneInv, LoginAlone
  <2>4. LoginAlone(h)' /\ RefreshAlone(h)'
    BY <1>1, <1>3, <1>6, <2>3 DEF LoginAlone, RefreshAlone
  <2>5. \A y, z \in Sessions : session'[y].active /\ session'[z].active
          /\ session'[y].device = session'[z].device => y = z
    BY <1>3, <2>1, <2>3 DEF AloneInv
  <2>6. \A t \in issued' : session'[t.session].active =>
          boundTo'[session'[t.session].device] = session'[t.session].user
    BY <1>1, <1>3, <1>6, <2>1 DEF AloneInv
  <2>7. ASSUME NEW z \in Sessions PROVE Newest(z)'
    <3>1. CASE z = s BY <3>1, <1>1, <1>6 DEF Newest
    <3>2. CASE z # s
      <4>1. Newest(z) BY <1>1, <2>1, <2>2 DEF AloneInv, Answering
      <4>. QED BY <4>1, <3>2, <1>1, <1>3 DEF Newest
    <3>. QED BY <3>1, <3>2
  <2>8. \A g \in Requests \ {h} : pc'[g] = "idle" BY <1>3, <2>2
  <2>. QED BY <2>4, <2>5, <2>6, <2>7, <2>8, OthersIdle DEF AloneInv
<1>. QED BY <1>5, <1>7, <1>8, <1>9 DEF IInv

\* The login's token is stored: no client has one of this session yet.
LEMMA StoreLoginKeeps ==
  ASSUME IInv, NEW h \in Requests, StoreLoginToken(h)
  PROVE  IInv'
<1>. DEFINE s == call[h].session
<1>1. /\ pc[h] = "created" /\ UpdateRefreshToken(s, call[h].iat)
      /\ pc' = [pc EXCEPT ![h] = "stored"]
      /\ UNCHANGED <<clock, boundTo, issued, lost, call, overlapped>>
  BY DEF StoreLoginToken, Goto
<1>2. s \in Sessions /\ call[h].iat \in Nat
  BY <1>1 DEF IInv, TypeOK, HeldInv, HeldBy
<1>3. /\ session' \in [Sessions -> Row]
      /\ \A z \in Sessions :
           /\ SameRow(z) /\ session'[z].active = session[z].active
           /\ session'[z].hash = IF z = s THEN call[h].iat ELSE session[z].hash
  BY <1>1, <1>2, StoredOne DEF IInv, TypeOK
<1>4. pc'[h] = "stored" /\ \A g \in Requests \ {h} : pc'[g] = pc[g]
  BY <1>1 DEF IInv, TypeOK
<1>5. TypeOK' BY <1>1, <1>3 DEF IInv, TypeOK
<1>6. HeldInv'
  <2>1. ASSUME NEW g \in Requests PROVE HeldBy(g)'
    <3>1. HeldBy(g) BY DEF IInv, HeldInv
    <3>2. CASE g = h BY <3>1, <3>2, <1>1, <1>2, <1>3, <1>4 DEF HeldBy, SameRow
    <3>3. CASE g # h BY <3>1, <3>3, <1>1, <1>3, <1>4 DEF HeldBy, SameRow
    <3>. QED BY <3>2, <3>3
  <2>2. \A t \in issued' : t.iat <= clock' /\ session'[t.session].device \in Devices
    BY <1>1, <1>3 DEF IInv, TypeOK, HeldInv, Token, SameRow
  <2>. QED BY <2>1, <2>2 DEF HeldInv
<1>7. ActiveSessionsBounded' BY <1>1, <1>3, <1>4, BoundKept DEF IInv, SameRow
<1>8. ASSUME ~overlapped' PROVE AloneInv'
  <2>1. AloneInv BY <1>1, <1>8 DEF IInv
  <2>2. \A g \in Requests \ {h} : pc[g] = "idle" BY <1>1, <2>1, OnlyOne
  <2>3. LoginAlone(h) BY <2>1 DEF AloneInv
  <2>4. LoginAlone(h)' /\ RefreshAlone(h)'
    BY <1>1, <1>2, <1>3, <1>4, <2>3 DEF LoginAlone, RefreshAlone, SameRow
  <2>5. \A y, z \in Sessions : session'[y].active /\ session'[z].active
          /\ session'[y].device = session'[z].device => y = z
    BY <1>3, <2>1 DEF AloneInv, SameRow
  <2>6. \A t \in issued' : session'[t.session].active =>
          boundTo'[session'[t.session].device] = session'[t.session].user
    BY <1>1, <1>3, <2>1 DEF AloneInv, SameRow, IInv, TypeOK, Token
  <2>7. ASSUME NEW z \in Sessions PROVE Newest(z)'
    <3>1. CASE z = s BY <3>1, <1>1, <2>3 DEF Newest, LoginAlone
    <3>2. CASE z # s
      <4>1. Newest(z) BY <1>1, <2>1, <2>2 DEF AloneInv, Answering
      <4>. QED BY <4>1, <3>2, <1>1, <1>3 DEF Newest
    <3>. QED BY <3>1, <3>2
  <2>8. \A g \in Requests \ {h} : pc'[g] = "idle" BY <1>4, <2>2
  <2>. QED BY <2>4, <2>5, <2>6, <2>7, <2>8, OthersIdle DEF AloneInv
<1>. QED BY <1>5, <1>6, <1>7, <1>8 DEF IInv

\* The login ends: the client has the first token of its session.
LEMMA BindKeeps ==
  ASSUME IInv, NEW h \in Requests, BindDevice(h)
  PROVE  IInv'
<1>. DEFINE s == call[h].session
            d == call[h].device
            new == [session |-> s, iat |-> call[h].iat]
<1>1. /\ pc[h] = "stored" /\ boundTo' = [boundTo EXCEPT ![d] = call[h].user]
      /\ issued' = issued \cup {new}
      /\ pc' = [pc EXCEPT ![h] = "idle"] /\ call' = [call EXCEPT ![h] = NoCall]
      /\ UNCHANGED <<clock, session, lost, overlapped>>
  BY DEF BindDevice, Finish, Goto
<1>2. /\ s \in Sessions /\ call[h].iat \in 1..clock /\ d \in Devices /\ call[h].user \in Users
      /\ session[s].device = d /\ session[s].user = call[h].user
  BY <1>1 DEF IInv, HeldInv, HeldBy
<1>3. /\ boundTo'[d] = call[h].user /\ \A e \in Devices \ {d} : boundTo'[e] = boundTo[e]
      /\ pc'[h] = "idle" /\ \A g \in Requests \ {h} : pc'[g] = pc[g] /\ call'[g] = call[g]
  BY <1>1, <1>2 DEF IInv, TypeOK
<1>4. TypeOK'
  <2>1. new \in Token BY <1>2, MaxTimeAssumption DEF Token, IInv, TypeOK
  <2>2. NoCall \in Call BY DEF NoCall, Call, Pending
  <2>. QED BY <1>1, <1>2, <2>1, <2>2 DEF IInv, TypeOK
<1>5. HeldInv'
  <2>1. ASSUME NEW g \in Requests PROVE HeldBy(g)'
    <3>1. HeldBy(g) BY DEF IInv, HeldInv
    <3>. QED BY <3>1, <1>1, <1>3 DEF HeldBy
  <2>2. \A t \in issued' : t.iat <= clock' /\ session'[t.session].device \in Devices
    BY <1>1, <1>2 DEF IInv, HeldInv
  <2>. QED BY <2>1, <2>2 DEF HeldInv
<1>6. ActiveSessionsBounded' BY <1>1, <1>3, BoundKept DEF IInv
<1>7. ASSUME ~overlapped' PROVE AloneInv'
  <2>1. AloneInv BY <1>1, <1>7 DEF IInv
  <2>2. \A g \in Requests \ {h} : pc[g] = "idle" BY <1>1, <2>1, OnlyOne
  <2>3. LoginAlone(h) BY <2>1 DEF AloneInv
  <2>4. LoginAlone(h)' /\ RefreshAlone(h)' BY <1>3 DEF LoginAlone, RefreshAlone
  <2>5. \A y, z \in Sessions : session'[y].active /\ session'[z].active
          /\ session'[y].device = session'[z].device => y = z
    BY <1>1, <2>1 DEF AloneInv
  <2>6. ASSUME NEW t \in issued', session'[t.session].active
        PROVE  boundTo'[session'[t.session].device] = session'[t.session].user
    <3>1. CASE t.session = s BY <3>1, <1>1, <1>2, <1>3
    <3>2. CASE t.session # s
      <4>1. t \in issued /\ t.session \in Sessions BY <3>2, <1>1 DEF IInv, TypeOK, Token
      <4>2. session[t.session].device # d
        BY <4>1, <3>2, <2>6, <2>3, <1>1 DEF LoginAlone
      <4>3. session[t.session].device \in Devices BY <4>1 DEF IInv, HeldInv
      <4>4. boundTo[session[t.session].device] = session[t.session].user
        BY <4>1, <2>6, <1>1, <2>1 DEF AloneInv
      <4>. QED BY <4>2, <4>3, <4>4, <1>1, <1>3
    <3>. QED BY <3>1, <3>2
  <2>7. ASSUME NEW z \in Sessions PROVE Newest(z)'
    <3>1. CASE z = s
      <4>1. session[s].hash = call[h].iat BY <2>3, <1>1 DEF LoginAlone
      <4>2. \A t \in issued : t.session # s BY <2>3, <1>1 DEF LoginAlone
      <4>3. call[h].iat <= call[h].iat BY <1>2, MaxTimeAssumption DEF IInv, TypeOK
      <4>. QED BY <3>1, <4>1, <4>2, <4>3, <1>1 DEF Newest
    <3>2. CASE z # s
      <4>1. Newest(z) BY <1>1, <2>1, <2>2 DEF AloneInv, Answering
      <4>. QED BY <4>1, <3>2, <1>1 DEF Newest
    <3>. QED BY <3>1, <3>2
  <2>8. \A g \in Requests \ {h} : pc'[g] = "idle" BY <1>3, <2>2
  <2>. QED BY <2>4, <2>5, <2>6, <2>7, <2>8, OthersIdle DEF AloneInv
<1>. QED BY <1>4, <1>5, <1>6, <1>7 DEF IInv

LEMMA RefreshKeeps ==
  ASSUME IInv, NEW h \in Requests, NEW t \in issued, Refresh(h, t)
  PROVE  IInv'
<1>1. /\ pc[h] = "idle" /\ overlapped' = (overlapped \/ \E g \in Requests : pc[g] # "idle")
      /\ call' = [call EXCEPT ![h].session = t.session]
      /\ \/ pc' = [pc EXCEPT ![h] = "matched"]
         \/ pc' = [pc EXCEPT ![h] = "mismatched"]
      /\ UNCHANGED <<clock, boundTo, session, issued, lost>>
  BY DEF Refresh, Begin, Goto, rows
<1>2. t.session \in Sessions /\ session[t.session].device \in Devices
  BY DEF IInv, TypeOK, Token, HeldInv
<1>3. /\ pc'[h] \in {"matched", "mismatched"} /\ call'[h].session = t.session
      /\ \A g \in Requests \ {h} : pc'[g] = pc[g] /\ call'[g] = call[g]
  BY <1>1 DEF IInv, TypeOK, Call
<1>4. TypeOK'
  <2>1. call' \in [Requests -> Call] BY <1>1, <1>2 DEF IInv, TypeOK, Call
  <2>2. overlapped' \in BOOLEAN BY <1>1 DEF IInv, TypeOK
  <2>3. pc' \in [Requests -> {"idle", "revoked", "created", "stored", "matched", "mismatched",
                              "signed", "answering"}]
    BY <1>1 DEF IInv, TypeOK
  <2>. QED BY <1>1, <2>1, <2>2, <2>3 DEF IInv, TypeOK
<1>5. HeldInv'
  <2>1. ASSUME NEW g \in Requests PROVE HeldBy(g)'
    <3>1. HeldBy(g) BY DEF IInv, HeldInv
    <3>2. CASE g = h BY <3>2, <1>1, <1>2, <1>3 DEF HeldBy
    <3>3. CASE g # h BY <3>1, <3>3, <1>1, <1>3 DEF HeldBy
    <3>. QED BY <3>2, <3>3
  <2>. QED BY <2>1, <1>1 DEF IInv, HeldInv
<1>6. ActiveSessionsBounded' BY <1>1, <1>3, BoundKept DEF IInv
<1>7. ASSUME ~overlapped' PROVE AloneInv'
  <2>1. AloneInv /\ \A g \in Requests : pc[g] = "idle" BY <1>1, <1>7 DEF IInv
  <2>2. LoginAlone(h)' /\ RefreshAlone(h)' BY <1>1, <1>3 DEF LoginAlone, RefreshAlone
  <2>3. ASSUME NEW z \in Sessions PROVE Newest(z)'
    <3>1. Newest(z) BY <2>1 DEF AloneInv, Answering
    <3>. QED BY <3>1, <1>1 DEF Newest
  <2>4. \A g \in Requests \ {h} : pc'[g] = "idle" BY <1>3, <2>1
  <2>. QED BY <1>1, <2>1, <2>2, <2>3, <2>4, OthersIdle DEF AloneInv
<1>. QED BY <1>4, <1>5, <1>6, <1>7 DEF IInv

\* Sessions are revoked, by a mismatch or a logout, or a request is forgotten:
\* nothing is stored and no token given.
LEMMA LosingKeeps ==
  ASSUME IInv, session' \in [Sessions -> Row],
         \A s \in Sessions : /\ SameRow(s) /\ session'[s].hash = session[s].hash
                             /\ session'[s].active => session[s].active,
         UNCHANGED <<clock, boundTo, issued, overlapped>>,
         NEW Gone \in SUBSET Requests,
         pc' = [g \in Requests |-> IF g \in Gone THEN "idle" ELSE pc[g]],
         call' = [g \in Requests |-> IF g \in Gone THEN NoCall ELSE call[g]],
         lost' \in SUBSET Sessions, lost \subseteq lost',
         \A g \in Gone : pc[g] = "answering" => call[g].session \in lost'
  PROVE  IInv'
<1>1. TypeOK'
  <2>1. NoCall \in Call BY DEF NoCall, Call, Pending
  <2>2. call' \in [Requests -> Call] BY <2>1 DEF IInv, TypeOK
  <2>3. pc' \in [Requests -> {"idle", "revoked", "created", "stored", "matched", "mismatched",
                              "signed", "answering"}]
    BY DEF IInv, TypeOK
  <2>. QED BY <2>2, <2>3 DEF IInv, TypeOK
<1>2. \A g \in Requests : pc'[g] = "idle" \/ (pc'[g] = pc[g] /\ call'[g] = call[g])
  OBVIOUS
<1>3. HeldInv'
  <2>1. ASSUME NEW g \in Requests PROVE HeldBy(g)'
    <3>1. HeldBy(g) BY DEF IInv, HeldInv
    <3>. QED BY <3>1, <1>2 DEF HeldBy, SameRow
  <2>2. \A t \in issued' : t.iat <= clock' /\ session'[t.session].device \in Devices
    BY DEF IInv, TypeOK, HeldInv, Token, SameRow
  <2>. QED BY <2>1, <2>2 DEF HeldInv
<1>4. ActiveSessionsBounded'
  <2>1. \A g \in Requests : pc'[g] = "revoked" => pc[g] = "revoked" /\ call'[g] = call[g]
    BY <1>2
  <2>. QED BY <2>1, BoundKept DEF IInv, SameRow
<1>5. ASSUME ~overlapped' PROVE AloneInv'
  <2>1. AloneInv BY <1>5 DEF IInv
  <2>2. \A g, k \in Requests : pc'[g] # "idle" /\ pc'[k] # "idle" => g = k
    BY <2>1, <1>2 DEF AloneInv
  <2>3. \A y, z \in Sessions : session'[y].active /\ session'[z].active
          /\ session'[y].device = session'[z].device => y = z
    BY <2>1 DEF AloneInv, SameRow
  <2>4. ASSUME NEW g \in Requests PROVE LoginAlone(g)' /\ RefreshAlone(g)'
    <3>1. CASE pc'[g] = "idle" BY <3>1 DEF LoginAlone, RefreshAlone
    <3>2. CASE pc'[g] = pc[g] /\ call'[g] = call[g]
      <4>1. LoginAlone(g) /\ RefreshAlone(g) /\ HeldBy(g) BY <2>1 DEF AloneInv, IInv, HeldInv
      <4>2. LoginAlone(g)' BY <4>1, <3>2 DEF LoginAlone, HeldBy, SameRow
      <4>3. RefreshAlone(g)' BY <4>1, <3>2 DEF RefreshAlone, HeldBy, SameRow
      <4>. QED BY <4>2, <4>3
    <3>. QED BY <3>1, <3>2, <1>2
  <2>5. \A t \in issued' : session'[t.session].active =>
          boundTo'[session'[t.session].device] = session'[t.session].user
    BY <2>1 DEF AloneInv, SameRow, IInv, TypeOK, Token
  <2>6. ASSUME NEW z \in Sessions PROVE Newest(z)' \/ Answering(z)'
    <3>1. CASE Newest(z) BY <3>1 DEF Newest
    <3>2. CASE Answering(z)
      <4>1. PICK g \in Requests : pc[g] = "answering" /\ call[g].session = z
        BY <3>2 DEF Answering
      <4>2. CASE g \in Gone BY <4>1, <4>2 DEF Newest
      <4>3. CASE g \notin Gone BY <4>1, <4>3 DEF Answering
      <4>. QED BY <4>2, <4>3
    <3>. QED BY <3>1, <3>2, <2>1 DEF AloneInv
  <2>. QED BY <2>2, <2>3, <2>4, <2>5, <2>6 DEF AloneInv
<1>. QED BY <1>1, <1>3, <1>4, <1>5 DEF IInv

LEMMA MismatchKeeps ==
  ASSUME IInv, NEW h \in Requests, RevokeMismatched(h)
  PROVE  IInv'
<1>1. /\ pc[h] = "mismatched" /\ Revoke(call[h].session)
      /\ pc' = [pc EXCEPT ![h] = "idle"] /\ call' = [call EXCEPT ![h] = NoCall]
      /\ UNCHANGED <<clock, boundTo, issued, lost, overlapped>>
  BY DEF RevokeMismatched, Finish, Goto
<1>2. call[h].session \in Sessions BY <1>1 DEF IInv, HeldInv, HeldBy
<1>3. /\ session' \in [Sessions -> Row]
      /\ \A s \in Sessions : /\ SameRow(s) /\ session'[s].hash = session[s].hash
                             /\ session'[s].active => session[s].active
  BY <1>1, <1>2, RevokedOne DEF IInv, TypeOK
<1>4. /\ pc' = [g \in Requests |-> IF g \in {h} THEN "idle" ELSE pc[g]]
      /\ call' = [g \in Requests |-> IF g \in {h} THEN NoCall ELSE call[g]]
  BY <1>1 DEF IInv, TypeOK
<1>5. lost' \in SUBSET Sessions /\ lost \subseteq lost' BY <1>1 DEF IInv, TypeOK
<1>6. {h} \in SUBSET Requests /\ \A g \in {h} : pc[g] # "answering" BY <1>1
<1>. QED BY <1>1, <1>3, <1>4, <1>5, <1>6, LosingKeeps

LEMMA DropKeeps ==
  ASSUME IInv, NEW h \in Requests, Drop(h)
  PROVE  IInv'
<1>1. /\ lost' = IF pc[h] \in {"stored", "answering"} THEN lost \cup {call[h].session} ELSE lost
      /\ pc' = [pc EXCEPT ![h] = "idle"] /\ call' = [call EXCEPT ![h] = NoCall]
      /\ UNCHANGED <<clock, boundTo, session, issued, overlapped>>
  BY DEF Drop, Finish, Goto, rows
<1>2. pc[h] \in {"stored", "answering"} => call[h].session \in Sessions
  BY DEF IInv, HeldInv, HeldBy
<1>3. /\ session' \in [Sessions -> Row]
      /\ \A s \in Sessions : /\ SameRow(s) /\ session'[s].hash = session[s].hash
                             /\ session'[s].active => session[s].active
  BY <1>1 DEF IInv, TypeOK, SameRow
<1>4. /\ pc' = [g \in Requests |-> IF g \in {h} THEN "idle" ELSE pc[g]]
      /\ call' = [g \in Requests |-> IF g \in {h} THEN NoCall ELSE call[g]]
  BY <1>1 DEF IInv, TypeOK
<1>5. lost' \in SUBSET Sessions /\ lost \subseteq lost' BY <1>1, <1>2 DEF IInv, TypeOK
<1>6. {h} \in SUBSET Requests /\ \A g \in {h} : pc[g] = "answering" => call[g].session \in lost'
  BY <1>1
<1>. QED BY <1>1, <1>3, <1>4, <1>5, <1>6, LosingKeeps

LEMMA LogoutKeeps ==
  ASSUME IInv, NEW d \in Devices, LogoutDevice(d)
  PROVE  IInv'
<1>1. RevokeAllForDevice(d) /\ UNCHANGED <<clock, boundTo, issued, lost, pc, call, overlapped>>
  BY DEF LogoutDevice
<1>3. /\ session' \in [Sessions -> Row]
      /\ \A s \in Sessions : /\ SameRow(s) /\ session'[s].hash = session[s].hash
                             /\ session'[s].active => session[s].active
  BY <1>1, RevokedAll DEF IInv, TypeOK
<1>4. /\ pc' = [g \in Requests |-> IF g \in {} THEN "idle" ELSE pc[g]]
      /\ call' = [g \in Requests |-> IF g \in {} THEN NoCall ELSE call[g]]
  BY <1>1 DEF IInv, TypeOK
<1>5. lost' \in SUBSET Sessions /\ lost \subseteq lost' BY <1>1 DEF IInv, TypeOK
<1>6. {} \in SUBSET Requests /\ \A g \in {} : pc[g] # "answering" OBVIOUS
<1>. QED BY <1>1, <1>3, <1>4, <1>5, <1>6, LosingKeeps

\* The clock goes on, or nothing changes.
LEMMA TickKeeps ==
  ASSUME IInv, Tick \/ UNCHANGED vars
  PROVE  IInv'
<1>1. /\ UNCHANGED <<boundTo, session, issued, lost, pc, call, overlapped>>
      /\ clock' = clock \/ (clock < MaxTime /\ clock' = clock + 1)
  BY DEF Tick, vars, rows
<1>2. clock' \in 1..MaxTime /\ clock' >= clock /\ clock \in Nat /\ clock' \in Nat
  BY <1>1, MaxTimeAssumption DEF IInv, TypeOK
<1>3. TypeOK' BY <1>1, <1>2 DEF IInv, TypeOK
<1>4. HeldInv'
  <2>1. ASSUME NEW g \in Requests PROVE HeldBy(g)'
    <3>1. HeldBy(g) /\ call[g].iat \in Nat BY DEF IInv, HeldInv, TypeOK, Call
    <3>. QED BY <3>1, <1>1, <1>2 DEF HeldBy
  <2>2. \A t \in issued' : t.iat <= clock' /\ session'[t.session].device \in Devices
    BY <1>1, <1>2 DEF IInv, TypeOK, HeldInv, Token
  <2>. QED BY <2>1, <2>2 DEF HeldInv
<1>5. ActiveSessionsBounded' BY <1>1, BoundKept DEF IInv
<1>6. AloneInv => AloneInv'
  BY <1>1 DEF AloneInv, LoginAlone, RefreshAlone, Newest, Answering
<1>. QED BY <1>1, <1>3, <1>4, <1>5, <1>6 DEF IInv

\* The new token is signed now, so it is as new as any a client has.
LEMMA SignKeeps ==
  ASSUME IInv, NEW h \in Requests, SignRefreshed(h)
  PROVE  IInv'
<1>1. /\ pc[h] = "matched" /\ call' = [call EXCEPT ![h].iat = clock]
      /\ pc' = [pc EXCEPT ![h] = "signed"]
      /\ UNCHANGED <<clock, boundTo, session, issued, lost, overlapped>>
  BY DEF SignRefreshed, Goto, rows
<1>2. clock \in Nat /\ clock \in 1..clock BY MaxTimeAssumption DEF IInv, TypeOK
<1>3. /\ pc'[h] = "signed" /\ call'[h].iat = clock /\ call'[h].session = call[h].session
      /\ call'[h].device = call[h].device /\ call'[h].user = call[h].user
      /\ \A g \in Requests \ {h} : pc'[g] = pc[g] /\ call'[g] = call[g]
  BY <1>1 DEF IInv, TypeOK, Call
<1>4. TypeOK' BY <1>1, <1>2 DEF IInv, TypeOK, Call
<1>5. HeldInv'
  <2>1. ASSUME NEW g \in Requests PROVE HeldBy(g)'
    <3>1. HeldBy(g) BY DEF IInv, HeldInv
    <3>2. CASE g = h BY <3>1, <3>2, <1>1, <1>2, <1>3 DEF HeldBy
    <3>3. CASE g # h BY <3>1, <3>3, <1>1, <1>3 DEF HeldBy
    <3>. QED BY <3>2, <3>3
  <2>. QED BY <2>1, <1>1 DEF IInv, HeldInv
<1>6. ActiveSessionsBounded' BY <1>1, <1>3, BoundKept DEF IInv
<1>7. ASSUME ~overlapped' PROVE AloneInv'
  <2>1. AloneInv BY <1>1, <1>7 DEF IInv
  <2>2. \A g \in Requests \ {h} : pc[g] = "idle" BY <1>1, <2>1, OnlyOne
  <2>3. RefreshAlone(h) /\ \A t \in issued : t.iat <= clock
    BY <2>1 DEF AloneInv, IInv, HeldInv
  <2>4. LoginAlone(h)' /\ RefreshAlone(h)'
    BY <1>1, <1>3, <2>3 DEF LoginAlone, RefreshAlone
  <2>5. ASSUME NEW z \in Sessions PROVE Newest(z)'
    <3>1. Newest(z) BY <1>1, <2>1, <2>2 DEF AloneInv, Answering
    <3>. QED BY <3>1, <1>1 DEF Newest
  <2>6. \A g \in Requests \ {h} : pc'[g] = "idle" BY <1>3, <2>2
  <2>. QED BY <1>1, <2>1, <2>4, <2>5, <2>6, OthersIdle DEF AloneInv
<1>. QED BY <1>4, <1>5, <1>6, <1>7 DEF IInv

\* The new hash is stored; whoever asks before the answer has an older token.
LEMMA StoreRefreshKeeps ==
  ASSUME IInv, NEW h \in Requests, StoreRefreshed(h)
  PROVE  IInv'
<1>. DEFINE s == call[h].session
<1>1. /\ pc[h] = "signed" /\ UpdateRefreshToken(s, call[h].iat)
      /\ pc' = [pc EXCEPT ![h] = "answering"]
      /\ UNCHANGED <<clock, boundTo, issued, lost, call, overlapped>>
  BY DEF StoreRefreshed, Goto
<1>2. s \in Sessions /\ call[h].iat \in Nat
  BY <1>1 DEF IInv, TypeOK, HeldInv, HeldBy
<1>3. /\ session' \in [Sessions -> Row]
      /\ \A z \in Sessions :
           /\ SameRow(z) /\ session'[z].active = session[z].active
           /\ session'[z].hash = IF z = s THEN call[h].iat ELSE session[z].hash
  BY <1>1, <1>2, StoredOne DEF IInv, TypeOK
<1>4. pc'[h] = "answering" /\ \A g \in Requests \ {h} : pc'[g] = pc[g]
  BY <1>1 DEF IInv, TypeOK
<1>5. TypeOK' BY <1>1, <1>3 DEF IInv, TypeOK
<1>6. HeldInv'
  <2>1. ASSUME NEW g \in Requests PROVE HeldBy(g)'
    <3>1. HeldBy(g) BY DEF IInv, HeldInv
    <3>2. CASE g = h BY <3>1, <3>2, <1>1, <1>2, <1>3, <1>4 DEF HeldBy, SameRow
    <3>3. CASE g # h BY <3>1, <3>3, <1>1, <1>3, <1>4 DEF HeldBy, SameRow
    <3>. QED BY <3>2, <3>3
  <2>2. \A t \in issued' : t.iat <= clock' /\ session'[t.session].device \in Devices
    BY <1>1, <1>3 DEF IInv, TypeOK, HeldInv, Token, SameRow
  <2>. QED BY <2>1, <2>2 DEF HeldInv
<1>7. ActiveSessionsBounded' BY <1>1, <1>3, <1>4, BoundKept DEF IInv, SameRow
<1>8. ASSUME ~overlapped' PROVE AloneInv'
  <2>1. AloneInv BY <1>1, <1>8 DEF IInv
  <2>2. \A g \in Requests \ {h} : pc[g] = "idle" BY <1>1, <2>1, OnlyOne
  <2>3. RefreshAlone(h) BY <2>1 DEF AloneInv
  <2>4. LoginAlone(h)' /\ RefreshAlone(h)'
    BY <1>1, <1>2, <1>3, <1>4, <2>3 DEF LoginAlone, RefreshAlone
  <2>5. \A y, z \in Sessions : session'[y].active /\ session'[z].active
          /\ session'[y].device = session'[z].device => y = z
    BY <1>3, <2>1 DEF AloneInv, SameRow
  <2>6. \A t \in issued' : session'[t.session].active =>
          boundTo'[session'[t.session].device] = session'[t.session].user
    BY <1>1, <1>3, <2>1 DEF AloneInv, SameRow, IInv, TypeOK, Token
  <2>7. ASSUME NEW z \in Sessions PROVE Newest(z)' \/ Answering(z)'
    <3>1. CASE z = s BY <3>1, <1>1, <1>4 DEF Answering
    <3>2. CASE z # s
      <4>1. Newest(z) BY <1>1, <2>1, <2>2 DEF AloneInv, Answering
      <4>. QED BY <4>1, <3>2, <1>1, <1>3 DEF Newest
    <3>. QED BY <3>1, <3>2
  <2>8. \A g \in Requests \ {h} : pc'[g] = "idle" BY <1>4, <2>2
  <2>. QED BY <2>4, <2>5, <2>6, <2>7, <2>8, OthersIdle DEF AloneInv
<1>. QED BY <1>5, <1>6, <1>7, <1>8 DEF IInv

LEMMA AnswerKeeps ==
  ASSUME IInv, NEW h \in Requests, AnswerRefresh(h)
  PROVE  IInv'
<1>. DEFINE s == call[h].session
            new == [session |-> s, iat |-> call[h].iat]
<1>1. /\ pc[h] = "answering" /\ issued' = issued \cup {new}
      /\ pc' = [pc EXCEPT ![h] = "idle"] /\ call' = [call EXCEPT ![h] = NoCall]
      /\ UNCHANGED <<clock, boundTo, session, lost, overlapped>>
  BY DEF AnswerRefresh, Finish, Goto, rows
<1>2. s \in Sessions /\ call[h].iat \in 1..clock /\ session[s].device \in Devices
  BY <1>1 DEF IInv, HeldInv, HeldBy
<1>3. pc'[h] = "idle" /\ \A g \in Requests \ {h} : pc'[g] = pc[g] /\ call'[g] = call[g]
  BY <1>1 DEF IInv, TypeOK
<1>4. TypeOK'
  <2>1. new \in Token BY <1>2, MaxTimeAssumption DEF Token, IInv, TypeOK
  <2>2. NoCall \in Call BY DEF NoCall, Call, Pending
  <2>. QED BY <1>1, <2>1, <2>2 DEF IInv, TypeOK
<1>5. HeldInv'
  <2>1. ASSUME NEW g \in Requests PROVE HeldBy(g)'
    <3>1. HeldBy(g) BY DEF IInv, HeldInv
    <3>. QED BY <3>1, <1>1, <1>3 DEF HeldBy
  <2>2. \A t \in issued' : t.iat <= clock' /\ session'[t.session].device \in Devices
    BY <1>1, <1>2 DEF IInv, HeldInv
  <2>. QED BY <2>1, <2>2 DEF HeldInv
<1>6. ActiveSessionsBounded' BY <1>1, <1>3, BoundKept DEF IInv
<1>7. ASSUME ~overlapped' PROVE AloneInv'
  <2>1. AloneInv BY <1>1, <1>7 DEF IInv
  <2>2. \A g \in Requests \ {h} : pc[g] = "idle" BY <1>1, <2>1, OnlyOne
  <2>3. /\ session[s].hash = call[h].iat
        /\ \A t \in issued : t.session = s => t.iat <= call[h].iat
        /\ \E t \in issued : t.session = s
    BY <2>1, <1>1 DEF AloneInv, RefreshAlone
  <2>4. LoginAlone(h)' /\ RefreshAlone(h)' BY <1>3 DEF LoginAlone, RefreshAlone
  <2>5. \A t \in issued' : session'[t.session].active =>
          boundTo'[session'[t.session].device] = session'[t.session].user
    BY <1>1, <2>1, <2>3 DEF AloneInv
  <2>6. ASSUME NEW z \in Sessions PROVE Newest(z)'
    <3>1. CASE z = s
      <4>1. call[h].iat <= call[h].iat BY <1>2, MaxTimeAssumption DEF IInv, TypeOK
      <4>. QED BY <3>1, <4>1, <2>3, <1>1 DEF Newest
    <3>2. CASE z # s
      <4>1. Newest(z) BY <1>1, <2>1, <2>2, <3>2 DEF AloneInv, Answering
      <4>. QED BY <4>1, <3>2, <1>1 DEF Newest
    <3>. QED BY <3>1, <3>2
  <2>7. \A g \in Requests \ {h} : pc'[g] = "idle" BY <1>3, <2>2
  <2>. QED BY <1>1, <2>1, <2>4, <2>5, <2>6, <2>7, OthersIdle DEF AloneInv
<1>. QED BY <1>4, <1>5, <1>6, <1>7 DEF IInv

-----------------------------------------------------------------------------
(* The theorems *)

\* The inductive invariant: nobody ever holds a session that does not exist, and
\* a request that has overlapped no other still sees what it read when it writes.
THEOREM Invariance == Spec => []IInv
<1>1. Init => IInv
  <2>. SUFFICES ASSUME Init PROVE IInv OBVIOUS
  <2>1. TypeOK
    <3>1. NoRow \in Row BY DEF NoRow, Row, Pending
    <3>2. NoCall \in Call BY DEF NoCall, Call, Pending
    <3>3. 1 \in 1..MaxTime BY MaxTimeAssumption
    <3>. QED BY <3>1, <3>2, <3>3 DEF Init, TypeOK
  <2>2. HeldInv BY DEF Init, HeldInv, HeldBy
  <2>3. ActiveSessionsBounded
    <3>1. ASSUME NEW d \in Devices PROVE Bounded(d)
      <4>1. ActiveOn(d) = {} BY DEF Init, ActiveOn, NoRow
      <4>2. AboutToCreate(d) = {} BY DEF Init, AboutToCreate
      <4>. QED BY <4>1, <4>2, CountsFinite, FS_EmptySet DEF Bounded
    <3>. QED BY <3>1, BoundedEach
  <2>4. AloneInv
    BY DEF Init, AloneInv, LoginAlone, RefreshAlone, Newest, NoRow
  <2>. QED BY <2>1, <2>2, <2>3, <2>4 DEF IInv
<1>2. IInv /\ [Next]_vars => IInv'
  <2>. SUFFICES ASSUME IInv, [Next]_vars PROVE IInv' OBVIOUS
  <2>1. CASE Tick \/ Quiet \/ UNCHANGED vars BY <2>1, TickKeeps DEF Quiet
  <2>2. ASSUME NEW h \in Requests, NEW d \in Devices, NEW u \in Users, Login(h, d, u)
        PROVE  IInv'
    BY <2>2, LoginKeeps
  <2>3. ASSUME NEW h \in Requests, NEW s \in Sessions, CreateSession(h, s) PROVE IInv'
    BY <2>3, CreateKeeps
  <2>4. ASSUME NEW h \in Requests, NEW t \in issued, Refresh(h, t) PROVE IInv'
    BY <2>4, RefreshKeeps
  <2>5. ASSUME NEW h \in Requests,
               \/ StoreLoginToken(h) \/ BindDevice(h) \/ RevokeMismatched(h)
               \/ SignRefreshed(h) \/ StoreRefreshed(h) \/ AnswerRefresh(h) \/ Drop(h)
        PROVE  IInv'
    BY <2>5, StoreLoginKeeps, BindKeeps, MismatchKeeps, SignKeeps, StoreRefreshKeeps,
       AnswerKeeps, DropKeeps
  <2>6. ASSUME NEW d \in Devices, LogoutDevice(d) PROVE IInv' BY <2>6, LogoutKeeps
  <2>. QED BY <2>1, <2>2, <2>3, <2>4, <2>5, <2>6 DEF Next
<1>. QED BY <1>1, <1>2, PTL DEF Spec

\* Login, refresh and logout of v2-auth.service.ts: the bound on a device's active
\* sessions under any overlap, and one session, bound to its user, without.
THEOREM SessionsHold == Spec => []SessionInv
<1>1. IInv => SessionInv
  <2>. SUFFICES ASSUME IInv PROVE SessionInv OBVIOUS
  <2>1. ASSUME ~overlapped, NEW d \in Devices PROVE Cardinality(ActiveOn(d)) <= 1
    <3>1. \A s, z \in ActiveOn(d) : s = z BY <2>1 DEF IInv, AloneInv, ActiveOn
    <3>2. CASE ActiveOn(d) = {} BY <3>2, FS_EmptySet
    <3>3. CASE ActiveOn(d) # {}
      <4>1. PICK s : s \in ActiveOn(d) BY <3>3
      <4>2. ActiveOn(d) = {s} BY <3>1, <4>1
      <4>. QED BY <4>2, FS_Singleton
    <3>. QED BY <3>2, <3>3
  <2>2. ~overlapped => DeviceBoundToHolder BY DEF IInv, AloneInv, DeviceBoundToHolder
  <2>. QED BY <2>1, <2>2 DEF IInv, SessionInv, OneActiveUnlessOverlapped, OneActiveSession,
                             DeviceBoundToHolder
<1>. QED BY <1>1, Invariance, PTL

\* Rotation of refresh tokens: the newest one a client was given is the one stored,
\* unless a newer one was lost.
THEOREM NewestWorks == Spec => []NewestTokenRefreshes
<1>1. IInv => NewestTokenRefreshes
  <2>. SUFFICES ASSUME IInv, ~overlapped, NEW s \in Sessions,
                       session[s].active, IssuedFor(s) # {}, s \notin lost,
                       \A h \in Requests : call[h].session # s
                PROVE  session[s].hash = Max(IssuedFor(s))
    BY DEF NewestTokenRefreshes
  <2>1. Newest(s) BY DEF IInv, AloneInv, Answering
  <2>2. session[s].hash \in IssuedFor(s) /\ \A i \in IssuedFor(s) : i <= session[s].hash
    BY <2>1 DEF Newest, IssuedFor
  <2>3. IssuedFor(s) \subseteq Nat /\ session[s].hash \in Nat
    BY DEF IssuedFor, IInv, TypeOK, Token, Row
  <2>. QED BY <2>2, <2>3 DEF Max
<1>. QED BY <1>1, Invariance, PTL

\* updateRefreshToken and bindToUser write without a condition, and yet no step of
\* any request makes a revoked session active again.
THEOREM RevokedStays == Spec => RevokedForGood
<1>1. IInv /\ [Next]_vars
        => [\A s \in Sessions : session[s] # NoRow /\ ~session[s].active => ~session'[s].active]_vars
  <2>. SUFFICES ASSUME IInv, Next, NEW s \in Sessions, session[s] # NoRow, ~session[s].active
                PROVE  ~session'[s].active
    OBVIOUS
  <2>1. session \in [Sessions -> Row] BY DEF IInv, TypeOK
  <2>2. CASE UNCHANGED session BY <2>2
  <2>3. ASSUME NEW d, RevokeAllForDevice(d) PROVE ~session'[s].active
    BY <2>1, <2>3, RevokedAll
  <2>4. ASSUME NEW h \in Requests, NEW z \in Sessions, CreateSession(h, z)
        PROVE  ~session'[s].active
    BY <2>1, <2>4 DEF CreateSession
  <2>5. ASSUME NEW h \in Requests, StoreLoginToken(h) \/ StoreRefreshed(h)
        PROVE  ~session'[s].active
    BY <2>1, <2>5 DEF StoreLoginToken, StoreRefreshed, UpdateRefreshToken, Row
  <2>6. ASSUME NEW h \in Requests, RevokeMismatched(h) PROVE ~session'[s].active
    BY <2>1, <2>6 DEF RevokeMismatched, Revoke, Row
  <2>. QED BY <2>2, <2>3, <2>4, <2>5, <2>6
    DEF Next, Tick, Quiet, vars, rows, Login, BindDevice, Refresh, SignRefreshed,
        AnswerRefresh, Drop, LogoutDevice
<1>. QED BY <1>1, Invariance, PTL DEF Spec, RevokedForGood
=============================================================================

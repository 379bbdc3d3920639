------------------------------- MODULE PushV1 -------------------------------
(***************************************************************************)
(* Push delivery of API v1: domain/devices and domain/notifications.  A    *)
(* phone's token has at most one registration (unique per tenant), which   *)
(* names a user or a master; phones change hands.  sendToRecipients runs   *)
(* inside the request that caused it, while registrations come and go:     *)
(* it records a history row per recipient, lists the tokens, sends them    *)
(* batch by batch and deletes those Firebase calls UNREGISTERED.  Titles   *)
(* and bodies are left out; so is lastSeenAt, which only orders the list.  *)
(***************************************************************************)
EXTENDS Naturals, Sequences, FiniteSets, SequencesExt

CONSTANTS
  Users, Masters, Tokens, NoOne, Gone,
  Callers,            \* device requests the API can have in flight
  Deliveries,         \* calls of sendToRecipients
  BatchSize,          \* 100 in the code
  MaxRegistrations    \* bound: registrations are created below this number

ASSUME PushAssumption ==
  /\ Users \cap Masters = {} /\ NoOne \notin Users \cup Masters
  /\ BatchSize \in Nat \ {0} /\ MaxRegistrations \in Nat /\ IsFiniteSet(Tokens)

VARIABLES
  reg,                \* DeviceRegistration, by token
  nextReg,            \* the next row id
  call,               \* what each device request is doing
  delivery,           \* what each delivery is doing
  fcm,                \* the credentials are configured
  dead,               \* external: tokens Firebase no longer knows
  holder,             \* history: who last registered each token, as answered
  recorded,           \* NotificationHistory: <<delivery, recipient>>
  heard               \* history: <<delivery, token, holder when listed>>

deviceVars == <<reg, nextReg, holder>>
pushVars == <<reg, nextReg, call, delivery, fcm, dead, holder, recorded, heard>>

People == Users \cup Masters

\* A registration: its row id, the two owner columns, notificationsEnabled.
Registration == [id : 1..MaxRegistrations, userId : Users \cup {NoOne},
                 masterUserId : Masters \cup {NoOne}, enabled : BOOLEAN]
ASSUME GoneAssumption == Gone \notin Registration

Free == [step |-> "free"]

Column(set, p) == IF p \in set THEN p ELSE NoOne
Owns(p, row) == row # Gone /\ p \in {row.userId, row.masterUserId}

-----------------------------------------------------------------------------
(* Registration: devices.service and devices.repository *)

PushInit ==
  /\ reg = [t \in Tokens |-> Gone]
  /\ nextReg = 1
  /\ call = [c \in Callers |-> Free]
  /\ delivery = [d \in Deliveries |-> [step |-> "new"]]
  /\ fcm \in BOOLEAN
  /\ dead = {}
  /\ holder = [t \in Tokens |-> NoOne]
  /\ recorded = {}
  /\ heard = {}

\* register: findFirst by token.
FindRegistration(c, p, t, on) ==
  /\ call[c] = Free
  /\ call' = [call EXCEPT ![c] = [step |-> "upsert", who |-> p, token |-> t, on |-> on,
                                  existing |-> IF reg[t] = Gone THEN 0 ELSE reg[t].id]]
  /\ UNCHANGED <<deviceVars, delivery, fcm, dead, recorded, heard>>

\* Mutant: the owner that is not given keeps its column.
OwnersKept(old, p) ==
  [old EXCEPT !.userId = IF p \in Users THEN p ELSE @,
              !.masterUserId = IF p \in Masters THEN p ELSE @]

\* The update sets both owner columns, the one not given to null.
Owners(old, p) ==
  [old EXCEPT !.userId = Column(Users, p), !.masterUserId = Column(Masters, p)]

\* upsert: updateMany by the id that was found, which may have gone since, or
\* create; a token that has arrived since is refused by the unique index, and
\* the request fails (DropCall).
WriteRegistration(c) ==
  /\ call[c].step = "upsert"
  /\ LET o == call[c]  t == o.token IN
     \/ /\ o.existing # 0
        /\ IF reg[t] # Gone /\ reg[t].id = o.existing
             THEN /\ reg' = [reg EXCEPT ![t] = [Owners(@, o.who) EXCEPT !.enabled = o.on]]
                  /\ holder' = [holder EXCEPT ![t] = o.who]
             ELSE UNCHANGED <<reg, holder>>
        /\ UNCHANGED nextReg
     \/ /\ o.existing = 0 /\ reg[t] = Gone /\ nextReg <= MaxRegistrations
        /\ reg' = [reg EXCEPT ![t] = [id |-> nextReg, userId |-> Column(Users, o.who),
                                      masterUserId |-> Column(Masters, o.who), enabled |-> o.on]]
        /\ holder' = [holder EXCEPT ![t] = o.who]
        /\ nextReg' = nextReg + 1
  /\ call' = [call EXCEPT ![c] = Free]
  /\ UNCHANGED <<delivery, fcm, dead, recorded, heard>>

\* unregister: the token is checked, then the statement runs.
Unregister(c, p, t) ==
  /\ call[c] = Free
  /\ call' = [call EXCEPT ![c] = [step |-> "delete", who |-> p, token |-> t]]
  /\ UNCHANGED <<deviceVars, delivery, fcm, dead, recorded, heard>>

\* Mutant: the row is found by its token only.
DeletableByToken(p, t) == reg[t] # Gone

\* The where clause of deleteForPrincipalToken.
Deletable(p, t) == Owns(p, reg[t])

DeleteForPrincipal(c) ==
  /\ call[c].step = "delete"
  /\ LET o == call[c] IN
       IF Deletable(o.who, o.token)
         THEN /\ reg' = [reg EXCEPT ![o.token] = Gone]
              /\ holder' = [holder EXCEPT ![o.token] = NoOne]
         ELSE UNCHANGED <<reg, holder>>
  /\ call' = [call EXCEPT ![c] = Free]
  /\ UNCHANGED <<nextReg, delivery, fcm, dead, recorded, heard>>

\* A device request fails or its process dies between its two statements.
DropCall(c) ==
  /\ call[c] # Free
  /\ call' = [call EXCEPT ![c] = Free]
  /\ UNCHANGED <<deviceVars, delivery, fcm, dead, recorded, heard>>

-----------------------------------------------------------------------------
(* Delivery: sendToRecipients *)

GotoDelivery(d, o) == delivery' = [delivery EXCEPT ![d] = o]
Done(d) == [step |-> "done", to |-> delivery[d].to, failed |-> TRUE]

\* Repeated recipients count once, and with none nothing is done.
Send(d, to) ==
  /\ delivery[d].step = "new"
  /\ to # {}
  /\ GotoDelivery(d, [step |-> "record", to |-> to, todo |-> to, failed |-> FALSE])
  /\ UNCHANGED <<deviceVars, call, fcm, dead, recorded, heard>>

\* record: users first, then masters, one row each.
NextRecipients(todo) == IF todo \cap Users # {} THEN todo \cap Users ELSE todo

Record(d) ==
  /\ delivery[d].step = "record"
  /\ LET o == delivery[d] IN
     IF NextRecipients(o.todo) = {}
       THEN GotoDelivery(d, [step |-> "list", to |-> o.to, failed |-> o.failed]) /\ UNCHANGED recorded
       ELSE \E p \in NextRecipients(o.todo) :
              /\ recorded' = recorded \cup {<<d, p>>}
              /\ GotoDelivery(d, [o EXCEPT !.todo = @ \ {p}])
  /\ UNCHANGED <<deviceVars, call, fcm, dead, heard>>

\* A row cannot be written: the rest is skipped, and the push goes on.
HistoryFails(d) ==
  /\ delivery[d].step = "record" /\ delivery[d].todo # {}
  /\ GotoDelivery(d, [step |-> "list", to |-> delivery[d].to, failed |-> TRUE])
  /\ UNCHANGED <<deviceVars, call, fcm, dead, recorded, heard>>

\* listByRecipientIds: the rows of any recipient that have notifications on.
Listed(to) == {t \in Tokens : reg[t] # Gone /\ reg[t].enabled /\ \E p \in to : Owns(p, reg[t])}

\* Without credentials or tokens nothing is sent.
ListTokens(d) ==
  /\ delivery[d].step = "list"
  /\ LET o == delivery[d]  hits == Listed(o.to) IN
     IF ~fcm \/ hits = {}
       THEN GotoDelivery(d, [Done(d) EXCEPT !.failed = o.failed])
       ELSE \E s \in SetToSeqs(hits) :
              GotoDelivery(d, [step |-> "send", to |-> o.to, failed |-> o.failed, tokens |-> s,
                               owner |-> [t \in hits |-> holder[t]], sent |-> 0, invalid |-> {}])
  /\ UNCHANGED <<deviceVars, call, fcm, dead, recorded, heard>>

\* chunk: the batch after the first n tokens.
BatchAfter(s, n) == SubSeq(s, n + 1, IF n + BatchSize < Len(s) THEN n + BatchSize ELSE Len(s))

\* The verdicts of a batch, by its own index.
InvalidOf(tokens, batch) == {batch[i] : i \in {j \in 1..Len(batch) : batch[j] \in dead}}

Heard(d, ts) == heard \cup {<<d, t, delivery[d].owner[t]>> : t \in ts \ dead}

\* One Promise.all over a batch.
SendBatch(d) ==
  /\ delivery[d].step = "send"
  /\ LET o == delivery[d]  batch == BatchAfter(o.tokens, o.sent) IN
     /\ o.sent < Len(o.tokens)
     /\ heard' = Heard(d, ToSet(batch))
     /\ GotoDelivery(d, [o EXCEPT !.sent = @ + Len(batch),
                                  !.invalid = @ \cup InvalidOf(o.tokens, batch)])
  /\ UNCHANGED <<deviceVars, call, fcm, dead, recorded>>

\* The messages that can be out when a batch fails half way.
HalfSent(o) ==
  IF o.step # "send" \/ o.sent = Len(o.tokens) THEN {{}}
  ELSE LET batch == ToSet(BatchAfter(o.tokens, o.sent)) IN (SUBSET batch) \ {batch}

\* A statement, the access token or a fetch of the batch fails: the catch ends the
\* delivery.
DeliveryFails(d) ==
  /\ delivery[d].step \in {"list", "send"}
  /\ \E out \in HalfSent(delivery[d]) : heard' = Heard(d, out)
  /\ GotoDelivery(d, Done(d))
  /\ UNCHANGED <<deviceVars, call, fcm, dead, recorded>>

Pruned(o) == o.invalid

\* deleteByTokens, whoever holds them by now.
DeleteInvalid(d) ==
  /\ delivery[d].step = "send"
  /\ LET o == delivery[d] IN
     /\ o.sent = Len(o.tokens)
     /\ reg' = [t \in Tokens |-> IF t \in Pruned(o) THEN Gone ELSE reg[t]]
     /\ holder' = [t \in Tokens |-> IF t \in Pruned(o) THEN NoOne ELSE holder[t]]
     /\ GotoDelivery(d, [Done(d) EXCEPT !.failed = o.failed])
  /\ UNCHANGED <<nextReg, call, fcm, dead, recorded, heard>>

\* External: an app is uninstalled; Firebase never knows its token again.
Uninstall(t) ==
  /\ t \notin dead
  /\ dead' = dead \cup {t}
  /\ UNCHANGED <<deviceVars, call, delivery, fcm, recorded, heard>>

DeliveryStep(d) ==
  \/ Record(d) \/ HistoryFails(d) \/ ListTokens(d)
  \/ SendBatch(d) \/ DeliveryFails(d) \/ DeleteInvalid(d)

PushNext ==
  \/ \E c \in Callers :
       \/ \E p \in People, t \in Tokens :
            (\E on \in BOOLEAN : FindRegistration(c, p, t, on)) \/ Unregister(c, p, t)
       \/ WriteRegistration(c) \/ DeleteForPrincipal(c) \/ DropCall(c)
  \/ \E d \in Deliveries : (\E to \in SUBSET People : Send(d, to)) \/ DeliveryStep(d)
  \/ \E t \in Tokens : Uninstall(t)

PushSpec == PushInit /\ [][PushNext]_pushVars

-----------------------------------------------------------------------------
PushTypeOK ==
  /\ reg \in [Tokens -> Registration \cup {Gone}]
  /\ nextReg \in 1..(MaxRegistrations + 1)
  /\ \A c \in Callers : call[c].step \in {"free", "upsert", "delete"}
  /\ \A d \in Deliveries : delivery[d].step \in {"new", "record", "list", "send", "done"}
  /\ fcm \in BOOLEAN /\ dead \subseteq Tokens
  /\ holder \in [Tokens -> People \cup {NoOne}]
  /\ recorded \subseteq Deliveries \X People
  /\ heard \subseteq Deliveries \X Tokens \X People

\* A phone that has changed hands, from a user to a master's login too, no
\* longer hears what is meant for those who held it: a message goes to the one
\* who registered the token last before the list was read.
HeardByRecipients == \A h \in heard : h[3] \in delivery[h[1]].to

\* Whoever's phone heard of something finds it in the history, masters too,
\* unless a history row of that delivery could not be written.
HeardIsRecorded ==
  \A h \in heard : <<h[1], h[3]>> \in recorded \/ delivery[h[1]].failed

\* Type correctness, and that who hears of something was meant to and can look it up.
PushInv == PushTypeOK /\ HeardByRecipients /\ HeardIsRecorded

\* Nobody takes a registration away but its holder, who signs out, and a push
\* that Firebase answered with UNREGISTERED for that very token: a late sign-out
\* of an earlier holder does not, nor a verdict on another token of the list; and
\* a delivery of which nothing failed leaves none of the tokens it was told are
\* dead registered, in whichever of its batches they were.
RegistrationLeavesByRight ==
  [][/\ \A t \in Tokens : reg[t] # Gone /\ reg'[t] = Gone =>
          \/ t \in dead
          \/ \E c \in Callers : /\ call[c].step = "delete" /\ call'[c] = Free
                                /\ call[c].token = t /\ call[c].who = holder[t]
     /\ \A d \in Deliveries :
          delivery[d].step = "send" /\ delivery'[d].step = "done" /\ ~delivery'[d].failed =>
            \A t \in delivery[d].invalid : reg'[t] = Gone]_pushVars
=============================================================================

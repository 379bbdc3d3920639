------------------------------ MODULE PhoneV2 ------------------------------
(***************************************************************************)
(* What a phone asks of API v2 besides reports: to be registered           *)
(* (v2/devices and its route) and to mark notifications read               *)
(* (v2/notifications).  A device is known by the hash of its fingerprint,  *)
(* unique per tenant; its name and versions behave as the push token does  *)
(* and are left out.  DeviceSessionsV2 binds the device to a user.         *)
(***************************************************************************)
EXTENDS Naturals, FiniteSets

CONSTANTS
  Fingerprints, PushTokens, NoToken, Absent,
  Notices,            \* notifications, each of one user
  Readers,            \* the users who ask
  Asks,               \* requests the API can have in flight
  MaxTime             \* bound: the clock read for readAt

ASSUME PhoneAssumption ==
  /\ NoToken \notin PushTokens /\ Absent \notin [token : PushTokens \cup {NoToken}]
  /\ MaxTime \in Nat

VARIABLES
  device,             \* DeviceV2, by fingerprint
  readAt,             \* NotificationV2.readAt, 0 while isRead is false
  ask,                \* what each request is doing
  clock,
  newest,             \* history: the last push token registered for each device
  told,               \* history: how often a device was answered with 201
  raced,              \* history: fingerprints and notices two requests were about at once
  firstRead           \* history: the readAt a notification was first given

phoneVars == <<device, readAt, ask, clock, newest, told, raced, firstRead>>

Owner == CHOOSE f \in [Notices -> Readers] : TRUE
NotAsking == [step |-> "none"]

PhoneInit ==
  /\ device = [f \in Fingerprints |-> Absent]
  /\ readAt = [n \in Notices |-> 0]
  /\ ask = [a \in Asks |-> NotAsking]
  /\ clock = 1
  /\ newest = [f \in Fingerprints |-> NoToken]
  /\ told = [f \in Fingerprints |-> 0]
  /\ raced = {}
  /\ firstRead = [n \in Notices |-> 0]

About(o) == IF o.step \in {"lookup", "write"} THEN o.print ELSE o.notice

Start(a, o) ==
  /\ ask[a] = NotAsking
  /\ raced' = raced \cup {x \in {About(o)} :
                           \E b \in Asks : ask[b] # NotAsking /\ About(ask[b]) = x}
  /\ ask' = [ask EXCEPT ![a] = o]

\* The route's own lookup, which decides between 200 and 201.
RegisterDevice(a, f, token) ==
  /\ Start(a, [step |-> "lookup", print |-> f, token |-> token, known |-> device[f] # Absent])
  /\ UNCHANGED <<device, readAt, clock, newest, told, firstRead>>

\* upsert looks again.
LookupDevice(a) ==
  /\ ask[a].step = "lookup"
  /\ ask' = [ask EXCEPT ![a] = [step |-> "write", print |-> @.print, token |-> @.token,
                                known |-> @.known, existing |-> device[@.print]]]
  /\ UNCHANGED <<device, readAt, clock, newest, told, raced, firstRead>>

\* Mutant: a registration without a token clears the stored one.
TokenGiven(o) == o.token

\* fcmToken ?? existing.fcmToken, as it was read.
TokenKept(o) == IF o.token # NoToken \/ o.existing = Absent THEN o.token ELSE o.existing.token

KnownAtFirst(o) == o.known

\* update by id, or create; one that finds the fingerprint taken by then fails
\* (DropAsk).
WriteDevice(a) ==
  /\ ask[a].step = "write"
  /\ LET o == ask[a]  f == o.print IN
     /\ o.existing = Absent => device[f] = Absent
     /\ device' = [device EXCEPT ![f] = [token |-> TokenKept(o)]]
     /\ newest' = IF o.token = NoToken THEN newest ELSE [newest EXCEPT ![f] = o.token]
     /\ told' = IF KnownAtFirst(o) THEN told ELSE [told EXCEPT ![f] = @ + 1]
  /\ ask' = [ask EXCEPT ![a] = NotAsking]
  /\ UNCHANGED <<readAt, clock, raced, firstRead>>

\* markRead: the notification of this user is read; one already read is returned.
MarkRead(a, u, n) ==
  /\ Owner[n] = u
  /\ Start(a, [step |-> "mark", notice |-> n, unread |-> readAt[n] = 0])
  /\ UNCHANGED <<device, readAt, clock, newest, told, firstRead>>

Unread(o) == o.unread

\* The answer: returned if it was read, or the time is taken for the update.
StampRead(a) ==
  /\ ask[a].step = "mark"
  /\ ask' = [ask EXCEPT ![a] = IF Unread(@) THEN [step |-> "stamped", notice |-> @.notice, at |-> clock]
                                           ELSE NotAsking]
  /\ UNCHANGED <<device, readAt, clock, newest, told, raced, firstRead>>

\* updateMany, which has no condition on isRead.
WriteRead(a) ==
  /\ ask[a].step = "stamped"
  /\ LET n == ask[a].notice IN
     /\ readAt' = [readAt EXCEPT ![n] = ask[a].at]
     /\ firstRead' = [firstRead EXCEPT ![n] = IF @ = 0 THEN ask[a].at ELSE @]
  /\ ask' = [ask EXCEPT ![a] = NotAsking]
  /\ UNCHANGED <<device, clock, newest, told, raced>>

\* A request fails, or its process dies, before its write.
DropAsk(a) ==
  /\ ask[a] # NotAsking
  /\ ask' = [ask EXCEPT ![a] = NotAsking]
  /\ UNCHANGED <<device, readAt, clock, newest, told, raced, firstRead>>

\* External: time passes.
Tick ==
  /\ clock < MaxTime
  /\ clock' = clock + 1
  /\ UNCHANGED <<device, readAt, ask, newest, told, raced, firstRead>>

PhoneNext ==
  \/ \E a \in Asks :
       \/ \E f \in Fingerprints, t \in PushTokens \cup {NoToken} : RegisterDevice(a, f, t)
       \/ \E u \in Readers, n \in Notices : MarkRead(a, u, n)
       \/ LookupDevice(a) \/ WriteDevice(a) \/ StampRead(a) \/ WriteRead(a) \/ DropAsk(a)
  \/ Tick

PhoneSpec == PhoneInit /\ [][PhoneNext]_phoneVars

-----------------------------------------------------------------------------
\* A device that registers without a push token keeps the newest one it gave,
\* unless two registrations of it have overlapped: the token written back is the
\* one that was read.
NewestTokenStands ==
  \A f \in Fingerprints \ raced : device[f] # Absent => device[f].token = newest[f]

\* A fingerprint is told 201 once, however often the app registers again; of its
\* registrations that overlap each may be told so.
CreatedToldOnce ==
  \A f \in Fingerprints : /\ told[f] >= 1 <=> device[f] # Absent
                          /\ f \notin raced => told[f] <= 1

\* Reading a notification again does not move the time it was read at, unless two
\* readings of it have overlapped: then the update that comes last decides, and
\* its time can be the older one.  Nothing makes it unread again.
ReadOnce ==
  \A n \in Notices : /\ readAt[n] = 0 <=> firstRead[n] = 0
                     /\ n \notin raced => readAt[n] = firstRead[n]

\* What is asked again changes nothing, whatever is asked about others meanwhile.
RepeatsChangeNothing == NewestTokenStands /\ CreatedToldOnce /\ ReadOnce
=============================================================================

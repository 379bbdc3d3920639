----------------------------- MODULE PushV1Proofs -----------------------------
(***************************************************************************)
(* Theorems about PushV1, for every set of people, tokens, device requests *)
(* and deliveries, and every batch size.                                   *)
(***************************************************************************)
EXTENDS PushV1, FiniteSetTheorems, TLAPS

CallTypes ==
  {Free} \cup
  [step : {"upsert"}, who : People, token : Tokens, on : BOOLEAN, existing : Nat] \cup
  [step : {"delete"}, who : People, token : Tokens]

OwnerMaps == UNION {[S -> People] : S \in SUBSET Tokens}

NewOps == [step : {"new"}]
RecordOps == [step : {"record"}, to : SUBSET People, todo : SUBSET People, failed : BOOLEAN]
ListOps == [step : {"list"}, to : SUBSET People, failed : BOOLEAN]
SendOps == [step : {"send"}, to : SUBSET People, failed : BOOLEAN, tokens : Seq(Tokens),
            owner : OwnerMaps, sent : Nat, invalid : SUBSET Tokens]
DoneOps == [step : {"done"}, to : SUBSET People, failed : BOOLEAN]
DeliveryTypes == NewOps \cup RecordOps \cup ListOps \cup SendOps \cup DoneOps

-----------------------------------------------------------------------------
(* The inductive invariant *)

\* The owner columns are those of the one who registered the token last.
RegInv ==
  /\ reg \in [Tokens -> Registration \cup {Gone}]
  /\ nextReg \in 1..(MaxRegistrations + 1)
  /\ holder \in [Tokens -> People \cup {NoOne}]
  /\ fcm \in BOOLEAN /\ dead \subseteq Tokens
  /\ \A t \in Tokens : reg[t] # Gone =>
       /\ holder[t] \in People
       /\ reg[t].userId = Column(Users, holder[t])
       /\ reg[t].masterUserId = Column(Masters, holder[t])

\* A delivery that is past its history has recorded every recipient or failed; one
\* that sends holds tokens whose holders, when listed, were recipients, and calls
\* invalid what Firebase no longer knows.
Sound(d, o) ==
  /\ o \in DeliveryTypes
  /\ o.step = "record" => \A p \in o.to \ o.todo : <<d, p>> \in recorded
  /\ o.step \in {"list", "send", "done"} => o.failed \/ \A p \in o.to : <<d, p>> \in recorded
  /\ o.step = "send" =>
       /\ \A i \in 1..Len(o.tokens) :
            o.tokens[i] \in DOMAIN o.owner /\ o.owner[o.tokens[i]] \in o.to
       /\ o.invalid \subseteq dead

DeliveryInv ==
  /\ DOMAIN delivery = Deliveries /\ delivery \in [Deliveries -> DeliveryTypes]
  /\ \A d \in Deliveries : Sound(d, delivery[d])
  /\ recorded \subseteq Deliveries \X People

\* Only a delivery that sends, or has, was heard, and by its recipients.
HeardInv ==
  /\ heard \subseteq Deliveries \X Tokens \X People
  /\ \A h \in heard : /\ delivery[h[1]].step \in {"send", "done"}
                      /\ h[3] \in delivery[h[1]].to

IInv == RegInv /\ call \in [Callers -> CallTypes] /\ DeliveryInv /\ HeardInv

-----------------------------------------------------------------------------
\* The step of a delivery tells what it carries.
LEMMA OpShapes ==
  ASSUME NEW o \in DeliveryTypes
  PROVE  /\ o.step \in {"new", "record", "list", "send", "done"}
         /\ o.step = "new" => o \in NewOps
         /\ o.step = "record" => o \in RecordOps
         /\ o.step = "list" => o \in ListOps
         /\ o.step = "send" => o \in SendOps
         /\ o.step = "done" => o \in DoneOps
BY DEF DeliveryTypes, NewOps, RecordOps, ListOps, SendOps, DoneOps

LEMMA CallShapes ==
  ASSUME NEW o \in CallTypes
  PROVE  /\ o.step \in {"free", "upsert", "delete"}
         /\ o.step # "free" => o.who \in People /\ o.token \in Tokens
         /\ o.step = "upsert" => o.on \in BOOLEAN
         /\ o = Free <=> o.step = "free"
BY DEF CallTypes, Free

\* An owner of a registration among the people is its holder.
LEMMA OwnerIsHolder ==
  ASSUME RegInv, NEW t \in Tokens, NEW p \in People, Owns(p, reg[t])
  PROVE  p = holder[t]
BY PushAssumption DEF RegInv, Owns, Column, People

\* The batch after n is a run of the list.
LEMMA BatchOfList ==
  ASSUME NEW s \in Seq(Tokens), NEW n \in Nat, n < Len(s)
  PROVE  LET b == BatchAfter(s, n) IN
           /\ Len(b) \in Nat
           /\ \A i \in 1..Len(b) : \E j \in 1..Len(s) : b[i] = s[j]
           /\ ToSet(b) = {b[i] : i \in 1..Len(b)}
<1> DEFINE hi == IF n + BatchSize < Len(s) THEN n + BatchSize ELSE Len(s)
           b == SubSeq(s, n + 1, hi)
<1>1. hi \in Nat /\ n < hi /\ hi <= Len(s)
  BY PushAssumption
<1> HIDE DEF hi
<1>2. b \in Seq(Tokens) /\ Len(b) = hi - n /\ \A i \in 1..Len(b) : b[i] = s[n + i]
  BY <1>1
<1>3. DOMAIN b = 1..Len(b)
  BY <1>2
<1>4. \A i \in 1..Len(b) : n + i \in 1..Len(s)
  BY <1>1, <1>2
<1>5. BatchAfter(s, n) = b
  BY DEF BatchAfter, hi
<1>6. \A i \in 1..Len(b) : \E j \in 1..Len(s) : b[i] = s[j]
  BY <1>2, <1>4
<1>7. Len(b) \in Nat
  BY <1>1, <1>2
<1>8. ToSet(b) = {b[i] : i \in 1..Len(b)}
  <2> HIDE DEF b
  <2> QED BY <1>3 DEF ToSet
<1> QED BY <1>5, <1>6, <1>7, <1>8

\* .. and empty past its end.
LEMMA EmptyBatch ==
  ASSUME NEW s \in Seq(Tokens), NEW n \in Nat, n > Len(s)
  PROVE  ToSet(BatchAfter(s, n)) = {}
<1>1. BatchAfter(s, n) = SubSeq(s, n + 1, Len(s))
  BY PushAssumption DEF BatchAfter
<1>2. SubSeq(s, n + 1, Len(s)) = << >>
  OBVIOUS
<1> QED BY <1>1, <1>2 DEF ToSet

\* A delivery that moves on to a sound place, while what is recorded or dead grows.
LEMMA MoveKeeps ==
  ASSUME IInv, NEW d \in Deliveries, NEW o, Sound(d, o)',
         delivery' = [delivery EXCEPT ![d] = o],
         recorded \subseteq recorded', recorded' \subseteq Deliveries \X People,
         dead \subseteq dead'
  PROVE  DeliveryInv'
<1>1. \A e \in Deliveries : delivery'[e] = IF e = d THEN o ELSE delivery[e]
  BY DEF IInv, DeliveryInv
<1>2. ASSUME NEW e \in Deliveries, e # d PROVE Sound(e, delivery[e])'
  BY <1>1, <1>2 DEF IInv, DeliveryInv, Sound
<1>3. Sound(d, delivery[d])'
  BY <1>1
<1>4. delivery' \in [Deliveries -> DeliveryTypes]
  BY <1>1 DEF IInv, DeliveryInv, Sound
<1> QED BY <1>2, <1>3, <1>4 DEF DeliveryInv

\* .. and nobody new hears of it.
LEMMA StillHeard ==
  ASSUME IInv, NEW d \in Deliveries, NEW o,
         delivery' = [delivery EXCEPT ![d] = o], heard' = heard,
         delivery[d].step \in {"send", "done"} => o.step \in {"send", "done"} /\ o.to = delivery[d].to
  PROVE  HeardInv'
<1>1. \A e \in Deliveries : delivery'[e] = IF e = d THEN o ELSE delivery[e]
  BY DEF IInv, DeliveryInv
<1>2. \A h \in heard : h[1] \in Deliveries
  BY DEF IInv, HeardInv
<1> QED BY <1>1, <1>2 DEF IInv, HeardInv

\* What the phones of a batch hear goes to recipients.
LEMMA HeardGrows ==
  ASSUME IInv, NEW d \in Deliveries, NEW o, NEW ts, delivery[d].step = "send",
         delivery' = [delivery EXCEPT ![d] = o], heard' = Heard(d, ts),
         o.step \in {"send", "done"}, o.to = delivery[d].to,
         \A t \in ts : \E i \in 1..Len(delivery[d].tokens) : t = delivery[d].tokens[i]
  PROVE  HeardInv'
<1>1. \A e \in Deliveries : delivery'[e] = IF e = d THEN o ELSE delivery[e]
  BY DEF IInv, DeliveryInv
<1>2. delivery[d] \in SendOps /\ Sound(d, delivery[d])
  BY OpShapes DEF IInv, DeliveryInv
<1>3. ASSUME NEW t \in ts
      PROVE  t \in Tokens /\ delivery[d].owner[t] \in delivery[d].to /\ delivery[d].to \subseteq People
  BY <1>2 DEF Sound, SendOps
<1>4. ASSUME NEW h \in heard'
      PROVE  /\ h \in Deliveries \X Tokens \X People
             /\ delivery'[h[1]].step \in {"send", "done"} /\ h[3] \in delivery'[h[1]].to
  <2>1. CASE h \in heard
    BY <1>1, <2>1 DEF IInv, HeardInv
  <2>2. CASE \E t \in ts : h = <<d, t, delivery[d].owner[t]>>
    BY <1>1, <1>3, <2>2
  <2> QED BY <2>1, <2>2 DEF Heard
<1> QED BY <1>4 DEF HeardInv

-----------------------------------------------------------------------------
LEMMA InitIInv == PushInit => IInv
<1> SUFFICES ASSUME PushInit PROVE IInv
  OBVIOUS
<1>1. RegInv
  BY PushAssumption DEF PushInit, RegInv
<1>2. call \in [Callers -> CallTypes]
  BY DEF PushInit, CallTypes
<1>3. [step |-> "new"] \in DeliveryTypes
  BY DEF DeliveryTypes, NewOps
<1>4. DeliveryInv
  BY <1>3 DEF PushInit, DeliveryInv, Sound
<1>5. HeardInv
  BY DEF PushInit, HeardInv
<1> QED BY <1>1, <1>2, <1>4, <1>5 DEF IInv

\* Steps that leave deliveries alone.
LEMMA SameDeliveries ==
  ASSUME IInv, UNCHANGED <<delivery, recorded, heard>>, dead \subseteq dead'
  PROVE  DeliveryInv' /\ HeardInv'
BY DEF IInv, DeliveryInv, HeardInv, Sound

\* .. and those that leave registrations alone.
LEMMA SameRegistrations ==
  ASSUME IInv, UNCHANGED <<reg, nextReg, holder, fcm, dead>>
  PROVE  RegInv'
BY DEF IInv, RegInv

LEMMA CallerKeeps ==
  ASSUME IInv, NEW c \in Callers, NEW p \in People, NEW t \in Tokens,
         (\E on \in BOOLEAN : FindRegistration(c, p, t, on)) \/ Unregister(c, p, t)
  PROVE  IInv'
<1>1. UNCHANGED <<reg, nextReg, holder, delivery, fcm, dead, recorded, heard>>
  BY DEF FindRegistration, Unregister, deviceVars
<1>2. ASSUME NEW on \in BOOLEAN, FindRegistration(c, p, t, on)
      PROVE  call' \in [Callers -> CallTypes]
  <2> DEFINE e == IF reg[t] = Gone THEN 0 ELSE reg[t].id
  <2>1. e \in Nat
    BY PushAssumption DEF IInv, RegInv, Registration
  <2> HIDE DEF e
  <2>2. call' = [call EXCEPT ![c] = [step |-> "upsert", who |-> p, token |-> t, on |-> on,
                                     existing |-> e]]
    BY <1>2 DEF FindRegistration, e
  <2> QED BY <2>1, <2>2 DEF IInv, CallTypes
<1>3. Unregister(c, p, t) => call' \in [Callers -> CallTypes]
  BY DEF Unregister, IInv, CallTypes
<1> QED BY <1>1, <1>2, <1>3, SameDeliveries, SameRegistrations DEF IInv

\* Writing a registration sets both owner columns, and the one who wrote it is the holder.
LEMMA WriteKeeps ==
  ASSUME IInv, NEW c \in Callers, WriteRegistration(c)
  PROVE  IInv' /\ \A t \in Tokens : reg[t] # Gone => reg'[t] # Gone
<1> DEFINE o == call[c]
           t == call[c].token
<1>1. /\ o.step = "upsert" /\ call' = [call EXCEPT ![c] = Free]
      /\ UNCHANGED <<delivery, fcm, dead, recorded, heard>>
  BY DEF WriteRegistration
<1>2. o.who \in People /\ t \in Tokens /\ o.on \in BOOLEAN
  BY <1>1, CallShapes DEF IInv
<1>3. call' \in [Callers -> CallTypes]
  BY <1>1 DEF IInv, CallTypes
<1>4. /\ Column(Users, o.who) \in Users \cup {NoOne}
      /\ Column(Masters, o.who) \in Masters \cup {NoOne}
  BY DEF Column
<1>5. CASE UNCHANGED <<reg, holder, nextReg>>
  BY <1>1, <1>3, <1>5, SameDeliveries, SameRegistrations DEF IInv
<1>6. ASSUME NEW row \in Registration, reg' = [reg EXCEPT ![t] = row],
             holder' = [holder EXCEPT ![t] = o.who],
             row.userId = Column(Users, o.who), row.masterUserId = Column(Masters, o.who),
             nextReg' \in 1..(MaxRegistrations + 1)
      PROVE  IInv' /\ \A k \in Tokens : reg[k] # Gone => reg'[k] # Gone
  <2>1. RegInv'
    BY <1>1, <1>2, <1>6 DEF IInv, RegInv
  <2>2. \A k \in Tokens : reg[k] # Gone => reg'[k] # Gone
    BY <1>6, GoneAssumption DEF IInv, RegInv
  <2> QED BY <1>1, <1>3, <2>1, <2>2, SameDeliveries DEF IInv
<1>7. CASE /\ reg[t] # Gone
           /\ reg' = [reg EXCEPT ![t] = [Owners(@, o.who) EXCEPT !.enabled = o.on]]
           /\ holder' = [holder EXCEPT ![t] = o.who] /\ UNCHANGED nextReg
  <2> DEFINE row == [Owners(reg[t], o.who) EXCEPT !.enabled = o.on]
  <2>1. reg[t] \in Registration
    BY <1>2, <1>7 DEF IInv, RegInv
  <2>2. /\ row \in Registration /\ row.userId = Column(Users, o.who)
        /\ row.masterUserId = Column(Masters, o.who)
    BY <1>2, <1>4, <2>1 DEF Owners, Registration
  <2>3. reg' = [reg EXCEPT ![t] = row]
    BY <1>7
  <2>4. nextReg' \in 1..(MaxRegistrations + 1)
    BY <1>7 DEF IInv, RegInv
  <2> HIDE DEF row, o, t
  <2> QED BY <1>6, <1>7, <2>2, <2>3, <2>4
<1>8. CASE /\ nextReg <= MaxRegistrations /\ nextReg' = nextReg + 1
           /\ reg' = [reg EXCEPT ![t] = [id |-> nextReg, userId |-> Column(Users, o.who),
                                 masterUserId |-> Column(Masters, o.who), enabled |-> o.on]]
           /\ holder' = [holder EXCEPT ![t] = o.who]
  <2> DEFINE row == [id |-> nextReg, userId |-> Column(Users, o.who),
                     masterUserId |-> Column(Masters, o.who), enabled |-> o.on]
  <2>1. nextReg \in 1..MaxRegistrations /\ nextReg' \in 1..(MaxRegistrations + 1)
    BY <1>8, PushAssumption DEF IInv, RegInv
  <2>2. /\ row \in Registration /\ row.userId = Column(Users, o.who)
        /\ row.masterUserId = Column(Masters, o.who)
    BY <1>2, <1>4, <2>1 DEF Registration
  <2>3. reg' = [reg EXCEPT ![t] = row]
    BY <1>8
  <2> HIDE DEF row, o, t
  <2> QED BY <1>6, <1>8, <2>1, <2>2, <2>3
<1> QED BY <1>5, <1>7, <1>8 DEF WriteRegistration

LEMMA DeleteKeeps ==
  ASSUME IInv, NEW c \in Callers, DeleteForPrincipal(c) \/ DropCall(c)
  PROVE  IInv'
<1>1. /\ call' = [call EXCEPT ![c] = Free]
      /\ UNCHANGED <<nextReg, delivery, fcm, dead, recorded, heard>>
  BY DEF DeleteForPrincipal, DropCall, deviceVars
<1>2. call' \in [Callers -> CallTypes]
  BY <1>1 DEF IInv, CallTypes
<1>3. RegInv'
  <2>1. CASE UNCHANGED <<reg, holder>>
    BY <1>1, <2>1, SameRegistrations
  <2>2. CASE /\ reg' = [reg EXCEPT ![call[c].token] = Gone]
             /\ holder' = [holder EXCEPT ![call[c].token] = NoOne]
    BY <1>1, <2>2 DEF IInv, RegInv
  <2> QED BY <2>1, <2>2 DEF DeleteForPrincipal, DropCall, deviceVars
<1> QED BY <1>1, <1>2, <1>3, SameDeliveries DEF IInv

LEMMA UninstallKeeps ==
  ASSUME IInv, NEW t \in Tokens, Uninstall(t)
  PROVE  IInv'
<1>1. /\ dead' = dead \cup {t}
      /\ UNCHANGED <<reg, nextReg, holder, call, delivery, fcm, recorded, heard>>
  BY DEF Uninstall, deviceVars
<1>2. RegInv'
  BY <1>1 DEF IInv, RegInv
<1> QED BY <1>1, <1>2, SameDeliveries DEF IInv

-----------------------------------------------------------------------------
(* The steps of a delivery *)

LEMMA SendKeeps ==
  ASSUME IInv, NEW d \in Deliveries, NEW to \in SUBSET People, Send(d, to)
  PROVE  IInv'
<1> DEFINE o == [step |-> "record", to |-> to, todo |-> to, failed |-> FALSE]
<1>1. /\ delivery[d].step = "new" /\ delivery' = [delivery EXCEPT ![d] = o]
      /\ UNCHANGED <<reg, nextReg, holder, call, fcm, dead, recorded, heard>>
  BY DEF Send, GotoDelivery, deviceVars
<1>2. Sound(d, o)'
  BY DEF Sound, DeliveryTypes, RecordOps
<1> HIDE DEF o
<1>3. DeliveryInv'
  BY <1>1, <1>2, MoveKeeps DEF IInv, DeliveryInv
<1>4. HeardInv'
  BY <1>1, StillHeard
<1> QED BY <1>1, <1>3, <1>4, SameRegistrations DEF IInv

\* A delivery leaves its history with every recipient in it, or having failed.
LEMMA RecordKeeps ==
  ASSUME IInv, NEW d \in Deliveries, Record(d) \/ HistoryFails(d)
  PROVE  IInv'
<1>1. /\ delivery[d].step = "record"
      /\ UNCHANGED <<reg, nextReg, holder, call, fcm, dead, heard>>
  BY DEF Record, HistoryFails, deviceVars
<1>2. delivery[d] \in RecordOps /\ Sound(d, delivery[d])
  BY <1>1, OpShapes DEF IInv, DeliveryInv
<1>3. ASSUME NEW o, Sound(d, o)', delivery' = [delivery EXCEPT ![d] = o],
             recorded \subseteq recorded', recorded' \subseteq Deliveries \X People
      PROVE  IInv'
  <2>1. DeliveryInv'
    BY <1>1, <1>3, MoveKeeps
  <2>2. HeardInv'
    BY <1>1, <1>3, StillHeard
  <2> QED BY <1>1, <2>1, <2>2, SameRegistrations DEF IInv
<1>4. CASE HistoryFails(d)
  <2>1. PICK o : o = [step |-> "list", to |-> delivery[d].to, failed |-> TRUE]
    OBVIOUS
  <2>2. delivery' = [delivery EXCEPT ![d] = o] /\ recorded' = recorded
    BY <1>4, <2>1 DEF HistoryFails, GotoDelivery
  <2>3. Sound(d, o)'
    BY <1>2, <2>1 DEF Sound, DeliveryTypes, ListOps, RecordOps
  <2> QED BY <1>3, <2>2, <2>3 DEF IInv, DeliveryInv
<1>5. CASE Record(d) /\ delivery[d].todo = {}
  <2>1. PICK o : o = [step |-> "list", to |-> delivery[d].to, failed |-> delivery[d].failed]
    OBVIOUS
  <2>2. delivery' = [delivery EXCEPT ![d] = o] /\ recorded' = recorded
    BY <1>5, <2>1 DEF Record, GotoDelivery, NextRecipients
  <2>3. Sound(d, o)'
    BY <1>1, <1>2, <1>5, <2>1, <2>2 DEF Sound, DeliveryTypes, ListOps, RecordOps
  <2> QED BY <1>3, <2>2, <2>3 DEF IInv, DeliveryInv
<1>6. CASE Record(d) /\ delivery[d].todo # {}
  <2>1. NextRecipients(delivery[d].todo) # {}
    BY <1>6 DEF NextRecipients
  <2>2. PICK p \in NextRecipients(delivery[d].todo) :
          /\ recorded' = recorded \cup {<<d, p>>}
          /\ delivery' = [delivery EXCEPT ![d] = [delivery[d] EXCEPT !.todo = @ \ {p}]]
    BY <1>6, <2>1 DEF Record, GotoDelivery
  <2>3. p \in delivery[d].todo /\ p \in People
    BY <1>2 DEF NextRecipients, RecordOps
  <2>4. PICK o : o = [delivery[d] EXCEPT !.todo = @ \ {p}]
    OBVIOUS
  <2>5. Sound(d, o)'
    BY <1>1, <1>2, <2>2, <2>4 DEF Sound, DeliveryTypes, RecordOps
  <2>6. recorded' \subseteq Deliveries \X People
    BY <2>2, <2>3 DEF IInv, DeliveryInv
  <2> QED BY <1>3, <2>2, <2>4, <2>5, <2>6
<1> QED BY <1>4, <1>5, <1>6

\* A delivery that ends, having recorded every recipient or failed.
LEMMA EndKeeps ==
  ASSUME IInv, NEW d \in Deliveries, NEW o \in DoneOps, delivery[d].step \in {"list", "send"},
         delivery' = [delivery EXCEPT ![d] = o], o.to = delivery[d].to,
         o.failed \/ o.failed = delivery[d].failed, UNCHANGED <<recorded, dead>>
  PROVE  DeliveryInv' /\ (heard' = heard => HeardInv')
<1>1. Sound(d, delivery[d])
  BY DEF IInv, DeliveryInv
<1>2. Sound(d, o)'
  BY <1>1 DEF Sound, DeliveryTypes, DoneOps
<1>3. DeliveryInv'
  BY <1>2, MoveKeeps DEF IInv, DeliveryInv
<1>4. o.step = "done"
  BY DEF DoneOps
<1> QED BY <1>3, <1>4, StillHeard

\* The list goes to whoever holds the tokens listed: recipients.
LEMMA ListKeeps ==
  ASSUME IInv, NEW d \in Deliveries, ListTokens(d)
  PROVE  IInv'
<1> DEFINE hits == Listed(delivery[d].to)
<1>1. /\ delivery[d].step = "list"
      /\ UNCHANGED <<reg, nextReg, holder, call, fcm, dead, recorded, heard>>
  BY DEF ListTokens, deviceVars
<1>2. delivery[d] \in ListOps /\ Sound(d, delivery[d])
  BY <1>1, OpShapes DEF IInv, DeliveryInv
<1>3. CASE ~fcm \/ hits = {}
  <2>1. PICK o : o = [Done(d) EXCEPT !.failed = delivery[d].failed]
    OBVIOUS
  <2>2. o \in DoneOps /\ o.to = delivery[d].to /\ o.failed = delivery[d].failed
    BY <1>2, <2>1 DEF Done, DoneOps, ListOps
  <2>3. delivery' = [delivery EXCEPT ![d] = o]
    BY <1>3, <2>1 DEF ListTokens, GotoDelivery
  <2>4. DeliveryInv' /\ HeardInv'
    BY <1>1, <2>2, <2>3, EndKeeps
  <2> QED BY <1>1, <2>4, SameRegistrations DEF IInv
<1>4. CASE fcm /\ hits # {}
  <2>1. PICK s \in SetToSeqs(hits) :
          delivery' = [delivery EXCEPT ![d] =
            [step |-> "send", to |-> delivery[d].to, failed |-> delivery[d].failed,
             tokens |-> s, owner |-> [t \in hits |-> holder[t]], sent |-> 0, invalid |-> {}]]
    BY <1>4 DEF ListTokens, GotoDelivery
  <2>2. PICK o : o =
            [step |-> "send", to |-> delivery[d].to, failed |-> delivery[d].failed,
             tokens |-> s, owner |-> [t \in hits |-> holder[t]], sent |-> 0, invalid |-> {}]
    OBVIOUS
  <2>3. hits \subseteq Tokens /\ \A t \in hits : holder[t] \in People /\ holder[t] \in delivery[d].to
    BY <1>2, OwnerIsHolder DEF Listed, ListOps, IInv, RegInv
  <2> HIDE DEF hits
  <2>4. s \in Seq(hits)
    <3>1. Cardinality(hits) \in Nat
      BY <2>3, PushAssumption, FS_Subset, FS_CardinalityType
    <3> QED BY <3>1 DEF SetToSeqs
  <2>5. /\ s \in Seq(Tokens) /\ [t \in hits |-> holder[t]] \in OwnerMaps
        /\ \A i \in 1..Len(s) : s[i] \in hits
    BY <2>3, <2>4 DEF OwnerMaps
  <2>6. o \in SendOps
    BY <1>2, <2>2, <2>5 DEF SendOps, ListOps
  <2>7. Sound(d, o)'
    BY <1>1, <1>2, <2>2, <2>3, <2>5, <2>6 DEF Sound, DeliveryTypes
  <2>8. DeliveryInv'
    BY <1>1, <2>1, <2>2, <2>7, MoveKeeps DEF IInv, DeliveryInv
  <2>9. HeardInv'
    BY <1>1, <2>1, <2>2, StillHeard
  <2> QED BY <1>1, <2>8, <2>9, SameRegistrations DEF IInv
<1> QED BY <1>3, <1>4

LEMMA SendBatchKeeps ==
  ASSUME IInv, NEW d \in Deliveries, SendBatch(d)
  PROVE  IInv'
<1>1. PICK b : b = BatchAfter(delivery[d].tokens, delivery[d].sent)
  OBVIOUS
<1>2. PICK o : o = [delivery[d] EXCEPT !.sent = @ + Len(b),
                        !.invalid = @ \cup InvalidOf(delivery[d].tokens, b)]
  OBVIOUS
<1>3. /\ delivery[d].step = "send" /\ delivery[d].sent < Len(delivery[d].tokens)
      /\ heard' = Heard(d, ToSet(b)) /\ delivery' = [delivery EXCEPT ![d] = o]
      /\ UNCHANGED <<reg, nextReg, holder, call, fcm, dead, recorded>>
  BY <1>1, <1>2 DEF SendBatch, GotoDelivery, deviceVars
<1>4. delivery[d] \in SendOps /\ Sound(d, delivery[d])
  BY <1>3, OpShapes DEF IInv, DeliveryInv
<1>5. /\ Len(b) \in Nat
      /\ \A i \in 1..Len(b) : \E j \in 1..Len(delivery[d].tokens) : b[i] = delivery[d].tokens[j]
      /\ ToSet(b) = {b[i] : i \in 1..Len(b)}
  BY <1>1, <1>3, <1>4, BatchOfList DEF SendOps
<1>6. InvalidOf(delivery[d].tokens, b) \subseteq dead /\ dead \subseteq Tokens
  BY DEF InvalidOf, IInv, RegInv
<1>7. /\ o \in SendOps /\ o.to = delivery[d].to /\ o.failed = delivery[d].failed
      /\ o.tokens = delivery[d].tokens /\ o.owner = delivery[d].owner /\ o.step = "send"
      /\ o.invalid = delivery[d].invalid \cup InvalidOf(delivery[d].tokens, b)
  <2>1. delivery[d].sent + Len(b) \in Nat
    BY <1>4, <1>5 DEF SendOps
  <2>2. delivery[d].invalid \cup InvalidOf(delivery[d].tokens, b) \in SUBSET Tokens
    BY <1>4, <1>6 DEF SendOps
  <2>3. \A n \in Nat, v \in SUBSET Tokens :
          LET x == [delivery[d] EXCEPT !.sent = n, !.invalid = v] IN
            /\ x \in SendOps /\ x.to = delivery[d].to /\ x.failed = delivery[d].failed
            /\ x.tokens = delivery[d].tokens /\ x.owner = delivery[d].owner
            /\ x.step = "send" /\ x.invalid = v
    BY <1>4 DEF SendOps
  <2> QED BY <1>2, <2>1, <2>2, <2>3
<1>8. Sound(d, o)'
  BY <1>3, <1>4, <1>6, <1>7 DEF Sound, DeliveryTypes
<1>9. DeliveryInv'
  BY <1>3, <1>8, MoveKeeps DEF IInv, DeliveryInv
<1>10. HeardInv'
  <2>1. \A t \in ToSet(b) : \E i \in 1..Len(delivery[d].tokens) : t = delivery[d].tokens[i]
    BY <1>5
  <2> QED BY <1>3, <1>7, <2>1, HeardGrows
<1> QED BY <1>3, <1>9, <1>10, SameRegistrations DEF IInv

LEMMA FailureKeeps ==
  ASSUME IInv, NEW d \in Deliveries, DeliveryFails(d)
  PROVE  IInv'
<1>1. PICK o : o = Done(d)
  OBVIOUS
<1>2. /\ delivery[d].step \in {"list", "send"} /\ delivery' = [delivery EXCEPT ![d] = o]
      /\ UNCHANGED <<reg, nextReg, holder, call, fcm, dead, recorded>>
  BY <1>1 DEF DeliveryFails, GotoDelivery, deviceVars
<1>3. delivery[d] \in ListOps \cup SendOps
  BY <1>2, OpShapes DEF IInv, DeliveryInv
<1>4. o \in DoneOps /\ o.to = delivery[d].to /\ o.failed /\ o.step = "done"
  BY <1>1, <1>3 DEF Done, DoneOps, ListOps, SendOps
<1>5. DeliveryInv' /\ (heard' = heard => HeardInv')
  BY <1>2, <1>4, EndKeeps
<1>6. PICK out \in HalfSent(delivery[d]) : heard' = Heard(d, out)
  BY DEF DeliveryFails
<1>7. CASE out = {}
  BY <1>2, <1>5, <1>6, <1>7, SameRegistrations DEF Heard, IInv
<1>8. CASE out # {}
  <2>1. /\ delivery[d].step = "send" /\ delivery[d].sent # Len(delivery[d].tokens)
        /\ out \subseteq ToSet(BatchAfter(delivery[d].tokens, delivery[d].sent))
    BY <1>8 DEF HalfSent
  <2>2. \A t \in out : \E i \in 1..Len(delivery[d].tokens) : t = delivery[d].tokens[i]
    <3>1. delivery[d].tokens \in Seq(Tokens) /\ delivery[d].sent \in Nat
      BY <1>3, <2>1 DEF ListOps, SendOps
    <3>2. CASE delivery[d].sent < Len(delivery[d].tokens)
      BY <2>1, <3>1, <3>2, BatchOfList
    <3>3. CASE delivery[d].sent > Len(delivery[d].tokens)
      BY <2>1, <3>1, <3>3, EmptyBatch
    <3> QED BY <2>1, <3>1, <3>2, <3>3
  <2>3. HeardInv'
    BY <1>2, <1>4, <1>6, <2>1, <2>2, HeardGrows
  <2> QED BY <1>2, <1>5, <2>3, SameRegistrations DEF IInv
<1> QED BY <1>7, <1>8

LEMMA PruneKeeps ==
  ASSUME IInv, NEW d \in Deliveries, DeleteInvalid(d)
  PROVE  /\ IInv'
         /\ \A t \in Tokens : reg[t] # Gone /\ reg'[t] = Gone => t \in dead
         /\ \A t \in delivery[d].invalid : reg'[t] = Gone
<1>1. PICK o : o = [Done(d) EXCEPT !.failed = delivery[d].failed]
  OBVIOUS
<1>2. /\ delivery[d].step = "send" /\ delivery' = [delivery EXCEPT ![d] = o]
      /\ reg' = [t \in Tokens |-> IF t \in delivery[d].invalid THEN Gone ELSE reg[t]]
      /\ holder' = [t \in Tokens |-> IF t \in delivery[d].invalid THEN NoOne ELSE holder[t]]
      /\ UNCHANGED <<nextReg, call, fcm, dead, recorded, heard>>
  BY <1>1 DEF DeleteInvalid, GotoDelivery, Pruned
<1>3. delivery[d] \in SendOps /\ Sound(d, delivery[d])
  BY <1>2, OpShapes DEF IInv, DeliveryInv
<1>4. delivery[d].invalid \subseteq dead /\ dead \subseteq Tokens
  BY <1>2, <1>3 DEF Sound, IInv, RegInv
<1>5. o \in DoneOps /\ o.to = delivery[d].to /\ o.failed = delivery[d].failed
  BY <1>1, <1>3 DEF Done, DoneOps, SendOps
<1>6. DeliveryInv' /\ HeardInv'
  BY <1>2, <1>5, EndKeeps
<1>7. RegInv'
  BY <1>2 DEF IInv, RegInv
<1> QED BY <1>2, <1>4, <1>6, <1>7 DEF IInv

\* Whatever requests and deliveries do, fail or leave half done, IInv stays.
THEOREM Invariance == PushSpec => []IInv
<1>1. IInv /\ [PushNext]_pushVars => IInv'
  <2> SUFFICES ASSUME IInv, [PushNext]_pushVars PROVE IInv'
    OBVIOUS
  <2>1. CASE UNCHANGED pushVars
    <3>1. UNCHANGED <<reg, nextReg, holder, call, fcm, dead, delivery, recorded, heard>>
      BY <2>1 DEF pushVars
    <3> QED BY <3>1, SameDeliveries, SameRegistrations DEF IInv
  <2>2. ASSUME NEW c \in Callers,
               \/ \E p \in People, t \in Tokens :
                    (\E on \in BOOLEAN : FindRegistration(c, p, t, on)) \/ Unregister(c, p, t)
               \/ WriteRegistration(c) \/ DeleteForPrincipal(c) \/ DropCall(c)
        PROVE  IInv'
    BY <2>2, CallerKeeps, WriteKeeps, DeleteKeeps
  <2>3. ASSUME NEW d \in Deliveries, (\E to \in SUBSET People : Send(d, to)) \/ DeliveryStep(d)
        PROVE  IInv'
    BY <2>3, SendKeeps, RecordKeeps, ListKeeps, SendBatchKeeps, FailureKeeps, PruneKeeps
    DEF DeliveryStep
  <2> QED BY <2>1, <2>2, <2>3, UninstallKeeps DEF PushNext
<1> QED BY <1>1, InitIInv, PTL DEF PushSpec

\* A push reaches nobody it was not meant for, and whoever it reaches finds it in
\* the history or that history could not be written; phones that change hands,
\* late sign-outs and deliveries that fail half way included.
THEOREM HeardByRight == PushSpec => []PushInv
<1>1. IInv => PushInv
  <2> SUFFICES ASSUME IInv PROVE PushInv
    OBVIOUS
  <2>1. \A d \in Deliveries : delivery[d].step \in {"new", "record", "list", "send", "done"}
    BY OpShapes DEF IInv, DeliveryInv
  <2>2. \A c \in Callers : call[c].step \in {"free", "upsert", "delete"}
    BY CallShapes DEF IInv
  <2>3. PushTypeOK
    BY <2>1, <2>2 DEF PushTypeOK, IInv, RegInv, DeliveryInv, HeardInv
  <2>4. HeardByRecipients
    BY DEF HeardByRecipients, IInv, HeardInv
  <2>5. HeardIsRecorded
    <3> SUFFICES ASSUME NEW h \in heard, ~ delivery[h[1]].failed
                 PROVE  <<h[1], h[3]>> \in recorded
      BY DEF HeardIsRecorded
    <3>1. h[1] \in Deliveries /\ delivery[h[1]].step \in {"send", "done"} /\ h[3] \in delivery[h[1]].to
      BY DEF IInv, HeardInv
    <3> QED BY <3>1 DEF IInv, DeliveryInv, Sound
  <2> QED BY <2>3, <2>4, <2>5 DEF PushInv
<1> QED BY <1>1, Invariance, PTL

-----------------------------------------------------------------------------
\* Steps after which every registration is there that was, and no delivery is over
\* that has not failed.
Quietly ==
  /\ \A t \in Tokens : reg[t] # Gone => reg'[t] # Gone
  /\ \A d \in Deliveries :
       ~ (delivery[d].step = "send" /\ delivery'[d].step = "done" /\ ~delivery'[d].failed)

LEMMA QuietSteps ==
  ASSUME IInv, [PushNext]_pushVars
  PROVE  \/ Quietly
         \/ \E c \in Callers : DeleteForPrincipal(c)
         \/ \E d \in Deliveries : DeleteInvalid(d)
<1>1. ASSUME UNCHANGED <<reg, delivery>> PROVE Quietly
  BY <1>1 DEF Quietly
<1>2. ASSUME NEW c \in Callers,
             \/ \E p \in People, t \in Tokens :
                  (\E on \in BOOLEAN : FindRegistration(c, p, t, on)) \/ Unregister(c, p, t)
             \/ DropCall(c)
      PROVE  Quietly
  BY <1>1, <1>2 DEF FindRegistration, Unregister, DropCall, deviceVars
<1>3. ASSUME NEW c \in Callers, WriteRegistration(c) PROVE Quietly
  BY <1>3, WriteKeeps DEF WriteRegistration, Quietly
<1>4. ASSUME NEW d \in Deliveries, NEW o, UNCHANGED reg, delivery' = [delivery EXCEPT ![d] = o],
             delivery[d].step # "send" \/ o.step # "done" \/ o.failed
      PROVE  Quietly
  <2>1. \A e \in Deliveries : delivery'[e] = IF e = d THEN o ELSE delivery[e]
    BY <1>4 DEF IInv, DeliveryInv
  <2> QED BY <1>4, <2>1 DEF Quietly
<1>5. ASSUME NEW d \in Deliveries, (\E to \in SUBSET People : Send(d, to)) \/ Record(d)
                                   \/ HistoryFails(d) \/ ListTokens(d)
      PROVE  Quietly
  <2>1. delivery[d].step # "send" /\ UNCHANGED reg
    BY <1>5 DEF Send, Record, HistoryFails, ListTokens, deviceVars
  <2>2. \E o : delivery' = [delivery EXCEPT ![d] = o]
    BY <1>5 DEF Send, Record, HistoryFails, ListTokens, GotoDelivery
  <2> QED BY <1>4, <2>1, <2>2
<1>6. ASSUME NEW d \in Deliveries, SendBatch(d) PROVE Quietly
  <2>1. PICK o : o = [delivery[d] EXCEPT
                 !.sent = @ + Len(BatchAfter(delivery[d].tokens, delivery[d].sent)),
                 !.invalid = @ \cup InvalidOf(delivery[d].tokens,
                                 BatchAfter(delivery[d].tokens, delivery[d].sent))]
    OBVIOUS
  <2>2. delivery' = [delivery EXCEPT ![d] = o] /\ UNCHANGED reg /\ delivery[d].step = "send"
    BY <1>6, <2>1 DEF SendBatch, GotoDelivery, deviceVars
  <2>3. delivery[d] \in SendOps
    BY <2>2, OpShapes DEF IInv, DeliveryInv
  <2>4. o.step = "send"
    BY <2>1, <2>2, <2>3 DEF SendOps
  <2> QED BY <1>4, <2>2, <2>4
<1>7. ASSUME NEW d \in Deliveries, DeliveryFails(d) PROVE Quietly
  <2>1. Done(d).failed
    BY DEF Done
  <2> QED BY <1>4, <1>7, <2>1 DEF DeliveryFails, GotoDelivery, deviceVars
<1>8. ASSUME NEW t \in Tokens, Uninstall(t) PROVE Quietly
  BY <1>1, <1>8 DEF Uninstall, deviceVars
<1>9. UNCHANGED pushVars => Quietly
  BY <1>1 DEF pushVars
<1> QED BY <1>2, <1>3, <1>5, <1>6, <1>7, <1>8, <1>9 DEF PushNext, DeliveryStep

\* A registration goes only by its holder's sign-out or by Firebase's verdict on
\* its token, and a delivery of which nothing failed leaves no token it was told
\* is dead, whatever its batches and however phones change hands meanwhile.
THEOREM LeavesByRight == PushSpec => RegistrationLeavesByRight
<1> DEFINE
     Leaves == /\ \A t \in Tokens : reg[t] # Gone /\ reg'[t] = Gone =>
                    \/ t \in dead
                    \/ \E c \in Callers : /\ call[c].step = "delete" /\ call'[c] = Free
                                          /\ call[c].token = t /\ call[c].who = holder[t]
               /\ \A d \in Deliveries :
                    delivery[d].step = "send" /\ delivery'[d].step = "done" /\ ~delivery'[d].failed
                      => \A t \in delivery[d].invalid : reg'[t] = Gone
<1>1. IInv /\ [PushNext]_pushVars => Leaves
  <2> SUFFICES ASSUME IInv, [PushNext]_pushVars PROVE Leaves
    OBVIOUS
  <2>1. CASE Quietly
    BY <2>1 DEF Quietly
  <2>2. ASSUME NEW c \in Callers, DeleteForPrincipal(c) PROVE Leaves
    <3>1. /\ call[c].step = "delete" /\ call'[c] = Free /\ UNCHANGED delivery
          /\ call[c].who \in People /\ call[c].token \in Tokens
      BY <2>2, CallShapes DEF DeleteForPrincipal, IInv
    <3>2. ASSUME NEW t \in Tokens, reg[t] # Gone, reg'[t] = Gone
          PROVE  call[c].token = t /\ call[c].who = holder[t]
      <4>1. /\ Deletable(call[c].who, call[c].token)
            /\ reg' = [reg EXCEPT ![call[c].token] = Gone]
        BY <2>2, <3>2 DEF DeleteForPrincipal
      <4>2. call[c].token = t
        BY <3>2, <4>1 DEF IInv, RegInv
      <4> QED BY <3>1, <4>1, <4>2, OwnerIsHolder DEF Deletable, IInv
    <3> QED BY <3>1, <3>2
  <2>3. ASSUME NEW d \in Deliveries, DeleteInvalid(d) PROVE Leaves
    <3>1. \A e \in Deliveries \ {d} : delivery'[e] = delivery[e]
      BY <2>3 DEF DeleteInvalid, GotoDelivery, IInv, DeliveryInv
    <3> QED BY <2>3, <3>1, PruneKeeps
  <2> QED BY <2>1, <2>2, <2>3, QuietSteps
<1> HIDE DEF Leaves
<1>2. PushSpec => [][Leaves]_pushVars
  BY <1>1, Invariance, PTL DEF PushSpec
<1> QED BY <1>2 DEF RegistrationLeavesByRight, Leaves
=============================================================================

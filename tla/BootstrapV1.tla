----------------------------- MODULE BootstrapV1 -----------------------------
(***************************************************************************)
(* scripts/bootstrap.ts: tenant, first master, and the staff of two CSV    *)
(* files.  Every statement is an action, because the script may die after  *)
(* any of them and be run again, and because the API may be serving the    *)
(* tenant meanwhile.  Names, passwords' text, the summary it prints and    *)
(* the duplicates it reports are left out; a location is its lower-case    *)
(* form, which is what the script compares.                                *)
(***************************************************************************)
EXTENDS Naturals, Sequences, FiniteSets

CONSTANTS
  LoginIds, Locations,
  SupervisorSheets, CleanerSheets,   \* sequences of rows: [login, place], or Invalid
  Invalid, NoAccountYet,
  MaxRuns,                           \* bound on runs of the script
  MaxCards                           \* bound: the API adds no card beyond it

Rows == [login : LoginIds, place : Locations]
StaffAccounts == [role : {"supervisor", "cleaner"}, place : Locations]

ASSUME BootstrapAssumption ==
  /\ SupervisorSheets \cup CleanerSheets \subseteq Seq(Rows \cup {Invalid})
  /\ Invalid \notin Rows /\ NoAccountYet \notin StaffAccounts
  /\ MaxRuns \in Nat /\ MaxCards \in Nat

VARIABLES
  supervisorRows, cleanerRows,       \* the files, the same for every run
  tenantMade, masterMade,
  staff,              \* UserAccount: [role, place]
  cards,              \* Cleaner: [id, workId, place, supervisor]
  boot,               \* the script under way: where it is and the maps it has built
  runs,
  meddled             \* history: the API added a card

dbVars == <<tenantMade, masterMade, staff, cards>>
bootVars == <<supervisorRows, cleanerRows, dbVars, boot, runs, meddled>>

NotRunning == [step |-> "none"]
Is(step) == boot.step = step

BootInit ==
  /\ supervisorRows \in SupervisorSheets /\ cleanerRows \in CleanerSheets
  /\ tenantMade = FALSE /\ masterMade = FALSE
  /\ staff = [l \in LoginIds |-> NoAccountYet]
  /\ cards = {}
  /\ boot = NotRunning /\ runs = 0 /\ meddled = FALSE

\* by: the supervisor of each location met so far; done: the cleaners' login ids met;
\* found: the card of the row at hand, 0 if there is none.
StartRun(dry) ==
  /\ boot = NotRunning /\ runs < MaxRuns
  /\ boot' = [step |-> IF dry THEN "supervisors" ELSE "tenant", dry |-> dry, next |-> 1,
              by |-> [p \in {} |-> Invalid], done |-> {}, found |-> 0]
  /\ runs' = runs + 1
  /\ UNCHANGED <<supervisorRows, cleanerRows, dbVars, meddled>>

UpsertTenant ==
  /\ Is("tenant")
  /\ tenantMade' = TRUE
  /\ boot' = [boot EXCEPT !.step = "master"]
  /\ UNCHANGED <<supervisorRows, cleanerRows, masterMade, staff, cards, runs, meddled>>

\* A master of that name is left as it is.
CreateMaster ==
  /\ Is("master")
  /\ masterMade' = TRUE
  /\ boot' = [boot EXCEPT !.step = "supervisors"]
  /\ UNCHANGED <<supervisorRows, cleanerRows, tenantMade, staff, cards, runs, meddled>>

\* upsertUserAccount: password, phone and email are set whether or not the account
\* is new; a dry run only makes the account's id up.
UpsertAccount(role, row) ==
  staff' = IF boot.dry THEN staff
           ELSE [staff EXCEPT ![row.login] = [role |-> role, place |-> row.place]]

\* A supervisor whose login id or location an earlier accepted row has is skipped.
Taken(row) == row.login \in {boot.by[p] : p \in DOMAIN boot.by} \/ row.place \in DOMAIN boot.by

SupervisorRow ==
  /\ Is("supervisors") /\ boot.next <= Len(supervisorRows)
  /\ LET row == supervisorRows[boot.next] IN
       IF row = Invalid \/ (row # Invalid /\ Taken(row))
       THEN boot' = [boot EXCEPT !.next = @ + 1] /\ UNCHANGED staff
       ELSE /\ UpsertAccount("supervisor", row)
            /\ boot' = [boot EXCEPT !.next = @ + 1,
                          !.by = [p \in DOMAIN @ \cup {row.place} |->
                                    IF p = row.place THEN row.login ELSE @[p]]]
  /\ UNCHANGED <<supervisorRows, cleanerRows, tenantMade, masterMade, cards, runs, meddled>>

SupervisorsDone ==
  /\ Is("supervisors") /\ boot.next > Len(supervisorRows)
  /\ boot' = [boot EXCEPT !.step = "cleaners", !.next = 1]
  /\ UNCHANGED <<supervisorRows, cleanerRows, dbVars, runs, meddled>>

\* A row that is invalid, repeated, or of a location without supervisor is skipped;
\* otherwise the account comes first.
CleanerRow ==
  /\ Is("cleaners") /\ boot.next <= Len(cleanerRows)
  /\ LET row == cleanerRows[boot.next] IN
       IF row = Invalid \/ (row # Invalid /\ (row.login \in boot.done \/ row.place \notin DOMAIN boot.by))
       THEN boot' = [boot EXCEPT !.next = @ + 1] /\ UNCHANGED staff
       ELSE /\ UpsertAccount("cleaner", row)
            /\ boot' = IF boot.dry THEN [boot EXCEPT !.next = @ + 1, !.done = @ \cup {row.login}]
                       ELSE [boot EXCEPT !.step = "find"]
  /\ UNCHANGED <<supervisorRows, cleanerRows, tenantMade, masterMade, cards, runs, meddled>>

\* Mutant: a card is created without a look at the roster.
NoCards(row) == {}

CardsOf(row) == {c \in cards : c.workId = row.login}

\* cleaner.findFirst: any one card of that work id, or none.
FindCard ==
  /\ Is("find")
  /\ LET row == cleanerRows[boot.next] IN
       \E c \in IF CardsOf(row) = {} THEN {0} ELSE {card.id : card \in CardsOf(row)} :
         boot' = [boot EXCEPT !.step = "card", !.found = c]
  /\ UNCHANGED <<supervisorRows, cleanerRows, dbVars, runs, meddled>>

WriteCard ==
  /\ Is("card")
  /\ LET row == cleanerRows[boot.next]
         card == [id |-> IF boot.found = 0 THEN Cardinality(cards) + 1 ELSE boot.found,
                  workId |-> row.login, place |-> row.place, supervisor |-> boot.by[row.place]]
     IN /\ cards' = {c \in cards : c.id # card.id} \cup {card}
        /\ boot' = [boot EXCEPT !.step = "cleaners", !.next = @ + 1,
                                !.done = @ \cup {row.login}, !.found = 0]
  /\ UNCHANGED <<supervisorRows, cleanerRows, tenantMade, masterMade, staff, runs, meddled>>

EndRun ==
  /\ Is("cleaners") /\ boot.next > Len(cleanerRows)
  /\ boot' = NotRunning
  /\ UNCHANGED <<supervisorRows, cleanerRows, dbVars, runs, meddled>>

\* The process dies, or a statement throws: what was written stays.
DieInRun ==
  /\ boot # NotRunning /\ boot' = NotRunning
  /\ UNCHANGED <<supervisorRows, cleanerRows, dbVars, runs, meddled>>

-----------------------------------------------------------------------------
(* The API meanwhile *)

\* POST /cleaners does not look for the work id.
ApiAddsCard(l, p) ==
  /\ tenantMade /\ Cardinality(cards) < MaxCards
  /\ \E s \in {k \in LoginIds : staff[k] # NoAccountYet} :
       cards' = cards \cup {[id |-> Cardinality(cards) + 1, workId |-> l, place |-> p, supervisor |-> s]}
  /\ meddled' = TRUE
  /\ UNCHANGED <<supervisorRows, cleanerRows, tenantMade, masterMade, staff, boot, runs>>

Places == {row.place : row \in UNION {{supervisorRows[i], cleanerRows[j]} \ {Invalid} :
             i \in 1..Len(supervisorRows), j \in 1..Len(cleanerRows)}}

BootNext ==
  \/ \E dry \in BOOLEAN : StartRun(dry)
  \/ UpsertTenant \/ CreateMaster \/ SupervisorRow \/ SupervisorsDone
  \/ CleanerRow \/ FindCard \/ WriteCard \/ EndRun \/ DieInRun
  \/ \E l \in LoginIds, p \in Places : ApiAddsCard(l, p)

BootSpec == BootInit /\ [][BootNext]_bootVars

-----------------------------------------------------------------------------
(* Properties *)

ListedIn(rows, l) == \E i \in 1..Len(rows) : rows[i] # Invalid /\ rows[i].login = l
FirstAt(p) ==
  {supervisorRows[i].login : i \in {i \in 1..Len(supervisorRows) :
     /\ supervisorRows[i] # Invalid /\ supervisorRows[i].place = p
     /\ \A j \in 1..(i - 1) :
          supervisorRows[j] # Invalid => supervisorRows[j].place # p}}

\* However often the script dies and is run again, a work id has one roster card,
\* unless the API added cards of its own; the card has its account, and its
\* supervisor is a supervisor, unless the same login id is in both files, where
\* the cleaners' file, read last, decides the role.
CardsAreSound ==
  /\ meddled \/ \A c \in cards, d \in cards : c.workId = d.workId => c.id = d.id
  /\ ~meddled => \A c \in cards :
       /\ staff[c.workId] # NoAccountYet
       /\ staff[c.supervisor] # NoAccountYet
       /\ staff[c.supervisor].role = "supervisor" \/ ListedIn(cleanerRows, c.supervisor)

\* Two runs agree on who supervises a location: the first valid row that names it,
\* if that row's login id is not already somebody's at another location ("keeping
\* first match").
SupervisorIsFirstMatch ==
  \A p \in IF boot = NotRunning THEN {} ELSE DOMAIN boot.by :
    boot.by[p] \in FirstAt(p)
      \/ \E q \in DOMAIN boot.by : q # p /\ boot.by[q] \in FirstAt(p)

\* What any number of runs leaves behind.
BootstrapInv == CardsAreSound /\ SupervisorIsFirstMatch
=============================================================================

------------------------------ MODULE Membership ------------------------------
(***************************************************************************)
(* What the bridge believes of a member's standing, and what it does about *)
(* it: the members table (one row per card), the customer directory, and   *)
(* the status of the user in the UA-Hub, against the truth in Redpoint.    *)
(*                                                                         *)
(* Five writers run concurrently and hold what they read across slow calls:*)
(*   refresh   cache.Syncer.RefreshAllStatuses                             *)
(*   pass      statusync.Syncer.runMappingStatusPass                       *)
(*   recheck   recheck.Service.RecheckDeniedTap                            *)
(*   ingest    ingest.Ingester.Run                                         *)
(*   staff     match, card enrollment, reassign, remove, reactivate        *)
(* and two loops copy customers from Redpoint into the directory: the      *)
(* scheduled directory sync without badges, the mirror walk, which runs    *)
(* only when it is asked to, with them (how they page is in Directory).    *)
(*                                                                         *)
(* A member stands for a UA-Hub user and the customer it is bound to (the  *)
(* binding is the subject of Binding), and for the card first issued to    *)
(* it.  The status of a customer is "active" (active, badge ACTIVE),       *)
(* "expired" (active, any other badge or none), "inactive" or "gone" (no   *)
(* such customer; DELETED in a row).  The breaker, which may refuse a      *)
(* recheck, is in Breaker.  Names, badge names, cached_at and last_checkin *)
(* are left out; LegacyNFCStatusLoop, which the pass replaces, is in        *)
(* StatusEngines.                                                           *)
(***************************************************************************)
EXTENDS Integers, FiniteSets

CONSTANTS
  Members,
  Statuses,                 \* of a customer in Redpoint
  MaxDeactivationsPerRun,
  StatusWrites,             \* "off", "activate-only" or "full"
  ShadowMode,
  Rechecks,                 \* FALSE: RecheckMaxStaleness outlasts every row
  MirrorWalks,              \* whether anybody asks for mirror walks
  Walked,                   \* whether one has filled the directory already
  MaxEvents                 \* bound: changes of status, mishaps, staff actions

ASSUME MembersAssumption == IsFiniteSet(Members)
ASSUME StatusAssumption ==
  /\ "active" \in Statuses
  /\ Statuses \subseteq {"active", "expired", "inactive", "gone"}
ASSUME ModeAssumption ==
  /\ MaxDeactivationsPerRun \in Nat \ {0}
  /\ StatusWrites \in {"off", "activate-only", "full"}
  /\ {ShadowMode, Rechecks, MirrorWalks, Walked} \subseteq BOOLEAN
  /\ MaxEvents \in Nat

Cards == Members

(* A row of members: whose card it says it is, the status it shows, and     *)
(* (history) the customer that status was read of.  Badge "none": no row.   *)
Badges == {"none", "active", "expired", "inactive", "gone"}
Row    == [of : Members, badge : Badges, src : Members]

VARIABLES
  (* Redpoint and the UA-Hub. *)
  truth,                    \* truth[m]: the status of the customer
  hub,                      \* hub[m]: the status of the user
  holder,                   \* holder[k]: the user the card is assigned to
  (* The bridge's tables. *)
  row,
  directory,                \* directory[m]: status in customers, or "none"
  (* The refresh: its snapshot, the answers, the rows still to be written. *)
  rfAt, rfSnap, rfGot, rfLeft,
  (* The pass: users still to be read, their listed status, the decisions. *)
  psAt, psLeft, psSeen, psOn, psOff, psHeld,
  psDone,                   \* history: users this pass has deactivated
  (* The recheck of a denied tap of a card: the row it read. *)
  rcAt, rcRow,
  (* The ingest: the user the mirror of the hub still shows a card with, *)
  (* the rows it will write.                                             *)
  mirrored, igPlan, igLeft,
  (* A staff action: the rows it will write. *)
  stPlan, stLeft,
  events,
  wasGone                   \* history: customers Redpoint has ever denied knowing

worldVars   == <<truth, wasGone>>
refreshVars == <<rfAt, rfSnap, rfGot, rfLeft>>
passVars    == <<psAt, psLeft, psSeen, psOn, psOff, psHeld, psDone>>
recheckVars == <<rcAt, rcRow>>
ingestVars  == <<mirrored, igPlan, igLeft>>
staffVars   == <<stPlan, stLeft>>
vars == <<worldVars, hub, holder, row, directory, refreshVars, passVars,
          recheckVars, ingestVars, staffVars, events>>

Present(r) == r.badge # "none"
NoRow(k)   == [of |-> k, badge |-> "none", src |-> k]
NoRows     == [k \in Cards |-> NoRow(k)]
NoAnswers  == [m \in Members |-> "none"]
Unseen     == [m \in Members |-> "DEACTIVATED"]
NoRechecks == [k \in Cards |-> "idle"]

(* The row's active flag.                                                   *)
Active(r) == r.badge \in {"active", "expired"}

\* The badge is not looked at.
AllowedByFlag(r) == Active(r)

(* IsAllowed: an active customer with an ACTIVE badge.                      *)
Allowed(r) == r.badge = "active"

Happens == events < MaxEvents /\ events' = events + 1

TypeOK ==
  /\ truth \in [Members -> Statuses]
  /\ hub \in [Members -> {"ACTIVE", "DEACTIVATED"}]
  /\ holder \in [Cards -> Members]
  /\ row \in [Cards -> Row]
  /\ directory \in [Members -> Badges]
  /\ rfAt \in {"idle", "asking", "writing"}
  /\ rfSnap \in [Cards -> Row]
  /\ rfGot \in [Members -> Badges \cup {"failed"}]
  /\ rfLeft \in SUBSET Cards
  /\ psAt \in {"idle", "reading", "writing"}
  /\ psLeft \in SUBSET Members
  /\ psSeen \in [Members -> {"ACTIVE", "DEACTIVATED"}]
  /\ psOn \in SUBSET Members /\ psOff \in SUBSET Members
  /\ psHeld \in BOOLEAN /\ psDone \in SUBSET Members
  /\ rcAt \in [Cards -> {"idle", "asking", "writing", "activating"}]
  /\ rcRow \in [Cards -> Row]
  /\ mirrored \in [Cards -> Members]
  /\ igPlan \in [Cards -> Row] /\ igLeft \in SUBSET Cards
  /\ stPlan \in [Cards -> Row] /\ stLeft \in SUBSET Cards
  /\ events \in Nat
  /\ wasGone \in SUBSET Members

(* Both loops ask for active customers only: the others keep the row they   *)
(* had.                                                                     *)
WalkSees == {"active", "expired"}

(* A fresh deployment, nobody has moved a card: empty tables, or (Walked)   *)
(* all but the directory, which a first mirror walk has filled.             *)
Init ==
  /\ truth \in [Members -> Statuses]
  /\ wasGone = {m \in Members : truth[m] = "gone"}
  /\ hub \in [Members -> {"ACTIVE", "DEACTIVATED"}]
  /\ holder = [k \in Cards |-> k]
  /\ row = NoRows
  /\ directory = [m \in Members |->
                    IF Walked /\ truth[m] \in WalkSees THEN truth[m] ELSE "none"]
  /\ rfAt = "idle" /\ rfLeft = {}
  /\ rfSnap = NoRows /\ rfGot = NoAnswers
  /\ psAt = "idle" /\ psLeft = {} /\ psSeen = Unseen
  /\ psOn = {} /\ psOff = {} /\ psHeld = FALSE /\ psDone = {}
  /\ rcAt = NoRechecks /\ rcRow = NoRows
  /\ mirrored = holder /\ igPlan = NoRows /\ igLeft = {}
  /\ stPlan = NoRows /\ stLeft = {}
  /\ events = 0

-----------------------------------------------------------------------------
(* Redpoint, and the two loops that copy it.                                *)

(* A membership lapses, is renewed, ends, or disappears.                    *)
Change(m) ==
  /\ Happens
  /\ \E s \in Statuses \ {truth[m]} :
       /\ truth' = [truth EXCEPT ![m] = s]
       /\ wasGone' = IF s = "gone" THEN wasGone \cup {m} ELSE wasGone
  /\ UNCHANGED <<hub, holder, row, directory, refreshVars, passVars,
                 recheckVars, ingestVars, staffVars>>

(* The directory sync writes no badge: a new customer enters without one,   *)
(* active but not ACTIVE, a known one keeps the badge it had.               *)
DirectorySync(m) ==
  /\ truth[m] \in WalkSees /\ directory[m] = "none"
  /\ directory' = [directory EXCEPT ![m] = "expired"]
  /\ UNCHANGED <<worldVars, hub, holder, row, refreshVars, passVars,
                 recheckVars, ingestVars, staffVars, events>>

(* The mirror walk writes the badge too.                                    *)
Walk(m) ==
  /\ MirrorWalks /\ truth[m] \in WalkSees
  /\ directory' = [directory EXCEPT ![m] = truth[m]]
  /\ UNCHANGED <<worldVars, hub, holder, row, refreshVars, passVars,
                 recheckVars, ingestVars, staffVars, events>>

-----------------------------------------------------------------------------
(* The refresh.                                                             *)

Listed(rows) == {k \in Cards : Present(rows[k])}

(* What is read again of a row taken: whether there is one, whose it is and *)
(* its active flag.                                                         *)
Taken(r) ==
  [r EXCEPT !.badge = CASE r.badge = "expired" -> "active"
                        [] r.badge = "inactive" -> "gone"
                        [] OTHER -> r.badge,
            !.src = r.of]

RefreshStart ==
  /\ rfAt = "idle" /\ Listed(row) # {}
  /\ rfAt' = "asking"
  /\ rfSnap' = [k \in Cards |-> Taken(row[k])]
  /\ rfGot' = NoAnswers
  /\ rfLeft' = Listed(row)
  /\ UNCHANGED <<worldVars, hub, holder, row, directory, passVars,
                 recheckVars, ingestVars, staffVars, events>>

Unasked == {m \in {rfSnap[k].of : k \in rfLeft} : rfGot[m] = "none"}

(* RefreshCustomers answers for one customer: its status, or (a mishap)     *)
(* no answer, also after the second attempt at the ids that failed.         *)
Answer(m, status) ==
  /\ rfAt = "asking" /\ m \in Unasked
  /\ rfGot' = [rfGot EXCEPT ![m] = status]
  /\ rfAt' = IF Unasked = {m} THEN "writing" ELSE "asking"
  /\ UNCHANGED <<worldVars, hub, holder, row, directory, rfSnap, rfLeft,
                 passVars, recheckVars, ingestVars, staffVars>>

RefreshAsk(m) == Answer(m, truth[m]) /\ UNCHANGED events

RefreshAskFailed(m) == Happens /\ Answer(m, "failed")

\* A lookup that failed is written like an answer.
UpdatedAnyway(k) ==
  [row EXCEPT ![k] = [of |-> rfSnap[k].of, badge |-> rfGot[rfSnap[k].of],
                      src |-> rfSnap[k].of]]

\* A customer without an answer is taken to be deleted.
UpdatedFailedIsGone(k) ==
  LET got == rfGot[rfSnap[k].of]
  IN  [row EXCEPT ![k] = [of    |-> rfSnap[k].of,
                          badge |-> IF got = "failed" THEN "gone" ELSE got,
                          src   |-> rfSnap[k].of]]

(* What the loop makes of the snapshot's row: nothing without an answer; a  *)
(* customer confirmed gone is marked once; else the answered status.        *)
Updated(k) ==
  LET existing == rfSnap[k]
      got      == rfGot[existing.of]
  IN  IF got = "failed" \/ (got = "gone" /\ ~Active(existing))
      THEN row
      ELSE [row EXCEPT ![k] = [of |-> existing.of, badge |-> got,
                               src |-> existing.of]]

WrittenOrSkipped(k) ==
  /\ rfAt = "writing" /\ k \in rfLeft
  /\ rfLeft' = rfLeft \ {k}
  /\ IF rfLeft = {k}
     THEN rfAt' = "idle" /\ rfSnap' = NoRows /\ rfGot' = NoAnswers
     ELSE rfSnap' = [rfSnap EXCEPT ![k] = NoRow(k)] /\ UNCHANGED <<rfAt, rfGot>>
  /\ UNCHANGED <<worldVars, hub, holder, directory, passVars, recheckVars,
                 ingestVars, staffVars>>

RefreshWrite(k) == WrittenOrSkipped(k) /\ row' = Updated(k) /\ UNCHANGED events

(* UpsertMember fails: logged, and on to the next.                          *)
RefreshWriteFailed(k) == Happens /\ WrittenOrSkipped(k) /\ UNCHANGED row

-----------------------------------------------------------------------------
(* The pass: all decisions first, then the guard, then the writes.          *)

PassStart ==
  /\ psAt = "idle"
  /\ psAt' = "reading" /\ psLeft' = Members /\ psSeen' = hub
  /\ UNCHANGED <<worldVars, hub, holder, row, directory, refreshVars, psOn,
                 psOff, psHeld, psDone, recheckVars, ingestVars, staffVars,
                 events>>

RowsOf(m) == {k \in Cards : Present(row[k]) /\ row[k].of = m}

(* The decision about one user, from the row GetMemberByUAUserID finds: any *)
(* one of them if the customer has several cards.  No row: no opinion.      *)
PassRead(m) ==
  /\ psAt = "reading" /\ m \in psLeft
  /\ psLeft' = psLeft \ {m}
  /\ psSeen' = [psSeen EXCEPT ![m] = "DEACTIVATED"]
  /\ \/ RowsOf(m) = {} /\ UNCHANGED <<psOn, psOff>>
     \/ \E k \in RowsOf(m) :
          /\ psOn'  = IF Allowed(row[k]) /\ psSeen[m] # "ACTIVE"
                      THEN psOn \cup {m} ELSE psOn
          /\ psOff' = IF ~Allowed(row[k]) /\ psSeen[m] = "ACTIVE"
                      THEN psOff \cup {m} ELSE psOff
  /\ UNCHANGED <<worldVars, hub, holder, row, directory, refreshVars, psAt,
                 psHeld, psDone, recheckVars, ingestVars, staffVars, events>>

\* The guard lets one more through than it is told.
PassGuardOneLate ==
  /\ psAt = "reading" /\ psLeft = {}
  /\ psAt' = "writing"
  /\ psHeld' = (Cardinality(psOff) > MaxDeactivationsPerRun + 1)
  /\ UNCHANGED <<worldVars, hub, holder, row, directory, refreshVars, psLeft,
                 psSeen, psOn, psOff, psDone, recheckVars, ingestVars,
                 staffVars, events>>

(* The guard sees the decisions about all users before the first write.     *)
PassGuard ==
  /\ psAt = "reading" /\ psLeft = {}
  /\ psAt' = "writing"
  /\ psHeld' = (Cardinality(psOff) > MaxDeactivationsPerRun)
  /\ UNCHANGED <<worldVars, hub, holder, row, directory, refreshVars, psLeft,
                 psSeen, psOn, psOff, psDone, recheckVars, ingestVars,
                 staffVars, events>>

PassActivate(m, answered) ==
  /\ psAt = "writing" /\ m \in psOn
  /\ psOn' = psOn \ {m}
  /\ hub' = IF StatusWrites # "off" /\ answered
            THEN [hub EXCEPT ![m] = "ACTIVE"] ELSE hub
  /\ UNCHANGED <<worldVars, holder, row, directory, refreshVars, psAt, psLeft,
                 psSeen, psOff, psHeld, psDone, recheckVars, ingestVars, staffVars>>

PassDeactivate(m, answered) ==
  /\ psAt = "writing" /\ m \in psOff
  /\ psOff' = psOff \ {m}
  /\ IF StatusWrites = "full" /\ ~psHeld /\ answered
     THEN hub' = [hub EXCEPT ![m] = "DEACTIVATED"] /\ psDone' = psDone \cup {m}
     ELSE UNCHANGED <<hub, psDone>>
  /\ UNCHANGED <<worldVars, holder, row, directory, refreshVars, psAt, psLeft,
                 psSeen, psOn, psHeld, recheckVars, ingestVars, staffVars>>

PassWrite(m) == (PassActivate(m, TRUE) \/ PassDeactivate(m, TRUE)) /\ UNCHANGED events

(* UpdateUserStatus fails: counted, and on to the next.                     *)
PassWriteFailed(m) ==
  /\ Happens
  /\ PassActivate(m, FALSE) \/ PassDeactivate(m, FALSE)

PassEnd ==
  /\ psAt = "writing" /\ psOn = {} /\ psOff = {}
  /\ psAt' = "idle" /\ psSeen' = Unseen /\ psHeld' = FALSE /\ psDone' = {}
  /\ UNCHANGED <<worldVars, hub, holder, row, directory, refreshVars, psLeft,
                 psOn, psOff, recheckVars, ingestVars, staffVars, events>>

-----------------------------------------------------------------------------
(* The recheck of a denied tap: one at a time, to bound the runs.          *)

RecheckStart(k) ==
  /\ Rechecks /\ rcAt = NoRechecks
  /\ Present(row[k]) /\ ~Allowed(row[k])
  /\ rcAt' = [rcAt EXCEPT ![k] = "asking"]
  /\ rcRow' = [rcRow EXCEPT ![k] = row[k]]
  /\ UNCHANGED <<worldVars, hub, holder, row, directory, refreshVars, passVars,
                 ingestVars, staffVars, events>>

(* Redpoint says the customer is active again.                              *)
RecheckRenewed(k) ==
  /\ rcAt[k] = "asking" /\ truth[rcRow[k].of] = "active"
  /\ rcAt' = [rcAt EXCEPT ![k] = "writing"]
  /\ UNCHANGED <<worldVars, hub, holder, row, directory, refreshVars, passVars,
                 rcRow, ingestVars, staffVars, events>>

(* The breaker refuses, Redpoint fails, or the member is still not allowed. *)
RecheckDenied(k) ==
  /\ rcAt[k] = "asking"
  /\ rcAt' = NoRechecks /\ rcRow' = NoRows
  /\ UNCHANGED <<worldVars, hub, holder, row, directory, refreshVars, passVars,
                 ingestVars, staffVars, events>>

(* UpsertMember of the row read at the start; a failure is only logged.     *)
RecheckWrite(k) ==
  /\ rcAt[k] = "writing"
  /\ rcAt' = [rcAt EXCEPT ![k] = IF ShadowMode THEN "idle" ELSE "activating"]
  /\ rcRow' = NoRows
  /\ \/ /\ row' = [row EXCEPT ![k] = [of |-> rcRow[k].of, badge |-> "active",
                                     src |-> rcRow[k].of]]
        /\ UNCHANGED events
     \/ Happens /\ UNCHANGED row
  /\ UNCHANGED <<worldVars, hub, holder, directory, refreshVars, passVars,
                 ingestVars, staffVars>>

(* The user who holds the card now is activated, unless the hub fails.      *)
RecheckActivate(k) ==
  /\ rcAt[k] = "activating"
  /\ rcAt' = NoRechecks
  /\ \/ hub' = [hub EXCEPT ![holder[k]] = "ACTIVE"] /\ UNCHANGED events
     \/ Happens /\ UNCHANGED hub
  /\ UNCHANGED <<worldVars, holder, row, directory, refreshVars, passVars,
                 rcRow, ingestVars, staffVars>>

-----------------------------------------------------------------------------
(* The user mirror, and the ingest that reads it.                           *)

(* A card is shown with the user it had until the hub's list is copied.     *)
(* (Rows are copied user by user; a card shown with both for a moment is    *)
(* written with either.)                                                    *)
HubSync(k) ==
  /\ mirrored[k] # holder[k]
  /\ mirrored' = [mirrored EXCEPT ![k] = holder[k]]
  /\ UNCHANGED <<worldVars, hub, holder, row, directory, refreshVars, passVars,
                 recheckVars, igPlan, igLeft, staffVars, events>>

(* Every card of a user whose customer the directory has.                   *)

IngestStart ==
  /\ igLeft = {}
  /\ igLeft' = {k \in Cards : directory[mirrored[k]] # "none"}
  /\ igLeft' # {}
  /\ igPlan' = [k \in Cards |->
                  IF k \in igLeft'
                  THEN [of    |-> mirrored[k],
                        badge |-> directory[mirrored[k]],
                        src   |-> mirrored[k]]
                  ELSE NoRow(k)]
  /\ UNCHANGED mirrored
  /\ UNCHANGED <<worldVars, hub, holder, row, directory, refreshVars, passVars,
                 recheckVars, staffVars, events>>

IngestWrite(k) ==
  /\ k \in igLeft
  /\ igLeft' = igLeft \ {k}
  /\ igPlan' = [igPlan EXCEPT ![k] = NoRow(k)]
  /\ \/ row' = [row EXCEPT ![k] = igPlan[k]] /\ UNCHANGED events
     \/ Happens /\ UNCHANGED row
  /\ UNCHANGED <<mirrored, worldVars, hub, holder, directory, refreshVars, passVars,
                 recheckVars, staffVars>>

-----------------------------------------------------------------------------
(* Staff.                                                                   *)

(* A match or a finished card enrollment reads the customer and the user's  *)
(* cards and writes their rows afterwards.  A customer without a badge is   *)
(* taken to be active.                                                      *)
StaffMatch(m) ==
  /\ Happens /\ stLeft = {} /\ truth[m] # "gone"
  /\ stLeft' \in SUBSET {k \in Cards : holder[k] = m} /\ stLeft' # {}
  /\ \E b \in {truth[m]} \cup (IF truth[m] = "expired" THEN {"active"} ELSE {}) :
       stPlan' = [k \in Cards |->
                   IF k \in stLeft' THEN [of |-> m, badge |-> b, src |-> m]
                   ELSE NoRow(k)]
  /\ UNCHANGED <<worldVars, hub, holder, row, directory, refreshVars, passVars,
                 recheckVars, ingestVars>>

(* The card moves in the hub first; the row read before is then written     *)
(* with the customer of the new holder, if the directory has it.            *)
StaffReassign(k, m) ==
  /\ Happens /\ ~ShadowMode /\ stLeft = {}
  /\ Present(row[k]) /\ row[k].of # m
  /\ holder' = [holder EXCEPT ![k] = m]
  /\ IF directory[m] # "none"
     THEN /\ stLeft' = {k}
          /\ stPlan' = [stPlan EXCEPT ![k] = [row[k] EXCEPT !.of = m]]
     ELSE UNCHANGED staffVars
  /\ UNCHANGED <<worldVars, hub, row, directory, refreshVars, passVars,
                 recheckVars, ingestVars>>

StaffWrite(k) ==
  /\ k \in stLeft
  /\ stLeft' = stLeft \ {k}
  /\ stPlan' = [stPlan EXCEPT ![k] = NoRow(k)]
  /\ row' = [row EXCEPT ![k] = stPlan[k]]
  /\ UNCHANGED <<worldVars, hub, holder, directory, refreshVars, passVars,
                 recheckVars, ingestVars, events>>

StaffRemove(k) ==
  /\ Happens /\ Present(row[k])
  /\ row' = [row EXCEPT ![k] = NoRow(k)]
  /\ UNCHANGED <<worldVars, hub, holder, directory, refreshVars, passVars,
                 recheckVars, ingestVars, staffVars>>

StaffReactivate(k) ==
  /\ Happens /\ ~ShadowMode /\ Present(row[k])
  /\ hub' = [hub EXCEPT ![row[k].of] = "ACTIVE"]
  /\ UNCHANGED <<worldVars, holder, row, directory, refreshVars, passVars,
                 recheckVars, ingestVars, staffVars>>

(* The process ends and starts again: the tables and the hub stay.          *)
Crash ==
  /\ Happens
  /\ rfAt' = "idle" /\ rfSnap' = NoRows /\ rfGot' = NoAnswers /\ rfLeft' = {}
  /\ psAt' = "idle" /\ psLeft' = {} /\ psSeen' = Unseen
  /\ psOn' = {} /\ psOff' = {} /\ psHeld' = FALSE /\ psDone' = {}
  /\ rcAt' = NoRechecks /\ rcRow' = NoRows
  /\ igPlan' = NoRows /\ igLeft' = {}
  /\ stPlan' = NoRows /\ stLeft' = {}
  /\ UNCHANGED <<worldVars, hub, holder, row, directory, mirrored>>

-----------------------------------------------------------------------------
RefreshStep == \/ RefreshStart
               \/ \E m \in Members : RefreshAsk(m) \/ RefreshWrite(m)
PassStep    == \/ PassStart \/ PassGuard \/ PassEnd
               \/ \E m \in Members : PassRead(m) \/ PassWrite(m)
RecheckStep == \E k \in Cards : \/ RecheckRenewed(k) \/ RecheckDenied(k)
                               \/ RecheckWrite(k) \/ RecheckActivate(k)
IngestStep  == IngestStart \/ \E k \in Cards : IngestWrite(k)

Next ==
  \/ RefreshStep \/ PassStep \/ RecheckStep \/ IngestStep
  \/ \E m \in Members : Change(m) \/ DirectorySync(m) \/ Walk(m)
  \/ \E k \in Cards : HubSync(k)
  \/ \E m \in Members : RefreshAskFailed(m) \/ PassWriteFailed(m)
  \/ \E k \in Cards : RefreshWriteFailed(k) \/ RecheckStart(k)
  \/ \E m \in Members : StaffMatch(m)
  \/ \E k \in Cards, m \in Members : StaffReassign(k, m)
  \/ \E k \in Cards : StaffWrite(k) \/ StaffRemove(k) \/ StaffReactivate(k)
  \/ Crash

(* The schedulers run for as long as the process does, each job by itself,  *)
(* and what was begun goes on.  Nobody has to tap, to act, or to ask for a  *)
(* mirror walk.                                                             *)
Fairness ==
  /\ WF_vars(RefreshStep) /\ WF_vars(PassStep)
  /\ WF_vars(RecheckStep) /\ WF_vars(IngestStep)
  /\ WF_vars(\E m \in Members : DirectorySync(m))
  /\ WF_vars(\E k \in Cards : HubSync(k))
  /\ WF_vars(\E k \in Cards : StaffWrite(k))

Spec == Init /\ [][Next]_vars /\ Fairness

-----------------------------------------------------------------------------
(* Properties.                                                              *)

(* A row shows DELETED only of a customer Redpoint has positively said does *)
(* not exist: no failed lookup, stale snapshot or crash turns an outage     *)
(* into deletions (cache/sync.go:165-168).                                  *)
DeletionsAreReal == \A k \in Cards : row[k].badge = "gone" => row[k].src \in wasGone

(* One run of the pass deactivates at most MaxDeactivationsPerRun users,    *)
(* whatever rows it reads and however they change under it.                 *)
GuardHolds == Cardinality(psDone) <= MaxDeactivationsPerRun

(* The user is ACTIVE in the hub just when its customer is in good standing,*)
(* for every user the bridge has a row of.                                  *)
InAgreement ==
  \A m \in Members : RowsOf(m) # {} => (hub[m] = "ACTIVE" <=> truth[m] = "active")

(* Nobody in good standing is shut out.                                      *)
NobodyIsShutOut ==
  \A m \in Members :
    RowsOf(m) # {} /\ truth[m] = "active" => hub[m] = "ACTIVE"

(* Provided every customer ends up one the mirror walk sees, the walk is    *)
(* asked for again and again, and no card's row keeps changing hands (a     *)
(* refresh that straddles the ingest gives a reassigned card back to its    *)
(* old customer every time), the hub ends up agreeing with Redpoint for     *)
(* good (syncer.go:737-742), whatever order sync, walk, refresh, ingest,    *)
(* pass, recheck and staff act in.  The one thing that can stop it is the   *)
(* guard, run after run (syncer.go:811-826), and what it holds back are     *)
(* deactivations: members in good standing end up let in all the same.      *)
WalkedAgain     == WF_vars(\E m \in Members : Walk(m))
SeenByTheWalk   == \A m \in Members : truth[m] \in WalkSees
NoRowIsHandedOn == [][\A k \in Cards : row'[k].of = row[k].of]_row

SettlesIfWalked ==
  WalkedAgain /\ <>[]SeenByTheWalk /\ <>NoRowIsHandedOn
    => \/ <>[]InAgreement
       \/ []<>psHeld /\ <>[]NobodyIsShutOut
=============================================================================

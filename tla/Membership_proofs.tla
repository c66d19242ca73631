--------------------------- MODULE Membership_proofs ---------------------------
(***************************************************************************)
(* The safety properties of Membership, for any number of members, any     *)
(* guard, any mode of status writes and any number of events.              *)
(*                                                                         *)
(* DeletionsAreReal speaks of the table only, but rows also travel in the  *)
(* refresh's snapshot and in the plans of the ingest and the staff, so the *)
(* invariant (Founded) says it of every row that is on its way, and of     *)
(* every answer.  GuardHolds follows from what the guard leaves behind     *)
(* (Capped): the users done and the users still to do are, together, at    *)
(* most MaxDeactivationsPerRun, unless the deactivations are held.         *)
(*                                                                         *)
(* The last section is about the decisions of StatusEngines.               *)
(***************************************************************************)
EXTENDS Membership, StatusEngines, FiniteSetTheorems, WellFoundedInduction, TLAPS

(* A row of the type, whatever its fields are taken from.                   *)
LEMMA RowMade ==
  ASSUME NEW m \in Members, NEW s \in Members, NEW b \in Badges
  PROVE  [of |-> m, badge |-> b, src |-> s] \in Row
BY DEF Row

LEMMA RowParts ==
  ASSUME NEW r \in Row
  PROVE  r.of \in Members /\ r.badge \in Badges /\ r.src \in Members
BY DEF Row

LEMMA RowTaken ==
  ASSUME NEW r \in Row PROVE Taken(r) \in Row
<1> DEFINE b == CASE r.badge = "expired" -> "active"
                  [] r.badge = "inactive" -> "gone"
                  [] OTHER -> r.badge
<1>1. r.of \in Members /\ r.badge \in Badges BY RowParts
<1>2. b \in Badges BY <1>1 DEF Badges
<1>3. Taken(r) = [r EXCEPT !.badge = b, !.src = r.of] BY DEF Taken
<1> HIDE DEF b
<1> QED BY <1>1, <1>2, <1>3 DEF Row

LEMMA NoRowIsRow ==
  /\ \A k \in Cards : NoRow(k) \in Row
  /\ NoRows \in [Cards -> Row]
<1>1. ASSUME NEW k \in Cards PROVE NoRow(k) \in Row
  <2>1. k \in Members /\ "none" \in Badges
    BY DEF Cards, Badges
  <2> QED BY <2>1, RowMade DEF NoRow
<1> QED BY <1>1 DEF NoRows

LEMMA StatusIsBadge == Statuses \subseteq Badges
BY StatusAssumption DEF StatusAssumption, Badges

HubStatuses == {"ACTIVE", "DEACTIVATED"}

(* The parts of the type invariant, for the steps to be proved one by one.  *)
WorldType   == truth \in [Members -> Statuses] /\ wasGone \in SUBSET Members
HubType     == hub \in [Members -> HubStatuses] /\ holder \in [Cards -> Members]
TablesType  == row \in [Cards -> Row] /\ directory \in [Members -> Badges]
RefreshType == /\ rfAt \in {"idle", "asking", "writing"}
               /\ rfSnap \in [Cards -> Row]
               /\ rfGot \in [Members -> Badges \cup {"failed"}]
               /\ rfLeft \in SUBSET Cards
PassType    == /\ psAt \in {"idle", "reading", "writing"}
               /\ psLeft \in SUBSET Members
               /\ psSeen \in [Members -> HubStatuses]
               /\ psOn \in SUBSET Members /\ psOff \in SUBSET Members
               /\ psHeld \in BOOLEAN /\ psDone \in SUBSET Members
RecheckType == /\ rcAt \in [Cards -> {"idle", "asking", "writing", "activating"}]
               /\ rcRow \in [Cards -> Row]
PlansType   == /\ mirrored \in [Cards -> Members]
               /\ igPlan \in [Cards -> Row] /\ igLeft \in SUBSET Cards
               /\ stPlan \in [Cards -> Row] /\ stLeft \in SUBSET Cards

LEMMA TypeParts ==
  TypeOK <=> /\ WorldType /\ HubType /\ TablesType /\ RefreshType /\ PassType
             /\ RecheckType /\ PlansType /\ events \in Nat
BY DEF TypeOK, WorldType, HubType, HubStatuses, TablesType, RefreshType,
       PassType, RecheckType, PlansType

LEMMA InitType == Init => TypeOK
<1> SUFFICES ASSUME Init PROVE TypeOK OBVIOUS
<1> USE NoRowIsRow DEF Init
<1>1. WorldType BY DEF WorldType
<1>2. HubType BY DEF HubType, HubStatuses, Cards
<1>3. TablesType BY DEF TablesType, Badges, WalkSees
<1>4. RefreshType BY DEF RefreshType, NoAnswers, Badges
<1>5. PassType
  <2>1. psHeld \in BOOLEAN BY Zenon
  <2> QED BY <2>1 DEF PassType, Unseen, HubStatuses
<1>6. RecheckType BY DEF RecheckType, NoRechecks
<1>7. PlansType BY DEF PlansType, Cards
<1> QED BY <1>1, <1>2, <1>3, <1>4, <1>5, <1>6, <1>7, TypeParts

LEMMA EventsType ==
  ASSUME TypeOK, [Next]_vars PROVE events' \in Nat
<1>1. events \in Nat BY DEF TypeOK
<1>2. Happens => events' \in Nat BY <1>1 DEF Happens
<1> QED
  BY <1>1, <1>2 DEF Next, RefreshStep, RefreshStart, RefreshAsk, RefreshWrite,
     PassStep, PassStart, PassGuard, PassEnd, PassRead, PassWrite, RecheckStep,
     RecheckRenewed, RecheckDenied, RecheckWrite, RecheckActivate, IngestStep,
     IngestStart, IngestWrite, Change, Walk, DirectorySync, HubSync, RefreshAskFailed, PassWriteFailed,
     RefreshWriteFailed, RecheckStart, StaffMatch, StaffReassign, StaffWrite,
     StaffRemove, StaffReactivate, Crash, vars

(* A table keeps its type when a row is written, and when a row is looked   *)
(* at it has one.                                                           *)
LEMMA RowWritten ==
  ASSUME NEW f \in [Cards -> Row], NEW k \in Cards, NEW r \in Row
  PROVE  [f EXCEPT ![k] = r] \in [Cards -> Row]
OBVIOUS

(* Which actions change what: the rest leaves it alone.                     *)
LEMMA WorldChanges ==
  ASSUME [Next]_vars
  PROVE  \/ UNCHANGED worldVars
         \/ \E m \in Members : Change(m)
BY DEF RefreshStep, RefreshStart, RefreshAsk, RefreshWrite, PassStep,
       PassStart, PassGuard, PassEnd, PassRead, PassWrite,
       PassActivate, PassDeactivate, RecheckStep, RecheckRenewed,
       RecheckDenied, RecheckWrite, RecheckActivate, IngestStep,
       IngestStart, IngestWrite, Walk, DirectorySync, HubSync, RefreshAskFailed,
       PassWriteFailed, RefreshWriteFailed, RecheckStart, StaffMatch,
       StaffReassign, StaffWrite, StaffRemove, StaffReactivate, Crash,
       Answer, WrittenOrSkipped, Next, vars, worldVars, refreshVars,
       passVars, recheckVars, ingestVars, staffVars

LEMMA HubChanges ==
  ASSUME [Next]_vars
  PROVE  \/ UNCHANGED <<hub, holder>>
         \/ \E m \in Members : PassWrite(m)
         \/ \E k \in Cards : RecheckActivate(k)
         \/ \E k \in Cards, m \in Members : StaffReassign(k, m)
         \/ \E k \in Cards : StaffReactivate(k)
BY DEF RefreshStep, RefreshStart, RefreshAsk, RefreshWrite, PassStep,
       PassStart, PassGuard, PassEnd, PassRead, PassActivate,
       PassDeactivate, RecheckStep, RecheckRenewed, RecheckDenied,
       RecheckWrite, IngestStep, IngestStart, IngestWrite, Change,
       Walk, DirectorySync, HubSync, RefreshAskFailed, PassWriteFailed, RefreshWriteFailed,
       RecheckStart, StaffMatch, StaffWrite, StaffRemove, Crash,
       Answer, WrittenOrSkipped, Next, vars, worldVars, refreshVars,
       passVars, recheckVars, ingestVars, staffVars

LEMMA RowChanges ==
  ASSUME [Next]_vars
  PROVE  \/ UNCHANGED row
         \/ \E k \in Cards : \/ RefreshWrite(k) \/ IngestWrite(k)
                             \/ StaffWrite(k) \/ StaffRemove(k)
                             \/ RecheckWrite(k)
BY DEF RefreshStep, RefreshStart, RefreshAsk, PassStep, PassStart,
       PassGuard, PassEnd, PassRead, PassWrite, PassActivate,
       PassDeactivate, RecheckStep, RecheckRenewed, RecheckDenied,
       RecheckActivate, IngestStep, IngestStart, Change, Walk, DirectorySync, HubSync,
       RefreshAskFailed, PassWriteFailed, RefreshWriteFailed,
       RecheckStart, StaffMatch, StaffReassign, StaffReactivate,
       Crash, Answer, WrittenOrSkipped, Next, vars, Cards

LEMMA DirectoryChanges ==
  ASSUME [Next]_vars
  PROVE  \/ UNCHANGED directory
         \/ \E m \in Members : DirectorySync(m) \/ Walk(m)
BY DEF RefreshStep, RefreshStart, RefreshAsk, RefreshWrite, PassStep,
       PassStart, PassGuard, PassEnd, PassRead, PassWrite,
       PassActivate, PassDeactivate, RecheckStep, RecheckRenewed,
       RecheckDenied, RecheckWrite, RecheckActivate, IngestStep,
       IngestStart, IngestWrite, Change, HubSync, RefreshAskFailed,
       PassWriteFailed, RefreshWriteFailed, RecheckStart, StaffMatch,
       StaffReassign, StaffWrite, StaffRemove, StaffReactivate, Crash,
       Answer, WrittenOrSkipped, Next, vars

LEMMA RefreshChanges ==
  ASSUME [Next]_vars
  PROVE  \/ UNCHANGED refreshVars
         \/ RefreshStart \/ Crash
         \/ \E m \in Members : Answer(m, truth[m]) \/ Answer(m, "failed")
         \/ \E k \in Cards : WrittenOrSkipped(k)
BY DEF RefreshStep, RefreshAsk, RefreshWrite, PassStep, PassStart,
       PassGuard, PassEnd, PassRead, PassWrite, PassActivate,
       PassDeactivate, RecheckStep, RecheckRenewed, RecheckDenied,
       RecheckWrite, RecheckActivate, IngestStep, IngestStart,
       IngestWrite, Change, Walk, DirectorySync, HubSync, RefreshAskFailed, PassWriteFailed,
       RefreshWriteFailed, RecheckStart, StaffMatch, StaffReassign,
       StaffWrite, StaffRemove, StaffReactivate, Next, vars,
       worldVars, refreshVars, passVars, recheckVars, ingestVars,
       staffVars, Cards

LEMMA PassChanges ==
  ASSUME [Next]_vars
  PROVE  \/ UNCHANGED passVars
         \/ PassStart \/ PassGuard \/ PassEnd \/ Crash
         \/ \E m \in Members : PassRead(m)
         \/ \E m \in Members, answered \in BOOLEAN :
               PassActivate(m, answered) \/ PassDeactivate(m, answered)
BY DEF RefreshStep, RefreshStart, RefreshAsk, RefreshWrite, PassStep,
       PassWrite, RecheckStep, RecheckRenewed, RecheckDenied,
       RecheckWrite, RecheckActivate, IngestStep, IngestStart,
       IngestWrite, Change, Walk, DirectorySync, HubSync, RefreshAskFailed, PassWriteFailed,
       RefreshWriteFailed, RecheckStart, StaffMatch, StaffReassign,
       StaffWrite, StaffRemove, StaffReactivate, Answer,
       WrittenOrSkipped, Next, vars, worldVars, refreshVars, passVars,
       recheckVars, ingestVars, staffVars

LEMMA RecheckChanges ==
  ASSUME [Next]_vars
  PROVE  \/ UNCHANGED recheckVars
         \/ \E k \in Cards : \/ RecheckStart(k) \/ RecheckRenewed(k)
                             \/ RecheckDenied(k) \/ RecheckWrite(k)
                             \/ RecheckActivate(k)
         \/ Crash
BY DEF RefreshStep, RefreshStart, RefreshAsk, RefreshWrite, PassStep,
       PassStart, PassGuard, PassEnd, PassRead, PassWrite,
       PassActivate, PassDeactivate, RecheckStep, IngestStep,
       IngestStart, IngestWrite, Change, Walk, DirectorySync, HubSync, RefreshAskFailed,
       PassWriteFailed, RefreshWriteFailed, StaffMatch, StaffReassign,
       StaffWrite, StaffRemove, StaffReactivate, Answer,
       WrittenOrSkipped, Next, vars, worldVars, refreshVars, passVars,
       recheckVars, ingestVars, staffVars

LEMMA IngestChanges ==
  ASSUME [Next]_vars
  PROVE  \/ UNCHANGED <<mirrored, igPlan, igLeft>>
         \/ IngestStart
         \/ \E k \in Cards : IngestWrite(k) \/ HubSync(k)
         \/ Crash
BY DEF RefreshStep, RefreshStart, RefreshAsk, RefreshWrite, PassStep,
       PassStart, PassGuard, PassEnd, PassRead, PassWrite,
       PassActivate, PassDeactivate, RecheckStep, RecheckRenewed,
       RecheckDenied, RecheckWrite, RecheckActivate, IngestStep,
       Change, Walk, DirectorySync, RefreshAskFailed, PassWriteFailed,
       RefreshWriteFailed, RecheckStart, StaffRemove, StaffReactivate,
       Answer, WrittenOrSkipped, Next, vars, worldVars, refreshVars,
       passVars, recheckVars, ingestVars, staffVars, StaffMatch,
       StaffReassign, StaffWrite

LEMMA StaffChanges ==
  ASSUME [Next]_vars
  PROVE  \/ UNCHANGED staffVars
         \/ \E m \in Members : StaffMatch(m)
         \/ \E k \in Cards, m \in Members : StaffReassign(k, m)
         \/ \E k \in Cards : StaffWrite(k)
         \/ Crash
BY DEF RefreshStep, RefreshStart, RefreshAsk, RefreshWrite, PassStep,
       PassStart, PassGuard, PassEnd, PassRead, PassWrite,
       PassActivate, PassDeactivate, RecheckStep, RecheckRenewed,
       RecheckDenied, RecheckWrite, RecheckActivate, IngestStep,
       Change, Walk, DirectorySync, HubSync, RefreshAskFailed, PassWriteFailed,
       RefreshWriteFailed, RecheckStart, StaffRemove, StaffReactivate,
       Answer, WrittenOrSkipped, Next, vars, worldVars, refreshVars,
       passVars, recheckVars, ingestVars, staffVars, IngestStart,
       IngestWrite, Cards

(* Every step keeps the types.                                              *)
LEMMA NextWorldType ==
  ASSUME TypeOK, [Next]_vars PROVE WorldType'
<1> USE DEF WorldType
<1>0. WorldType BY TypeParts
<1>1. CASE UNCHANGED worldVars BY <1>0, <1>1 DEF worldVars
<1>2. ASSUME NEW m \in Members, Change(m) PROVE WorldType'
  BY <1>0, <1>2 DEF Change
<1> QED BY <1>1, <1>2, WorldChanges

LEMMA NextHubType ==
  ASSUME TypeOK, [Next]_vars PROVE HubType'
<1> USE DEF HubType, HubStatuses
<1>0. HubType /\ TablesType /\ RecheckType BY TypeParts
<1>1. CASE UNCHANGED <<hub, holder>> BY <1>0, <1>1
<1>2. ASSUME NEW m \in Members, PassWrite(m) PROVE HubType'
  BY <1>0, <1>2 DEF PassWrite, PassActivate, PassDeactivate
<1>3. ASSUME NEW k \in Cards, RecheckActivate(k) PROVE HubType'
  BY <1>0, <1>3 DEF RecheckActivate, RecheckType
<1>4. ASSUME NEW k \in Cards, NEW m \in Members, StaffReassign(k, m) PROVE HubType'
  BY <1>0, <1>4 DEF StaffReassign
<1>5. ASSUME NEW k \in Cards, StaffReactivate(k) PROVE HubType'
  BY <1>0, <1>5 DEF StaffReactivate, TablesType
<1> QED BY <1>1, <1>2, <1>3, <1>4, <1>5, HubChanges

LEMMA NextTablesType ==
  ASSUME TypeOK, [Next]_vars PROVE TablesType'
<1>0. /\ row \in [Cards -> Row] /\ directory \in [Members -> Badges]
      /\ rfSnap \in [Cards -> Row] /\ rfGot \in [Members -> Badges \cup {"failed"}]
      /\ rcRow \in [Cards -> Row]
      /\ igPlan \in [Cards -> Row] /\ stPlan \in [Cards -> Row]
  BY DEF TypeOK
<1>1. row' \in [Cards -> Row]
  <2>1. CASE UNCHANGED row BY <1>0, <2>1
  <2>2. ASSUME NEW k \in Cards, RefreshWrite(k) PROVE row' \in [Cards -> Row]
    <3> DEFINE m == rfSnap[k].of
    <3>1. m \in Members /\ rfGot[m] \in Badges \cup {"failed"}
      BY <1>0, RowParts
    <3>2. row' = Updated(k) BY <2>2 DEF RefreshWrite
    <3>3. CASE rfGot[m] = "failed" BY <1>0, <3>2, <3>3 DEF Updated
    <3>4. CASE rfGot[m] # "failed"
      <4>1. [of |-> m, badge |-> rfGot[m], src |-> m] \in Row
        BY <3>1, <3>4, RowMade
      <4>2. [row EXCEPT ![k] = [of |-> m, badge |-> rfGot[m], src |-> m]]
              \in [Cards -> Row]
        BY <1>0, <4>1, RowWritten
      <4> QED BY <1>0, <3>2, <4>2 DEF Updated
    <3> QED BY <3>3, <3>4
  <2>3. ASSUME NEW k \in Cards, IngestWrite(k) PROVE row' \in [Cards -> Row]
    BY <1>0, <2>3, RowWritten DEF IngestWrite
  <2>4. ASSUME NEW k \in Cards, StaffWrite(k) PROVE row' \in [Cards -> Row]
    BY <1>0, <2>4, RowWritten DEF StaffWrite
  <2>5. ASSUME NEW k \in Cards, StaffRemove(k) PROVE row' \in [Cards -> Row]
    BY <1>0, <2>5, RowWritten, NoRowIsRow DEF StaffRemove
  <2>6. ASSUME NEW k \in Cards, RecheckWrite(k) PROVE row' \in [Cards -> Row]
    <3>1. rcRow[k].of \in Members /\ "active" \in Badges
      BY <1>0, RowParts DEF Badges
    <3>2. [of |-> rcRow[k].of, badge |-> "active", src |-> rcRow[k].of] \in Row
      BY <3>1, RowMade
    <3> QED BY <1>0, <2>6, <3>2, RowWritten DEF RecheckWrite
  <2> QED BY <2>1, <2>2, <2>3, <2>4, <2>5, <2>6, RowChanges
<1>2. directory' \in [Members -> Badges]
  <2>1. CASE UNCHANGED directory BY <1>0, <2>1
  <2>2. ASSUME NEW m \in Members, DirectorySync(m) \/ Walk(m)
        PROVE  directory' \in [Members -> Badges]
    BY <1>0, <2>2 DEF DirectorySync, Walk, WalkSees, Badges
  <2> QED BY <2>1, <2>2, DirectoryChanges
<1> QED BY <1>1, <1>2 DEF TablesType

LEMMA NextRefreshType ==
  ASSUME TypeOK, [Next]_vars PROVE RefreshType'
<1> USE DEF RefreshType
<1>0. RefreshType /\ TablesType /\ truth \in [Members -> Statuses]
  BY TypeParts DEF TypeOK
<1>a. NoAnswers \in [Members -> Badges \cup {"failed"}]
  BY DEF NoAnswers, Badges
<1>1. CASE UNCHANGED refreshVars BY <1>0, <1>1 DEF refreshVars
<1>2. CASE RefreshStart
  <2>1. rfSnap' \in [Cards -> Row]
    BY <1>0, <1>2, RowTaken DEF RefreshStart, TablesType
  <2> QED BY <1>0, <1>2, <1>a, <2>1 DEF RefreshStart, Listed
<1>3. CASE Crash BY <1>0, <1>3, <1>a, NoRowIsRow DEF Crash
<1>4. ASSUME NEW m \in Members, NEW status \in Badges \cup {"failed"},
             Answer(m, status)
      PROVE RefreshType'
  BY <1>0, <1>4 DEF Answer
<1>5. ASSUME NEW k \in Cards, WrittenOrSkipped(k) PROVE RefreshType'
  BY <1>0, <1>5, <1>a, NoRowIsRow DEF WrittenOrSkipped
<1>6. \A m \in Members : truth[m] \in Badges
  BY <1>0, StatusIsBadge
<1> QED BY <1>1, <1>2, <1>3, <1>4, <1>5, <1>6, RefreshChanges

LEMMA NextPassType ==
  ASSUME TypeOK, [Next]_vars PROVE PassType'
<1> USE DEF PassType
<1>0. PassType /\ HubType BY TypeParts
<1>a. Unseen \in [Members -> HubStatuses] BY DEF Unseen, HubStatuses
<1>1. CASE UNCHANGED passVars BY <1>0, <1>1 DEF passVars
<1>2. CASE PassStart BY <1>0, <1>2 DEF PassStart, HubType
<1>3. CASE PassGuard
  <2>1. psHeld' \in BOOLEAN
    <3>1. psHeld' = (Cardinality(psOff) > MaxDeactivationsPerRun)
      BY <1>3 DEF PassGuard
    <3>2. (Cardinality(psOff) > MaxDeactivationsPerRun) \in BOOLEAN
      OBVIOUS
    <3> QED BY <3>1, <3>2, Zenon
  <2> QED BY <1>0, <1>3, <2>1 DEF PassGuard
<1>4. CASE PassEnd
  <2>1. psHeld' \in BOOLEAN BY <1>4, Zenon DEF PassEnd
  <2> QED BY <1>0, <1>4, <1>a, <2>1 DEF PassEnd
<1>5. CASE Crash
  <2>1. psHeld' \in BOOLEAN BY <1>5, Zenon DEF Crash
  <2> QED BY <1>0, <1>5, <1>a, <2>1 DEF Crash
<1>6. ASSUME NEW m \in Members, PassRead(m) PROVE PassType'
  BY <1>0, <1>6 DEF PassRead, HubStatuses
<1>7. ASSUME NEW m \in Members, NEW answered \in BOOLEAN, PassActivate(m, answered)
      PROVE PassType'
  BY <1>0, <1>7 DEF PassActivate
<1>8. ASSUME NEW m \in Members, NEW answered \in BOOLEAN, PassDeactivate(m, answered)
      PROVE PassType'
  BY <1>0, <1>8 DEF PassDeactivate
<1> QED BY <1>1, <1>2, <1>3, <1>4, <1>5, <1>6, <1>7, <1>8, PassChanges

LEMMA NextRecheckType ==
  ASSUME TypeOK, [Next]_vars PROVE RecheckType'
<1> USE DEF RecheckType
<1>0. RecheckType /\ TablesType BY TypeParts
<1>1. CASE UNCHANGED recheckVars BY <1>0, <1>1 DEF recheckVars
<1>a. NoRechecks \in [Cards -> {"idle", "asking", "writing", "activating"}]
  BY DEF NoRechecks
<1>2. ASSUME NEW k \in Cards, RecheckRenewed(k) PROVE RecheckType'
  BY <1>0, <1>2 DEF RecheckRenewed
<1>3. ASSUME NEW k \in Cards, RecheckDenied(k) PROVE RecheckType'
  BY <1>a, <1>3, NoRowIsRow DEF RecheckDenied
<1>4. ASSUME NEW k \in Cards, RecheckWrite(k) PROVE RecheckType'
  BY <1>0, <1>4, NoRowIsRow DEF RecheckWrite
<1>5. ASSUME NEW k \in Cards, RecheckActivate(k) PROVE RecheckType'
  BY <1>0, <1>a, <1>5 DEF RecheckActivate
<1>6. ASSUME NEW k \in Cards, RecheckStart(k) PROVE RecheckType'
  BY <1>0, <1>6, RowWritten DEF RecheckStart, TablesType
<1>7. CASE Crash BY <1>a, <1>7, NoRowIsRow DEF Crash
<1> QED BY <1>1, <1>2, <1>3, <1>4, <1>5, <1>6, <1>7, RecheckChanges

(* The plans hold rows made of what is in the tables.                       *)
LEMMA NextPlansType ==
  ASSUME TypeOK, [Next]_vars PROVE PlansType'
<1> USE DEF PlansType
<1>0. PlansType /\ TablesType /\ truth \in [Members -> Statuses]
  BY TypeParts DEF TypeOK
<1>1. /\ mirrored' \in [Cards -> Members]
      /\ igPlan' \in [Cards -> Row] /\ igLeft' \in SUBSET Cards
  <2>0. holder \in [Cards -> Members] BY DEF TypeOK
  <2>1. CASE UNCHANGED <<mirrored, igPlan, igLeft>> BY <1>0, <2>1
  <2>2. CASE IngestStart
    <3>1. /\ igLeft' = {k \in Cards : directory[mirrored[k]] # "none"}
          /\ igPlan' = [k \in Cards |->
                          IF k \in igLeft'
                          THEN [of    |-> mirrored[k],
                                badge |-> directory[mirrored[k]],
                                src   |-> mirrored[k]]
                          ELSE NoRow(k)]
      BY <2>2 DEF IngestStart
    <3>2. ASSUME NEW k \in Cards
          PROVE  [of |-> mirrored[k], badge |-> directory[mirrored[k]],
                  src |-> mirrored[k]] \in Row
      <4>1. mirrored[k] \in Members /\ directory[mirrored[k]] \in Badges
        BY <1>0 DEF TablesType
      <4> QED BY <4>1, RowMade
    <3> QED BY <1>0, <2>2, <3>1, <3>2, NoRowIsRow DEF IngestStart
  <2>3. ASSUME NEW k \in Cards, IngestWrite(k)
        PROVE  /\ mirrored' \in [Cards -> Members]
               /\ igPlan' \in [Cards -> Row] /\ igLeft' \in SUBSET Cards
    BY <1>0, <2>3, NoRowIsRow, RowWritten DEF IngestWrite
  <2>4. CASE Crash BY <1>0, <2>4, NoRowIsRow DEF Crash
  <2>5. ASSUME NEW k \in Cards, HubSync(k)
        PROVE  /\ mirrored' \in [Cards -> Members]
               /\ igPlan' \in [Cards -> Row] /\ igLeft' \in SUBSET Cards
    BY <1>0, <2>0, <2>5 DEF HubSync
  <2> QED BY <2>1, <2>2, <2>3, <2>4, <2>5, IngestChanges
<1>2. stPlan' \in [Cards -> Row] /\ stLeft' \in SUBSET Cards
  <2>1. CASE UNCHANGED staffVars BY <1>0, <2>1 DEF staffVars
  <2>2. ASSUME NEW m \in Members, StaffMatch(m)
        PROVE  stPlan' \in [Cards -> Row] /\ stLeft' \in SUBSET Cards
    <3>1. PICK b \in {truth[m]} \cup (IF truth[m] = "expired" THEN {"active"} ELSE {}) :
            stPlan' = [k \in Cards |->
                        IF k \in stLeft' THEN [of |-> m, badge |-> b, src |-> m]
                        ELSE NoRow(k)]
      BY <2>2 DEF StaffMatch
    <3>2. b \in Badges BY <1>0, StatusIsBadge DEF Badges
    <3>3. [of |-> m, badge |-> b, src |-> m] \in Row BY <3>2, RowMade
    <3>4. stPlan' \in [Cards -> Row] BY <3>1, <3>3, NoRowIsRow
    <3>5. stLeft' \in SUBSET Cards BY <2>2 DEF StaffMatch
    <3> QED BY <3>4, <3>5
  <2>3. ASSUME NEW k \in Cards, NEW m \in Members, StaffReassign(k, m)
        PROVE  stPlan' \in [Cards -> Row] /\ stLeft' \in SUBSET Cards
    <3>1. [row[k] EXCEPT !.of = m] \in Row
      BY <1>0 DEF TablesType, Row
    <3>2. [stPlan EXCEPT ![k] = [row[k] EXCEPT !.of = m]] \in [Cards -> Row]
      BY <1>0, <3>1, RowWritten
    <3> QED BY <1>0, <2>3, <3>2 DEF StaffReassign, staffVars
  <2>4. ASSUME NEW k \in Cards, StaffWrite(k)
        PROVE  stPlan' \in [Cards -> Row] /\ stLeft' \in SUBSET Cards
    BY <1>0, <2>4, NoRowIsRow, RowWritten DEF StaffWrite
  <2>5. CASE Crash BY <2>5, NoRowIsRow DEF Crash
  <2> QED BY <2>1, <2>2, <2>3, <2>4, <2>5, StaffChanges
<1> QED BY <1>1, <1>2

LEMMA NextType ==
  ASSUME TypeOK, [Next]_vars PROVE TypeOK'
<1>1. /\ WorldType' /\ HubType' /\ TablesType' /\ RefreshType' /\ PassType'
      /\ RecheckType' /\ PlansType' /\ events' \in Nat
  BY NextWorldType, NextHubType, NextTablesType, NextRefreshType, NextPassType,
     NextRecheckType, NextPlansType, EventsType
<1> QED
  BY <1>1 DEF TypeOK, WorldType, HubType, HubStatuses, TablesType, RefreshType,
     PassType, RecheckType, PlansType

(* The tables, the hub and the five writers keep their types.               *)
THEOREM TypeCorrect == Spec => []TypeOK
<1>1. Init => TypeOK BY InitType
<1>2. TypeOK /\ [Next]_vars => TypeOK' BY NextType
<1> QED BY <1>1, <1>2, PTL DEF Spec

-----------------------------------------------------------------------------
(* Deletions.  Every row, wherever it is, says "gone" only of a customer    *)
(* Redpoint has denied knowing; so do the answers; the directory never.     *)
Real(r) == r.badge = "gone" => r.src \in wasGone

Founded ==
  /\ \A m \in Members : truth[m] = "gone" => m \in wasGone
  /\ \A m \in Members : directory[m] # "gone"
  /\ \A m \in Members : rfGot[m] = "gone" => m \in wasGone
  /\ \A k \in Cards : Real(row[k]) /\ Real(igPlan[k]) /\ Real(stPlan[k])

LEMMA InitFounded == Init => Founded
<1> SUFFICES ASSUME Init PROVE Founded OBVIOUS
<1>1. \A k \in Cards : Real(NoRow(k)) BY DEF Real, NoRow
<1>2. \A m \in Members : directory[m] # "gone" BY DEF Init, WalkSees
<1> QED BY <1>1, <1>2 DEF Init, Founded, NoRows, NoAnswers

LEMMA NextFounded ==
  ASSUME TypeOK, Founded, [Next]_vars PROVE Founded'
<1>0. /\ truth \in [Members -> Statuses] /\ row \in [Cards -> Row]
      /\ directory \in [Members -> Badges] /\ rfGot \in [Members -> Badges \cup {"failed"}]
      /\ rfSnap \in [Cards -> Row]
      /\ rcRow \in [Cards -> Row]
      /\ igPlan \in [Cards -> Row] /\ stPlan \in [Cards -> Row]
  BY DEF TypeOK
<1>a. /\ wasGone \subseteq wasGone'
      /\ \A m \in Members : truth'[m] = "gone" => m \in wasGone'
  <2>1. CASE UNCHANGED worldVars BY <2>1 DEF worldVars, Founded
  <2>2. ASSUME NEW m \in Members, Change(m)
        PROVE  /\ wasGone \subseteq wasGone'
               /\ \A n \in Members : truth'[n] = "gone" => n \in wasGone'
    BY <1>0, <2>2 DEF Change, Founded
  <2> QED BY <2>1, <2>2, WorldChanges
<1>b. \A r \in Row : Real(r) => Real(r)'
  BY <1>a DEF Real
<1>c. \A k \in Cards : NoRow(k) \in Row /\ Real(NoRow(k)) /\ Real(NoRow(k))'
  BY NoRowIsRow DEF Real, NoRow
<1>1. \A m \in Members : directory'[m] # "gone"
  <2>1. CASE UNCHANGED directory BY <2>1 DEF Founded
  <2>2. ASSUME NEW m \in Members, DirectorySync(m) \/ Walk(m)
        PROVE  \A n \in Members : directory'[n] # "gone"
    BY <1>0, <2>2 DEF DirectorySync, Walk, WalkSees, Founded
  <2> QED BY <2>1, <2>2, DirectoryChanges
<1>2. \A m \in Members : rfGot'[m] = "gone" => m \in wasGone'
  <2> DEFINE Goal == \A m \in Members : rfGot'[m] = "gone" => m \in wasGone'
  <2>0. \A m \in Members : NoAnswers[m] # "gone" BY DEF NoAnswers
  <2>1. CASE UNCHANGED refreshVars BY <1>a, <2>1 DEF refreshVars, Founded
  <2>2. CASE RefreshStart \/ Crash BY <2>0, <2>2 DEF RefreshStart, Crash
  <2>3. ASSUME NEW m \in Members, Answer(m, truth[m]) \/ Answer(m, "failed") PROVE Goal
    BY <1>0, <1>a, <2>3 DEF Answer, Founded
  <2>4. ASSUME NEW k \in Cards, WrittenOrSkipped(k) PROVE Goal
    BY <1>0, <1>a, <2>0, <2>4 DEF WrittenOrSkipped, Founded
  <2> QED BY <2>1, <2>2, <2>3, <2>4, RefreshChanges
<1>3. \A k \in Cards : Real(row[k])'
  <2> DEFINE Goal == \A k \in Cards : Real(row[k])'
  <2>0. \A k \in Cards : row[k] \in Row /\ Real(row[k]) BY <1>0 DEF Founded
  <2>a. ASSUME NEW k \in Cards, NEW r \in Row, row' = [row EXCEPT ![k] = r],
               r.badge = "gone" => r.src \in wasGone'
        PROVE  Goal
    <3> SUFFICES ASSUME NEW c \in Cards PROVE Real(row[c])' OBVIOUS
    <3>1. CASE c = k
      <4>1. row'[c] = r BY <1>0, <2>a, <3>1
      <4> QED BY <2>a, <4>1 DEF Real
    <3>2. CASE c # k
      <4>1. row'[c] = row[c] BY <1>0, <2>a, <3>2
      <4> QED BY <1>b, <2>0, <4>1 DEF Real
    <3> QED BY <3>1, <3>2
  <2>1. CASE UNCHANGED row
    <3>1. \A k \in Cards : row'[k] = row[k] BY <2>1
    <3> QED BY <1>b, <2>0, <3>1 DEF Real
  <2>2. ASSUME NEW k \in Cards, RefreshWrite(k) PROVE Goal
    <3> DEFINE m == rfSnap[k].of
               r == [of |-> m, badge |-> rfGot[m], src |-> m]
    <3>1. m \in Members /\ rfGot[m] \in Badges \cup {"failed"}
      BY <1>0, RowParts
    <3>2. row' = row \/ (rfGot[m] # "failed" /\ row' = [row EXCEPT ![k] = r])
      BY <2>2 DEF RefreshWrite, Updated
    <3>3. CASE row' = row BY <2>1, <3>3
    <3>4. CASE rfGot[m] # "failed" /\ row' = [row EXCEPT ![k] = r]
      <4>1. r \in Row BY <3>1, <3>4, RowMade
      <4>2. r.badge = "gone" => m \in wasGone BY <3>1 DEF Founded
      <4>3. r.badge = "gone" => r.src \in wasGone'
        BY <1>a, <4>2
      <4> QED
        <5> HIDE DEF r, Goal
        <5> QED BY <2>a, <3>4, <4>1, <4>3
    <3> QED BY <3>2, <3>3, <3>4
  <2>3. ASSUME NEW k \in Cards, IngestWrite(k) PROVE Goal
    <3>1. igPlan[k] \in Row /\ Real(igPlan[k]) BY <1>0 DEF Founded
    <3>2. row' = row \/ row' = [row EXCEPT ![k] = igPlan[k]]
      BY <2>3 DEF IngestWrite
    <3> DEFINE r == igPlan[k]
    <3>3. r \in Row /\ (igPlan[k].badge = "gone" => igPlan[k].src \in wasGone')
      BY <1>a, <3>1 DEF Real
    <3> QED BY <1>0, <1>b, <2>0, <2>1, <3>2, <3>3 DEF Real
  <2>4. ASSUME NEW k \in Cards, StaffWrite(k) PROVE Goal
    <3>1. stPlan[k] \in Row /\ Real(stPlan[k]) BY <1>0 DEF Founded
    <3>2. row' = [row EXCEPT ![k] = stPlan[k]]
      BY <2>4 DEF StaffWrite
    <3>3. stPlan[k] \in Row /\ (stPlan[k].badge = "gone" => stPlan[k].src \in wasGone')
      BY <1>a, <3>1 DEF Real
    <3> QED BY <1>0, <1>b, <2>0, <3>2, <3>3 DEF Real
  <2>5. ASSUME NEW k \in Cards, StaffRemove(k) PROVE Goal
    BY <1>c, <2>a, <2>5 DEF StaffRemove, NoRow
  <2>6. ASSUME NEW k \in Cards, RecheckWrite(k) PROVE Goal
    <3> DEFINE r == [of |-> rcRow[k].of, badge |-> "active", src |-> rcRow[k].of]
    <3>1. rcRow[k].of \in Members /\ "active" \in Badges
      BY <1>0, RowParts DEF Badges
    <3>2. r \in Row /\ r.badge # "gone"
      BY <3>1, RowMade
    <3>3. row' = row \/ row' = [row EXCEPT ![k] = r]
      BY <2>6 DEF RecheckWrite
    <3>4. CASE row' = row BY <2>1, <3>4
    <3>5. CASE row' = [row EXCEPT ![k] = r]
      <4> HIDE DEF r
      <4> QED BY <1>0, <2>a, <3>2, <3>5
    <3> QED BY <3>3, <3>4, <3>5
  <2> QED BY <2>1, <2>2, <2>3, <2>4, <2>5, <2>6, RowChanges
<1>4. \A k \in Cards : Real(igPlan[k])'
  <2> DEFINE Goal == \A k \in Cards : Real(igPlan[k])'
  <2>0. \A k \in Cards : igPlan[k] \in Row /\ (igPlan[k].badge = "gone" => igPlan[k].src \in wasGone')
    BY <1>0, <1>a DEF Founded, Real
  <2>1. CASE UNCHANGED <<mirrored, igPlan, igLeft>> BY <2>0, <2>1 DEF Real
  <2>2. CASE IngestStart
    <3>1. igPlan' = [k \in Cards |->
                      IF k \in igLeft'
                      THEN [of    |-> mirrored[k],
                            badge |-> directory[mirrored[k]],
                            src   |-> mirrored[k]]
                      ELSE NoRow(k)]
      BY <2>2 DEF IngestStart
    <3>2. \A k \in Cards : directory[mirrored[k]] # "gone"
      BY DEF Founded, TypeOK
    <3>3. \A k \in Cards : igPlan'[k].badge # "gone"
      BY <3>1, <3>2 DEF NoRow
    <3> QED BY <3>3 DEF Real
  <2>3. ASSUME NEW k \in Cards, IngestWrite(k) PROVE Goal
    BY <1>0, <1>c, <2>0, <2>3 DEF IngestWrite, Real
  <2>4. CASE Crash BY <1>c, <2>4 DEF Crash, NoRows, Real
  <2>5. ASSUME NEW k \in Cards, HubSync(k) PROVE Goal
    BY <2>0, <2>5 DEF HubSync, Real
  <2> QED BY <2>1, <2>2, <2>3, <2>4, <2>5, IngestChanges
<1>5. \A k \in Cards : Real(stPlan[k])'
  <2> DEFINE Goal == \A k \in Cards : Real(stPlan[k])'
  <2>0. \A k \in Cards : stPlan[k] \in Row /\ (stPlan[k].badge = "gone" => stPlan[k].src \in wasGone')
    BY <1>0, <1>a DEF Founded, Real
  <2>1. CASE UNCHANGED staffVars BY <2>0, <2>1 DEF staffVars, Real
  <2>2. ASSUME NEW m \in Members, StaffMatch(m) PROVE Goal
    <3>1. PICK b \in {truth[m]} \cup (IF truth[m] = "expired" THEN {"active"} ELSE {}) :
            stPlan' = [k \in Cards |->
                        IF k \in stLeft' THEN [of |-> m, badge |-> b, src |-> m]
                        ELSE NoRow(k)]
      BY <2>2 DEF StaffMatch
    <3>2. b # "gone" BY <2>2 DEF StaffMatch
    <3>3. \A k \in Cards : stPlan'[k].badge # "gone"
      BY <3>1, <3>2 DEF NoRow
    <3> QED BY <3>3 DEF Real
  <2>3. ASSUME NEW k \in Cards, NEW m \in Members, StaffReassign(k, m) PROVE Goal
    <3>1. row[k] \in Row /\ (row[k].badge = "gone" => row[k].src \in wasGone')
      BY <1>0, <1>a DEF Founded, Real
    <3> DEFINE r == [row[k] EXCEPT !.of = m]
    <3>2. r \in Row /\ (r.badge = "gone" => r.src \in wasGone')
      BY <3>1 DEF Row
    <3>3. stPlan' = stPlan \/ stPlan' = [stPlan EXCEPT ![k] = r]
      BY <2>3 DEF StaffReassign, staffVars
    <3> HIDE DEF r
    <3> QED BY <1>0, <2>0, <3>2, <3>3 DEF Real
  <2>4. ASSUME NEW k \in Cards, StaffWrite(k) PROVE Goal
    BY <1>0, <1>c, <2>0, <2>4 DEF StaffWrite, Real
  <2>5. CASE Crash BY <1>c, <2>5 DEF Crash, NoRows, Real
  <2> QED BY <2>1, <2>2, <2>3, <2>4, <2>5, StaffChanges
<1> QED BY <1>a, <1>1, <1>2, <1>3, <1>4, <1>5 DEF Founded, Real

(* Whatever lookups fail, rows change under the refresh, processes crash    *)
(* and staff moves cards: no customer Redpoint has never denied knowing is  *)
(* shown as deleted.                                                        *)
THEOREM DeletionsReal == Spec => []DeletionsAreReal
<1>1. Init => TypeOK /\ Founded BY InitType, InitFounded
<1>2. TypeOK /\ Founded /\ [Next]_vars => (TypeOK /\ Founded)'
  BY NextType, NextFounded
<1>3. Founded => DeletionsAreReal BY DEF Founded, Real, DeletionsAreReal
<1> QED BY <1>1, <1>2, <1>3, PTL DEF Spec

-----------------------------------------------------------------------------
(* The guard.  Once it has looked, the users done and the users to be done  *)
(* are together within the cap, or the deactivations are held.              *)
Capped ==
  /\ psAt # "writing" => psDone = {}
  /\ psAt = "writing" /\ psHeld => psDone = {}
  /\ psAt = "writing" /\ ~psHeld =>
       Cardinality(psDone \cup psOff) <= MaxDeactivationsPerRun

LEMMA InitCapped == Init => Capped
BY DEF Init, Capped

LEMMA NextCapped ==
  ASSUME TypeOK, Capped, [Next]_vars PROVE Capped'
<1>0. psOff \in SUBSET Members /\ psDone \in SUBSET Members
  BY DEF TypeOK
<1>1. CASE UNCHANGED passVars BY <1>1 DEF passVars, Capped
<1>2. CASE PassStart BY <1>2 DEF PassStart, Capped
<1>3. CASE PassGuard
  <2>1. psDone = {} /\ psDone' = {} /\ psOff' = psOff /\ psAt' = "writing"
    BY <1>3 DEF PassGuard, Capped
  <2>2. psDone' \cup psOff' = psOff BY <2>1
  <2>3. Cardinality(psOff) \in Nat
    BY <1>0, MembersAssumption, FS_Subset, FS_CardinalityType DEF MembersAssumption
  <2>4. ~psHeld' => Cardinality(psOff) <= MaxDeactivationsPerRun
    <3>1. psHeld' = (Cardinality(psOff) > MaxDeactivationsPerRun)
      BY <1>3 DEF PassGuard
    <3>2. ~psHeld' => ~(Cardinality(psOff) > MaxDeactivationsPerRun)
      BY <3>1, Zenon
    <3> QED BY <2>3, <3>2, ModeAssumption DEF ModeAssumption
  <2> QED BY <2>1, <2>2, <2>4 DEF Capped
<1>4. CASE PassEnd BY <1>4 DEF PassEnd, Capped
<1>5. CASE Crash BY <1>5 DEF Crash, Capped
<1>6. ASSUME NEW m \in Members, PassRead(m) PROVE Capped'
  BY <1>6 DEF PassRead, Capped
<1>7. ASSUME NEW m \in Members, NEW answered \in BOOLEAN, PassActivate(m, answered)
      PROVE Capped'
  BY <1>7 DEF PassActivate, Capped
<1>8. ASSUME NEW m \in Members, NEW answered \in BOOLEAN, PassDeactivate(m, answered)
      PROVE Capped'
  <2>1. psAt = "writing" /\ psAt' = "writing" /\ psHeld' = psHeld
        /\ psOff' = psOff \ {m} /\ m \in psOff
    BY <1>8 DEF PassDeactivate
  <2>2. psDone' = psDone \/ (~psHeld /\ psDone' = psDone \cup {m})
    BY <1>8 DEF PassDeactivate
  <2>3. psHeld' => psDone' = {} BY <2>1, <2>2 DEF Capped
  <2>4. ASSUME ~psHeld
        PROVE  Cardinality(psDone' \cup psOff') <= MaxDeactivationsPerRun
    <3>1. Cardinality(psDone \cup psOff) <= MaxDeactivationsPerRun
      BY <2>1, <2>4 DEF Capped
    <3>2. psDone' \cup psOff' \subseteq psDone \cup psOff
      BY <2>1, <2>2
    <3>3. IsFiniteSet(psDone \cup psOff)
      BY <1>0, MembersAssumption, FS_Subset DEF MembersAssumption
    <3>4. /\ Cardinality(psDone' \cup psOff') <= Cardinality(psDone \cup psOff)
          /\ IsFiniteSet(psDone' \cup psOff')
      BY <3>2, <3>3, FS_Subset
    <3>5. Cardinality(psDone' \cup psOff') \in Nat /\ Cardinality(psDone \cup psOff) \in Nat
      BY <3>3, <3>4, FS_CardinalityType
    <3> QED BY <3>1, <3>4, <3>5, ModeAssumption DEF ModeAssumption
  <2> QED BY <2>1, <2>3, <2>4 DEF Capped
<1> QED BY <1>1, <1>2, <1>3, <1>4, <1>5, <1>6, <1>7, <1>8, PassChanges

LEMMA CappedHolds ==
  ASSUME TypeOK, Capped PROVE GuardHolds
<1>0. IsFiniteSet(psDone \cup psOff)
  BY MembersAssumption, FS_Subset DEF MembersAssumption, TypeOK
<1>1. /\ Cardinality(psDone) <= Cardinality(psDone \cup psOff)
      /\ IsFiniteSet(psDone)
  BY <1>0, FS_Subset
<1>2. Cardinality(psDone) \in Nat /\ Cardinality(psDone \cup psOff) \in Nat
  BY <1>0, <1>1, FS_CardinalityType
<1>3. Cardinality({}) = 0 BY FS_EmptySet
<1> QED
  BY <1>1, <1>2, <1>3, ModeAssumption DEF Capped, GuardHolds, ModeAssumption

(* However many users are listed, however rows, statuses and failures       *)
(* change while the pass reads and writes: one run of it deactivates at     *)
(* most MaxDeactivationsPerRun of them.                                     *)
THEOREM GuardAlwaysHolds == Spec => []GuardHolds
<1>1. Init => TypeOK /\ Capped BY InitType, InitCapped
<1>2. TypeOK /\ Capped /\ [Next]_vars => (TypeOK /\ Capped)'
  BY NextType, NextCapped
<1>3. TypeOK /\ Capped => GuardHolds BY CappedHolds
<1> QED BY <1>1, <1>2, <1>3, PTL DEF Spec
-----------------------------------------------------------------------------
(* The two engines (StatusEngines), for any number of users with any number *)
(* of cards, any mode and any cap.                                          *)

HubUser ==
  [cards : Seq(Lookups), bound : BOOLEAN, status : {"ACTIVE", "DEACTIVATED"}]

(* Every set of numbers has a least one.                                    *)
LEMMA LeastNumber ==
  ASSUME NEW T \in SUBSET Nat, T # {}
  PROVE  \E n \in T : \A m \in T : n <= m
<1>1. IsWellFoundedOn({ss \in Nat \X Nat : ss[1] < ss[2]}, Nat)
  BY NatLessThanWellFounded DEF OpToRel
<1>2. PICK n \in T : \A m \in T : <<m, n>> \notin {ss \in Nat \X Nat : ss[1] < ss[2]}
  BY <1>1, WFMin, Zenon
<1>3. ASSUME NEW m \in T
      PROVE  n <= m
  <2>1. m \in Nat /\ n \in Nat /\ <<m, n>> \notin {ss \in Nat \X Nat : ss[1] < ss[2]}
    BY <1>2
  <2> QED
    BY <2>1
<1> QED
  BY <1>3

(* A row asks for one status at most, and not for the one the user has.     *)
LEMMA OneWant ==
  ASSUME NEW says, NEW status
  PROVE  \/ Converge(says, status) = {}
         \/ Converge(says, status) = {"ACTIVE"} /\ says = "allowed" /\ status # "ACTIVE"
         \/ Converge(says, status) = {"DEACTIVATED"} /\ says = "denied" /\ status = "ACTIVE"
  BY DEF Converge

(* The loop stops at one card, unless the user has none that is known.      *)
LEMMA FirstCard ==
  ASSUME NEW u \in HubUser, Known(u) # {}
  PROVE  \E i \in DOMAIN u.cards : FirstKnown(u) = {i} /\ u.cards[i] # "none"
<1> DEFINE cards == u.cards
           T == {i \in DOMAIN cards : cards[i] # "none"}
<1>1. cards \in Seq(Lookups) /\ DOMAIN cards = 1..Len(cards) /\ Len(cards) \in Nat
  BY DEF HubUser
<1>2. T # {} /\ T \in SUBSET Nat
  BY <1>1 DEF Known
<1>3. PICK i \in T : \A j \in T : i <= j
  BY <1>2, LeastNumber
<1>4. i \in FirstKnown(u)
  <2>1. ASSUME NEW j \in 1..i - 1
        PROVE  cards[j] = "none"
    <3>1. j \in DOMAIN cards /\ ~(i <= j)
      BY <1>1, <1>3
    <3> QED
      BY <1>3, <3>1
  <2> QED
    BY <1>3, <2>1 DEF FirstKnown
<1>5. ASSUME NEW j \in FirstKnown(u)
      PROVE  j = i
  <2>1. j \in T /\ \A k \in 1..j - 1 : cards[k] = "none"
    BY <1>5 DEF FirstKnown
  <2>2. i <= j /\ i \notin 1..j - 1
    BY <1>3, <2>1
  <2> QED
    BY <1>1, <1>2, <2>1, <2>2
<1> QED
  BY <1>3, <1>4, <1>5

LEMMA NothingKnown ==
  ASSUME NEW u, Known(u) = {}
  PROVE  LoopWants(u) = {} /\ PassWants(u) = {}
<1>1. \A i \in DOMAIN u.cards : u.cards[i] = "none"
  BY DEF Known
<1> QED
  BY <1>1 DEF LoopWants, PassWants, FirstKnown

(* The loop wants what the row of that card asks for.                       *)
LEMMA LoopWantsOne ==
  ASSUME NEW u \in HubUser, Known(u) # {}
  PROVE  \E i \in DOMAIN u.cards :
           /\ FirstKnown(u) = {i} /\ u.cards[i] # "none"
           /\ LoopWants(u) = Converge(RowFor(u.cards[i]), u.status)
<1>1. PICK i \in DOMAIN u.cards : FirstKnown(u) = {i} /\ u.cards[i] # "none"
  BY FirstCard
<1> QED
  BY <1>1 DEF LoopWants

(* Neither wants a user to be what it is, nor two things.                   *)
LEMMA PassWantsChange ==
  ASSUME NEW u
  PROVE  PassWants(u) \subseteq IF u.status = "ACTIVE" THEN {"DEACTIVATED"} ELSE {"ACTIVE"}
<1>1. ASSUME NEW s \in PassWants(u)
      PROVE  s \in IF u.status = "ACTIVE" THEN {"DEACTIVATED"} ELSE {"ACTIVE"}
  <2>1. PICK i \in DOMAIN u.cards : s \in Converge(u.cards[i], u.status)
    BY DEF PassWants
  <2> QED
    BY <2>1, OneWant
<1> QED
  BY <1>1

(* Where the cards that are known agree, so do the engines.                 *)
LEMMA PlainWants ==
  ASSUME NEW u \in HubUser, NEW says \in {"allowed", "denied"}, Known(u) = {says}
  PROVE  /\ LoopWants(u) = Converge(says, u.status)
         /\ u.bound => PassWants(u) = Converge(says, u.status)
<1>2. \A i \in DOMAIN u.cards : u.cards[i] # "none" => u.cards[i] = says
  BY DEF Known
<1>3. PICK i \in DOMAIN u.cards : u.cards[i] # "none" /\ LoopWants(u) = Converge(RowFor(u.cards[i]), u.status)
  BY LoopWantsOne
<1>4. u.cards[i] = says /\ RowFor(says) = says
  BY <1>2, <1>3 DEF RowFor
<1>5. ASSUME u.bound
      PROVE  PassWants(u) = Converge(says, u.status)
  <2>1. PassWants(u) = UNION {Converge(u.cards[j], u.status) :
                               j \in {k \in DOMAIN u.cards : u.cards[k] # "none"}}
    BY <1>5 DEF PassWants
  <2> QED
    BY <1>2, <1>3, <2>1
<1> QED
  BY <1>3, <1>4, <1>5

\* The pass replaces the loop: of a bound user whose cards are read and agree,
\* both write the same as long as the guard lets the deactivations through.
THEOREM EnginesAgree ==
  ASSUME NEW users \in Seq(HubUser), NEW i \in DOMAIN users, NEW mode, NEW max,
         users[i].bound, Plain(users[i]), ~GuardTripped(users, max)
  PROVE  PassWrites(users, mode, max)[i] = LoopWrites(users, mode)[i]
<1>1. users[i] \in HubUser
  OBVIOUS
<1>2. PICK says \in {"allowed", "denied"} : Known(users[i]) = {says}
  BY DEF Plain
<1>3. PassWants(users[i]) = LoopWants(users[i])
  BY <1>1, <1>2, PlainWants
<1> QED
  BY <1>3 DEF PassWrites, LoopWrites

\* Of any number of users, the pass deactivates no more than the guard
\* tolerates, and nobody of whom nothing could be read.
THEOREM PassIsGuarded ==
  ASSUME NEW users \in Seq(HubUser), NEW mode, NEW max \in Nat
  PROVE  /\ Cardinality({i \in DOMAIN users : "DEACTIVATED" \in PassWrites(users, mode, max)[i]}) <= max
         /\ \A i \in DOMAIN users :
              Known(users[i]) \subseteq {"failed"} => PassWrites(users, mode, max)[i] = {}
<1> DEFINE W == {i \in DOMAIN users : "DEACTIVATED" \in PassWants(users[i])}
           D == {i \in DOMAIN users : "DEACTIVATED" \in PassWrites(users, mode, max)[i]}
<1>1. IsFiniteSet(W) /\ Cardinality(W) \in Nat
  <2>1. DOMAIN users = 1..Len(users) /\ Len(users) \in Nat
    OBVIOUS
  <2>2. IsFiniteSet(1..Len(users))
    BY <2>1, FS_Interval
  <2>3. IsFiniteSet(W)
    BY <2>1, <2>2, FS_Subset
  <2> QED
    BY <2>3, FS_CardinalityType
<1>2. D \subseteq W /\ (GuardTripped(users, max) => D = {})
  BY DEF PassWrites
<1>3. Cardinality(D) <= max
  <2>1. CASE GuardTripped(users, max)
    <3>1. Cardinality(D) = 0
      BY <1>2, <2>1, FS_EmptySet
    <3> QED
      BY <3>1
  <2>2. CASE ~GuardTripped(users, max)
    <3>1. Cardinality(W) <= max
      BY <1>1, <2>2 DEF GuardTripped
    <3>2. IsFiniteSet(D) /\ Cardinality(D) <= Cardinality(W) /\ Cardinality(D) \in Nat
      BY <1>1, <1>2, FS_Subset, FS_CardinalityType
    <3> QED
      BY <1>1, <3>1, <3>2
  <2> QED
    BY <2>1, <2>2
<1>4. ASSUME NEW i \in DOMAIN users, Known(users[i]) \subseteq {"failed"}
      PROVE  PassWrites(users, mode, max)[i] = {}
  <2>1. \A k \in DOMAIN users[i].cards : users[i].cards[k] # "none" => users[i].cards[k] = "failed"
    BY <1>4 DEF Known
  <2>2. \A status : Converge("failed", status) = {}
    BY DEF Converge
  <2>3. PassWants(users[i]) = {}
    BY <2>1, <2>2 DEF PassWants
  <2> QED
    BY <2>3 DEF PassWrites
<1> QED
  BY <1>3, <1>4

(* A write changes nothing but the status, to one that was wanted.          *)
LEMMA AppliedIs ==
  ASSUME NEW users \in Seq(HubUser), NEW writes, NEW i \in DOMAIN users,
         writes[i] \subseteq {"ACTIVE", "DEACTIVATED"}
  PROVE  /\ i \in DOMAIN Applied(users, writes)
         /\ Applied(users, writes)[i] \in HubUser
         /\ Applied(users, writes)[i].cards = users[i].cards
         /\ Applied(users, writes)[i].bound = users[i].bound
         /\ writes[i] = {} => Applied(users, writes)[i] = users[i]
         /\ writes[i] # {} => Applied(users, writes)[i].status \in writes[i]
<1> DEFINE s == CHOOSE x \in writes[i] : TRUE
<1>1. users[i] \in HubUser
  OBVIOUS
<1>2. writes[i] # {} => s \in writes[i]
  OBVIOUS
<1> HIDE DEF s
<1>3. Applied(users, writes)[i] = IF writes[i] = {} THEN users[i] ELSE [users[i] EXCEPT !.status = s]
  BY DEF Applied, s
<1>4. i \in DOMAIN Applied(users, writes)
  BY DEF Applied
<1> QED
  BY <1>1, <1>2, <1>3, <1>4 DEF HubUser

(* Nothing else is asked of a user who has what its row asks for.           *)
LEMMA Settled ==
  ASSUME NEW says, NEW status, NEW s \in Converge(says, status)
  PROVE  Converge(says, s) = {}
  BY DEF Converge

LEMMA LoopRests ==
  ASSUME NEW users \in Seq(HubUser), NEW i \in DOMAIN users, NEW mode
  PROVE  LoopWrites(Applied(users, LoopWrites(users, mode)), mode)[i] = {}
<1> DEFINE writes == LoopWrites(users, mode)
           u == users[i]
           a == Applied(users, writes)[i]
<1>1. u \in HubUser
  OBVIOUS
<1>2. writes[i] = {s \in LoopWants(u) : MayWrite(mode, s)}
  BY DEF LoopWrites
<1>3. CASE Known(u) = {}
  <2>1. writes[i] = {}
    BY <1>2, <1>3, NothingKnown
  <2>2. i \in DOMAIN Applied(users, writes) /\ a = u
    BY <2>1, AppliedIs
  <2> QED
    BY <1>2, <2>1, <2>2 DEF LoopWrites
<1>4. CASE Known(u) # {}
  <2>1. PICK k \in DOMAIN u.cards :
             FirstKnown(u) = {k} /\ LoopWants(u) = Converge(RowFor(u.cards[k]), u.status)
    BY <1>1, <1>4, LoopWantsOne
  <2>2. writes[i] \subseteq {"ACTIVE", "DEACTIVATED"}
    BY <1>2, <2>1 DEF Converge
  <2>3. /\ i \in DOMAIN Applied(users, writes) /\ a.cards = u.cards
        /\ writes[i] = {} => a = u
        /\ writes[i] # {} => a.status \in writes[i]
    BY <2>2, AppliedIs
  <2>4. CASE writes[i] = {}
    BY <1>2, <2>3, <2>4 DEF LoopWrites
  <2>5. CASE writes[i] # {}
    <3>1. a.status \in Converge(RowFor(u.cards[k]), u.status)
      BY <1>2, <2>1, <2>3, <2>5
    <3>2. FirstKnown(a) = {k}
      BY <2>1, <2>3 DEF FirstKnown
    <3>3. LoopWants(a) = Converge(RowFor(u.cards[k]), a.status)
      BY <2>3, <3>2 DEF LoopWants
    <3>4. LoopWants(a) = {}
      BY <3>1, <3>3, Settled
    <3> QED
      BY <2>3, <3>4 DEF LoopWrites
  <2> QED
    BY <2>4, <2>5
<1> QED
  BY <1>3, <1>4

LEMMA PassRests ==
  ASSUME NEW users \in Seq(HubUser), NEW i \in DOMAIN users, NEW mode, NEW max \in Nat, Plain(users[i])
  PROVE  PassWrites(Applied(users, PassWrites(users, mode, max)), mode, max)[i] = {}
<1> DEFINE writes == PassWrites(users, mode, max)
           later == Applied(users, writes)
           Wanting(all) == {j \in DOMAIN all : "DEACTIVATED" \in PassWants(all[j])}
<1>1. \A j \in DOMAIN users : users[j] \in HubUser
  OBVIOUS
<1>2. ASSUME NEW j \in DOMAIN users
      PROVE  writes[j] = {s \in PassWants(users[j]) :
                            MayWrite(mode, s) /\ (s = "ACTIVE" \/ ~GuardTripped(users, max))}
  BY DEF PassWrites
<1>3. ASSUME NEW j \in DOMAIN users
      PROVE  /\ j \in DOMAIN later /\ later[j] \in HubUser
             /\ later[j].cards = users[j].cards /\ later[j].bound = users[j].bound
             /\ writes[j] = {} => later[j] = users[j]
             /\ writes[j] # {} => later[j].status \in writes[j]
  <2>1. writes[j] \subseteq {"ACTIVE", "DEACTIVATED"}
    BY <1>2, PassWantsChange
  <2> QED
    BY <2>1, AppliedIs
<1>4. DOMAIN later = DOMAIN users
  BY DEF Applied
<1>5. ASSUME NEW s \in PassWrites(later, mode, max)[i]
      PROVE  s \in PassWants(later[i]) /\ MayWrite(mode, s) /\ (s = "ACTIVE" \/ ~GuardTripped(later, max))
  BY <1>3, <1>5 DEF PassWrites
\* What trips the guard stays as it is.
<1>6. GuardTripped(users, max) => GuardTripped(later, max)
  <2> SUFFICES ASSUME GuardTripped(users, max)
               PROVE  GuardTripped(later, max)
    OBVIOUS
  <2>1. ASSUME NEW j \in Wanting(users)
        PROVE  j \in Wanting(later)
    <3>1. j \in DOMAIN users /\ "DEACTIVATED" \in PassWants(users[j])
      OBVIOUS
    <3>2. PassWants(users[j]) \subseteq {"DEACTIVATED"}
      BY <3>1, PassWantsChange
    <3>3. writes[j] = {}
      BY <1>2, <3>1, <3>2
    <3> QED
      BY <1>3, <3>1, <3>3
  <2>2. IsFiniteSet(Wanting(later))
    <3>1. IsFiniteSet(1..Len(users)) /\ DOMAIN users = 1..Len(users)
      BY FS_Interval
    <3> QED
      BY <1>4, <3>1, FS_Subset
  <2>3. /\ Cardinality(Wanting(users)) <= Cardinality(Wanting(later))
        /\ Cardinality(Wanting(users)) \in Nat /\ Cardinality(Wanting(later)) \in Nat
    BY <2>1, <2>2, FS_Subset, FS_CardinalityType
  <2>4. Cardinality(Wanting(users)) > max
    BY DEF GuardTripped
  <2> HIDE DEF Wanting, later
  <2>5. Cardinality(Wanting(later)) > max
    BY <2>3, <2>4
  <2> QED
    BY <2>5 DEF GuardTripped, Wanting
<1>7. CASE writes[i] = {}
  <2>1. later[i] = users[i]
    BY <1>3, <1>7
  <2> QED
    BY <1>2, <1>5, <1>6, <1>7, <2>1
<1>8. CASE writes[i] # {}
  <2>1. PICK says \in {"allowed", "denied"} : Known(users[i]) = {says}
    BY DEF Plain
  <2>2. Known(later[i]) = {says}
    <3>1. later[i].cards = users[i].cards
      BY <1>3
    <3> HIDE DEF later
    <3> QED
      BY <2>1, <3>1, Zenon DEF Known
  <2>3. later[i].status \in PassWants(users[i])
    BY <1>2, <1>3, <1>8
  <2>4. users[i].bound /\ later[i].bound
    BY <1>3, <2>3 DEF PassWants
  <2>5. later[i].status \in Converge(says, users[i].status)
    BY <1>1, <2>1, <2>3, <2>4, PlainWants
  <2>6. PassWants(later[i]) = Converge(says, later[i].status)
    BY <1>3, <2>2, <2>4, PlainWants
  <2>7. PassWants(later[i]) = {}
    BY <2>5, <2>6, Settled
  <2> QED
    BY <1>5, <2>7
<1> QED
  BY <1>7, <1>8

\* An engine that has written what it wanted has nothing left to write: the loop
\* of any user, the pass of a user whose cards are read and agree.  It holds of the
\* pass also while the guard holds its deactivations, for those who trip
\* the guard are still there in the next run.
THEOREM EnginesRest ==
  ASSUME NEW users \in Seq(HubUser), NEW i \in DOMAIN users, NEW mode, NEW max \in Nat
  PROVE  /\ LoopWrites(Applied(users, LoopWrites(users, mode)), mode)[i] = {}
         /\ Plain(users[i]) =>
              PassWrites(Applied(users, PassWrites(users, mode, max)), mode, max)[i] = {}
  BY LoopRests, PassRests
===============================================================================

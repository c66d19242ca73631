------------------------------ MODULE StaffDesk ------------------------------
(* The part of the bridge the staff look at: the mirror of the hub's users, *)
(* the enrolment of a card, the card overrides and the members' table,      *)
(* together.  An enrolment changes the record of its user at the hub and    *)
(* the members' table; it and a saved override announce the change to the   *)
(* cache of the table; the denied-tap recheck searches the same pages of    *)
(* the hub as the refreshes of the mirror list.                             *)
EXTENDS HubUsers, Enrollment, FragmentCache, Overrides

CONSTANT Mixes   \* who may take part: walks, panels, readers and desks, and
                 \* how much of each bound they may spend

ASSUME MixAssumption ==
  \A m \in Mixes :
    /\ m.changes \in 0..MaxChanges /\ m.failures \in 0..MaxFailures
    /\ m.troubles \in 0..MaxTroubles /\ m.sessions \in 0..MaxSessions
    /\ m.edits \in 0..MaxEdits

VARIABLE mix     \* who takes part in this behaviour

deskVars == <<mix, mirrorVars, enrolVars, cacheVars, overrideVars>>

MirrorAlone == UNCHANGED <<enrolVars, cacheVars, overrideVars, mix>>
EnrolAlone == UNCHANGED <<mirrorVars, cacheVars, overrideVars, mix>>
CacheAlone == UNCHANGED <<mirrorVars, enrolVars, overrideVars, mix>>

DeskInit ==
  /\ CacheInit
  /\ \E m \in Mixes :
       /\ mix = m.who
       /\ MirrorInit(MaxChanges - m.changes, MaxFailures - m.failures)
       /\ EnrolInit(MaxTroubles - m.troubles, MaxSessions - m.sessions)
       /\ OverrideInit(MaxEdits - m.edits)

\* The directory is watched only by a walk, the table only by a reader.
Walking == mix \cap Walks # {}
Reading == mix \cap Readers # {}

MirrorStep ==
  /\ \/ \E w \in Walks \cap mix : Begins(w)
     \/ \E w \in Walks : \/ ListsPage(w) \/ SearchesPage(w) \/ ListFails(w) \/ SearchEnds(w)
                         \/ Upserts(w) \/ UpsertFails(w) \/ Fetches(w) \/ HydrateFails(w)
                         \/ Hydrates(w) \/ Cancelled(w) \/ Finishes(w)
     \/ Walking /\ \E u \in Users : Edits(u) \/ Joins(u) \/ Leaves(u)
  /\ MirrorAlone

\* A row of the table is written (bound: MaxWrites).
TableGrows == IF Reading /\ Len(replaced) < MaxWrites THEN LoopWrites ELSE UNCHANGED cacheVars

\* Binding a card changes the record of the user at the hub.
HubLearns(u) ==
  IF Walking /\ u \in ToSet(hub) /\ changes < MaxChanges THEN Edits(u) ELSE UNCHANGED mirrorVars

\* A step of a session, with what it does elsewhere: the backfill writes a
\* row of the table, and the end of the enrolment announces it.
EnrolRound(s) ==
  \/ Round(s) /\ ~Assigns(s) /\ EnrolAlone
  \/ Assigns(s) /\ HubLearns(User(s)) /\ UNCHANGED <<cacheVars, overrideVars, mix>>
  \/ Backfills(s) /\ TableGrows /\ UNCHANGED <<mirrorVars, overrideVars, mix>>
  \/ Completes(s) /\ Invalidate /\ UNCHANGED <<owing, mirrorVars, overrideVars, mix>>

EnrolStep ==
  \/ \E s \in Sessions : EnrolRound(s)
  \/ /\ \/ \E p \in Panels \cap mix : Starts(p) \/ StartFails(p) \/ ClosesPage(p)
        \/ \E s \in Sessions : \/ Cancels(s) \/ CancelHandled(s) \/ CancelShows(s)
                               \/ GivesUpReading(s) \/ \E c \in Cards : Taps(s, c)
        \/ mix \cap Panels # {} /\ \E c \in Cards : Admin(c)
     /\ EnrolAlone

CacheStep ==
  /\ Reading
  /\ \/ TimePasses \/ LoopWrites
     \/ \E w \in Writers \cap mix : StaffWrites(w) \/ Invalidates(w)
     \/ \E r \in Readers \cap mix : \/ ShowsAgain(r) \/ Hits(r) \/ Misses(r)
                                   \/ ReadsTable(r) \/ ReadFails(r) \/ Stores(r)
  /\ CacheAlone

\* handleAddCard and handleDeleteCard announce what they have saved.  The
\* process restarts (bound: when only desks take part).
OverrideStep ==
  \/ /\ \/ \E d \in Desks \cap mix, t \in Tags, c \in Targets \cup {Itself} : Changes(d, t, c)
        \/ \E d \in Desks : Marshals(d) \/ SaveFails(d)
        \/ mix \subseteq Desks /\ Reloads
     /\ UNCHANGED <<mirrorVars, enrolVars, cacheVars, mix>>
  \/ \E d \in Desks : Saves(d) /\ Invalidate /\ UNCHANGED <<owing, mirrorVars, enrolVars, mix>>

DeskNext == MirrorStep \/ EnrolStep \/ CacheStep \/ OverrideStep

\* The handlers answer, the answers arrive, and a panel that is shown polls:
\* the scheduler of the process and the event loop of the browser see to it.
DeskSpec ==
  /\ DeskInit /\ [][DeskNext]_deskVars
  /\ \A s \in Sessions : WF_deskVars(EnrolRound(s))

-----------------------------------------------------------------------------
(* Properties.                                                              *)

\* The types of the variables.
DeskTypeOK == MirrorTypeOK /\ EnrolTypeOK /\ CacheTypeOK /\ OverrideTypeOK
=============================================================================

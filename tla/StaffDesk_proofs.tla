-------------------------- MODULE StaffDesk_proofs --------------------------
(***************************************************************************)
(* The safety properties of what the staff look at, for any number of      *)
(* panels, sessions, readers, desks, refreshes and users.                  *)
(*                                                                         *)
(* The four parts share no variable, and a step that reaches over into     *)
(* another part takes a step of that part there: so each part has its own  *)
(* actions (Projections) and its own inductive invariant.                  *)
(***************************************************************************)
EXTENDS StaffDesk, WellFoundedInduction, TLAPS

(* What may happen to the mirror, the enrolment, the cache and the map.     *)
MirrorActs ==
  \/ \E w \in Walks : \/ Begins(w) \/ ListsPage(w) \/ SearchesPage(w) \/ ListFails(w) \/ SearchEnds(w)
                      \/ Upserts(w) \/ UpsertFails(w) \/ Fetches(w) \/ HydrateFails(w)
                      \/ Hydrates(w) \/ Cancelled(w) \/ Finishes(w)
  \/ \E u : Edits(u)
  \/ \E u \in Users : Joins(u) \/ Leaves(u)

SessionActs(s) ==
  \/ Round(s) \/ Assigns(s) \/ Backfills(s) \/ Completes(s)
  \/ Cancels(s) \/ CancelHandled(s) \/ CancelShows(s) \/ GivesUpReading(s)
  \/ \E c \in Cards : Taps(s, c)

EnrolActs ==
  \/ \E s \in Sessions : SessionActs(s)
  \/ \E p \in Panels : Starts(p) \/ StartFails(p) \/ ClosesPage(p)
  \/ \E c \in Cards : Admin(c)

CacheActs ==
  \/ TimePasses \/ Writes \/ Invalidate
  \/ \E r \in Readers : \/ ShowsAgain(r) \/ Hits(r) \/ Misses(r)
                         \/ ReadsTable(r) \/ ReadFails(r) \/ Stores(r)

OverrideActs ==
  \/ \E d \in Desks, t \in Tags, c \in Targets \cup {Itself} : Changes(d, t, c)
  \/ \E d \in Desks : Marshals(d) \/ Saves(d) \/ SaveFails(d)
  \/ Reloads

(* Every step of the desk is a step, or none, of each part.                 *)
LEMMA OverrideProjection == [DeskNext]_deskVars => OverrideActs \/ UNCHANGED overrideVars
<1>1. UNCHANGED deskVars => UNCHANGED overrideVars
  BY Zenon DEF deskVars
<1>2. MirrorStep => UNCHANGED overrideVars
  BY Zenon DEF MirrorStep, MirrorAlone
<1>3. EnrolStep => UNCHANGED overrideVars
  BY Zenon DEF EnrolStep, EnrolRound, EnrolAlone
<1>4. CacheStep => UNCHANGED overrideVars
  BY Zenon DEF CacheStep, CacheAlone
<1>5. OverrideStep => OverrideActs
  BY Zenon DEF OverrideStep, OverrideActs
<1> QED
  BY <1>1, <1>2, <1>3, <1>4, <1>5, Zenon DEF DeskNext

-----------------------------------------------------------------------------
(* The overrides.                                                           *)

OverrideTypes ==
  desk \in [Desks -> [at : {"idle", "changed", "saving"}, data : Maps, alone : BOOLEAN]]

\* A save that has the map to itself holds the map as it is.
LoneSavesAreWhole ==
  \A d \in Desks : (desk[d].at = "saving" /\ desk[d].alone) => desk[d].data = overrides /\ AtWork = {d}

\* While nothing went astray one request at most is at work, and its save
\* has the map to itself.
OneAtATime ==
  ~astray => /\ \A d, e \in AtWork : d = e
             /\ \A d \in Desks : desk[d].at = "saving" => desk[d].alone

MapTypes == overrides \in Maps /\ file \in Maps

OverrideInv == OverrideTypes /\ MapTypes /\ LoneSavesAreWhole /\ OneAtATime /\ OverridesSurvive

LEMMA OverridesStart == DeskInit => OverrideInv
<1> SUFFICES ASSUME NEW m \in Mixes, OverrideInit(MaxEdits - m.edits)
             PROVE  OverrideInv
  BY DEF DeskInit
<1>1. NoOverrides \in Maps
  BY DEF NoOverrides, Maps
<1>2. OverrideTypes
  BY <1>1 DEF OverrideInit, OverrideTypes, Ready
<1>3. AtWork = {} /\ \A d \in Desks : desk[d].at = "idle"
  BY DEF OverrideInit, AtWork, Ready
<1> QED
  BY <1>1, <1>2, <1>3 DEF OverrideInit, OverrideInv, MapTypes, LoneSavesAreWhole, OneAtATime,
     OverridesSurvive

LEMMA OverridesStep == OverrideInv /\ (OverrideActs \/ UNCHANGED overrideVars) => OverrideInv'
<1> SUFFICES ASSUME OverrideInv, OverrideActs \/ UNCHANGED overrideVars
             PROVE  OverrideInv'
  OBVIOUS
<1> USE DEF OverrideInv
<1>0. NoOverrides \in Maps
  BY DEF NoOverrides, Maps
<1>1. ASSUME NEW d \in Desks, NEW t \in Tags, NEW c \in Targets \cup {Itself}, Changes(d, t, c)
      PROVE  OverrideInv'
  <2>1. /\ desk[d].at = "idle" /\ file' = file
        /\ overrides' = [overrides EXCEPT ![t] = c]
        /\ desk' = [e \in Desks |-> IF e = d THEN [Ready EXCEPT !.at = "changed"]
                                    ELSE [desk[e] EXCEPT !.alone = FALSE]]
        /\ astray' = (astray \/ AtWork # {})
    BY <1>1 DEF Changes
  <2>2. overrides' \in Maps
    BY <2>1 DEF MapTypes, Maps
  <2>3. OverrideTypes'
    BY <1>0, <2>1 DEF OverrideTypes, Ready
  <2>4. /\ desk'[d].at = "changed"
        /\ \A e \in Desks \ {d} : desk'[e].at = desk[e].at /\ desk'[e].alone = FALSE
    BY <2>1 DEF OverrideTypes, Ready
  <2>5. AtWork' = AtWork \cup {d}
    BY <2>4 DEF AtWork
  <2>6. LoneSavesAreWhole'
    BY <2>4 DEF LoneSavesAreWhole
  <2>7. OneAtATime'
    <3>1. CASE astray'
      BY <3>1 DEF OneAtATime
    <3>2. CASE ~astray'
      <4>1. AtWork = {}
        BY <2>1, <3>2
      <4> QED
        BY <2>4, <2>5, <4>1 DEF OneAtATime, AtWork
    <3> QED BY <3>1, <3>2
  <2> QED
    BY <2>1, <2>2, <2>3, <2>5, <2>6, <2>7 DEF MapTypes, OverridesSurvive
<1>2. ASSUME NEW d \in Desks, Marshals(d)
      PROVE  OverrideInv'
  <2>1. /\ desk[d].at = "changed" /\ file' = file /\ overrides' = overrides /\ astray' = astray
        /\ desk' = [desk EXCEPT ![d] = [at |-> "saving", data |-> overrides, alone |-> AtWork = {d}]]
    BY <1>2 DEF Marshals
  <2>2. (AtWork = {d}) \in BOOLEAN
    OBVIOUS
  <2>3. OverrideTypes'
    BY <2>1, <2>2 DEF OverrideTypes, MapTypes
  <2>4. /\ desk'[d].at = "saving" /\ desk'[d].data = overrides /\ desk'[d].alone = (AtWork = {d})
        /\ \A e \in Desks \ {d} : desk'[e] = desk[e]
    BY <2>1 DEF OverrideTypes
  <2>5. AtWork' = AtWork /\ d \in AtWork
    BY <2>1, <2>4 DEF AtWork
  <2>6. LoneSavesAreWhole'
    <3>1. desk'[d].alone => desk'[d].data = overrides' /\ AtWork' = {d}
      BY <2>1, <2>4, <2>5, Zenon
    <3>2. \A e \in Desks \ {d} : ~(desk'[e].at = "saving" /\ desk'[e].alone)
      <4>1. \A e \in Desks \ {d} : AtWork # {e}
        BY <2>5
      <4> QED
        BY <2>4, <4>1, Zenon DEF LoneSavesAreWhole
    <3> QED
      BY <3>1, <3>2, Zenon DEF LoneSavesAreWhole
  <2>7. OneAtATime'
    BY <2>1, <2>4, <2>5 DEF OneAtATime
  <2> QED
    BY <2>1, <2>3, <2>5, <2>6, <2>7 DEF MapTypes, OverridesSurvive
<1>3. ASSUME NEW d \in Desks, Saves(d) \/ SaveFails(d)
      PROVE  OverrideInv'
  <2>1. /\ desk[d].at = "saving" /\ overrides' = overrides
        /\ desk' = [desk EXCEPT ![d] = Ready]
        /\ file' = desk[d].data \/ file' = file
    BY <1>3 DEF Saves, SaveFails, Written
  <2>2. OverrideTypes' /\ MapTypes'
    BY <1>0, <2>1 DEF OverrideTypes, MapTypes, Ready
  <2>3. /\ desk'[d].at = "idle"
        /\ \A e \in Desks \ {d} : desk'[e] = desk[e]
    BY <2>1 DEF OverrideTypes, Ready
  <2>4. AtWork' = AtWork \ {d} /\ d \in AtWork
    BY <2>1, <2>3 DEF AtWork
  <2>5. LoneSavesAreWhole'
    BY <2>1, <2>3, <2>4 DEF LoneSavesAreWhole
  <2>6. ~astray' => desk[d].alone /\ file' = desk[d].data
    <3>1. Saves(d) => astray' = (astray /\ ~desk[d].alone) /\ file' = desk[d].data
      BY DEF Saves, Written
    <3>2. SaveFails(d) => astray'
      BY DEF SaveFails
    <3>3. ~astray => desk[d].alone
      BY <2>1 DEF OneAtATime
    <3> QED
      BY <1>3, <3>1, <3>2, <3>3
  <2>7. ~astray' => AtWork = {d} /\ file' = overrides
    BY <2>1, <2>6 DEF LoneSavesAreWhole
  <2>8. OneAtATime'
    BY <2>3, <2>4, <2>7 DEF OneAtATime, AtWork
  <2> QED
    BY <2>1, <2>2, <2>5, <2>7, <2>8 DEF OverridesSurvive
<1>4. ASSUME Reloads
      PROVE  OverrideInv'
  <2>1. overrides' = file /\ file' = file /\ desk' = [d \in Desks |-> Ready]
    BY <1>4 DEF Reloads
  <2>2. OverrideTypes' /\ MapTypes'
    BY <1>0, <2>1 DEF OverrideTypes, MapTypes, Ready
  <2>3. AtWork' = {} /\ \A d \in Desks : desk'[d].at = "idle"
    BY <2>1 DEF AtWork, Ready
  <2> QED
    BY <2>1, <2>2, <2>3 DEF LoneSavesAreWhole, OneAtATime, OverridesSurvive
<1>5. ASSUME UNCHANGED overrideVars
      PROVE  OverrideInv'
  BY <1>5 DEF overrideVars, OverrideTypes, MapTypes, LoneSavesAreWhole, OneAtATime,
     OverridesSurvive, AtWork
<1> QED
  BY <1>1, <1>2, <1>3, <1>4, <1>5, Zenon DEF OverrideActs

\* With no request at work the file of the overrides is the map in memory,
\* unless a save failed or two overlapped since it last was.
THEOREM OverridesAreKept == DeskSpec => []OverridesSurvive
<1>1. OverrideInv /\ [DeskNext]_deskVars => OverrideInv'
  BY OverridesStep, OverrideProjection, Zenon
<1>2. OverrideInv => OverridesSurvive
  BY DEF OverrideInv
<1> QED
  BY OverridesStart, <1>1, <1>2, PTL DEF DeskSpec

-----------------------------------------------------------------------------
(* The enrolment.                                                           *)

LEMMA EnrolProjection == [DeskNext]_deskVars => EnrolActs \/ UNCHANGED enrolVars
<1>1. UNCHANGED deskVars => UNCHANGED enrolVars
  BY Zenon DEF deskVars
<1>2. MirrorStep => UNCHANGED enrolVars
  BY Zenon DEF MirrorStep, MirrorAlone
<1>3. CacheStep => UNCHANGED enrolVars
  BY Zenon DEF CacheStep, CacheAlone
<1>4. OverrideStep => UNCHANGED enrolVars
  BY Zenon DEF OverrideStep
<1>5. EnrolStep => EnrolActs
  BY Zenon DEF EnrolStep, EnrolRound, EnrolActs, SessionActs
<1> QED
  BY <1>1, <1>2, <1>3, <1>4, <1>5, Zenon DEF DeskNext

AfterTheTap == {"checking", "binding", "filling", "filled", "done"}

\* A panel that polls a session is the one that started it.
PanelsKnow ==
  \A p \in Panels : panel[p].shows = "polling" =>
    LET s == panel[p].session IN s \in Sessions /\ session[s].by = p /\ session[s].state # "unused"

\* What a poll under way may rely on.
PollsKnow ==
  \A s \in Sessions :
    /\ poll[s].at # "none" => session[s].state # "unused"
    /\ poll[s].at \in AfterTheTap => session[s].state # "open"
    /\ poll[s].at = "polling" => poll[s].n <= MaxPolls
    /\ session[s].state = "tapped" => session[s].card \in Cards
    /\ cancel[s] # "none" => session[s].state # "unused"

\* Nobody is told that a session is over while the hub has not been.
TellingTheHub ==
  \A s \in Sessions : (poll[s].at = "failed" \/ cancel[s] = "answered") =>
    session[s].state # "open" \/ s \in unwatched

\* ReadersAreFreed, and more: until the answer is shown the panel stands.
Watched == \A s \in Sessions : session[s].state = "open" => s \in unwatched \/ Shown(s)

EnrolInv == EnrolTypeOK /\ PanelsKnow /\ PollsKnow /\ TellingTheHub /\ Watched

LEMMA EnrolStarts == DeskInit => EnrolInv
<1> SUFFICES ASSUME NEW m \in Mixes, EnrolInit(MaxTroubles - m.troubles, MaxSessions - m.sessions)
             PROVE  EnrolInv
  BY DEF DeskInit
<1> USE DEF EnrolInit
<1>1. \A s \in Sessions : /\ session[s].state \in {"closed", "unused"}
                          /\ poll[s].at = "none" /\ cancel[s] = "none"
  BY DEF NoPoll
<1>2. \A p \in Panels : panel[p].shows = "picker"
  OBVIOUS
<1>3. EnrolTypeOK
  <2>1. session \in [Sessions -> [state : {"unused", "open", "tapped", "closed"},
                               card : Cards \cup {Nobody}, by : Panels \cup {Nobody}]]
    OBVIOUS
  <2>2. 0 \in Counts
    BY EnrolAssumption DEF EnrolAssumption, Counts
  <2>3. panel \in [Panels -> [shows : {"picker", "polling", "failed", "done", "gone"},
                             session : Sessions \cup {0}, n : Counts]]
    BY <2>2
  <2>4. NoPoll \in [at : {"none", "asking", "checking", "binding", "filling", "filled",
                         "polling", "failed", "done"}, n : Counts]
    BY <2>2 DEF NoPoll
  <2>5. poll \in [Sessions -> [at : {"none", "asking", "checking", "binding", "filling", "filled",
                                  "polling", "failed", "done"}, n : Counts]]
    BY <2>4
  <2> QED
    BY <1>1, <2>1, <2>3, <2>5 DEF EnrolTypeOK
<1> QED
  BY <1>1, <1>2, <1>3 DEF EnrolInv, PanelsKnow, PollsKnow, TellingTheHub, Watched, AfterTheTap

PollTypes == poll \in [Sessions -> [at : {"none", "asking", "checking", "binding", "filling", "filled",
                                         "polling", "failed", "done"}, n : Counts]]
SessionTypes == session \in [Sessions -> [state : {"unused", "open", "tapped", "closed"},
                                         card : Cards \cup {Nobody}, by : Panels \cup {Nobody}]]
PanelTypes == panel \in [Panels -> [shows : {"picker", "polling", "failed", "done", "gone"},
                                   session : Sessions \cup {0}, n : Counts]]

\* Sessions may be closed, or given up, and nothing else happens to them.
SessionsEnd ==
  /\ SessionTypes' /\ unwatched \subseteq unwatched' /\ unwatched' \subseteq Sessions
  /\ \A t \in Sessions : /\ session'[t].by = session[t].by /\ session'[t].card = session[t].card
                         /\ session'[t].state \in {session[t].state, "closed"}

LEMMA DeletionEnds ==
  ASSUME EnrolTypeOK, NEW s \in Sessions, Deletes(s)
  PROVE  SessionsEnd /\ (session'[s].state = "closed" \/ s \in unwatched')
<1>0. SessionTypes /\ unwatched \subseteq Sessions
  BY DEF EnrolTypeOK, SessionTypes
<1>1. CASE session' = [session EXCEPT ![s].state = "closed"] /\ UNCHANGED unwatched
  <2>1. SessionTypes'
    BY <1>0, <1>1 DEF SessionTypes
  <2>2. session'[s].state = "closed"
    BY <1>0, <1>1 DEF SessionTypes
  <2>3. \A t \in Sessions : /\ session'[t].by = session[t].by /\ session'[t].card = session[t].card
                            /\ session'[t].state \in {session[t].state, "closed"}
    BY <1>0, <1>1 DEF SessionTypes
  <2> QED
    BY <1>0, <1>1, <2>1, <2>2, <2>3, Zenon DEF SessionsEnd
<1>2. CASE unwatched' = unwatched \cup {s} /\ UNCHANGED session
  BY <1>0, <1>2 DEF SessionsEnd, SessionTypes
<1> QED
  BY <1>1, <1>2 DEF Deletes

(* A poll goes on to its next point: what has to be so for the invariant.   *)
LEMMA PollGoesOn ==
  ASSUME EnrolInv, NEW s \in Sessions, poll[s].at # "none", SessionsEnd,
         UNCHANGED <<panel, cancel>>, holder' \in [Cards -> Holders],
         NEW to \in {"checking", "binding", "filling", "filled", "polling", "failed", "done"},
         Goes(s, to),
         to = "checking" => session[s].state = "tapped",
         to \in AfterTheTap \ {"checking"} => poll[s].at \in AfterTheTap,
         to \in {"binding", "filling"} => poll[s].at \in {"checking", "binding", "filling"},
         to = "polling" => poll[s].n <= MaxPolls,
         to = "failed" => session'[s].state # "open" \/ s \in unwatched'
  PROVE  EnrolInv'
<1> USE DEF EnrolInv
<1>1. /\ PollTypes /\ SessionTypes /\ PanelTypes
  BY DEF EnrolTypeOK, PollTypes, SessionTypes, PanelTypes
<1>2. /\ poll'[s].at = to /\ poll'[s].n = poll[s].n
      /\ \A t \in Sessions \ {s} : poll'[t] = poll[t]
  BY <1>1 DEF Goes, PollTypes
<1>3. PollTypes'
  BY <1>1 DEF Goes, PollTypes
<1>4. \A t \in Sessions : /\ session'[t].by = session[t].by /\ session'[t].card = session[t].card
                          /\ session'[t].state \in {session[t].state, "closed"}
  BY DEF SessionsEnd
<1>5. \A t \in Sessions : /\ session[t].state # "unused" => session'[t].state # "unused"
                          /\ session'[t].state = "open" => session[t].state = "open"
                          /\ session'[t].state = "tapped" => session[t].state = "tapped"
  BY <1>4
<1>6. to \in {"checking", "binding", "filling"} => session[s].card \in Cards
  BY DEF EnrolTypeOK, PollsKnow, Card
<1>7. EnrolTypeOK'
  <2>1. SessionTypes' /\ unwatched' \subseteq Sessions
    BY DEF SessionsEnd
  <2>2. panel' = panel /\ cancel' = cancel
    OBVIOUS
  <2>3. \A t \in Sessions :
          /\ poll'[t].at # "none" => session'[t].by \in Panels
          /\ poll'[t].at \in {"checking", "binding", "filling"} => session'[t].card \in Cards
    <3>1. \A t \in Sessions \ {s} :
          /\ poll'[t].at # "none" => session'[t].by \in Panels
          /\ poll'[t].at \in {"checking", "binding", "filling"} => session'[t].card \in Cards
      BY <1>2, <1>4 DEF EnrolTypeOK, Card
    <3>2. session'[s].by \in Panels
      BY <1>4 DEF EnrolTypeOK
    <3>3. poll'[s].at \in {"checking", "binding", "filling"} => session'[s].card \in Cards
      BY <1>2, <1>4, <1>6
    <3> QED
      BY <3>1, <3>2, <3>3, Zenon
  <2> QED
    BY <1>3, <2>1, <2>2, <2>3 DEF EnrolTypeOK, Card, PollTypes, SessionTypes
<1>8. PanelsKnow'
  BY <1>4, <1>5 DEF PanelsKnow
<1>9. PollsKnow'
  <2>1. \A t \in Sessions \ {s} :
    /\ poll'[t].at # "none" => session'[t].state # "unused"
    /\ poll'[t].at \in AfterTheTap => session'[t].state # "open"
    /\ poll'[t].at = "polling" => poll'[t].n <= MaxPolls
    BY <1>2, <1>5, Zenon DEF PollsKnow
  <2>2. session'[s].state # "unused"
    BY <1>5 DEF PollsKnow
  <2>3. poll'[s].at \in AfterTheTap => session'[s].state # "open"
    BY <1>2, <1>5 DEF PollsKnow, AfterTheTap
  <2>4. poll'[s].at = "polling" => poll'[s].n <= MaxPolls
    BY <1>2, Zenon
  <2>5. \A t \in Sessions : /\ session'[t].state = "tapped" => session'[t].card \in Cards
                            /\ cancel'[t] # "none" => session'[t].state # "unused"
    BY <1>4, <1>5 DEF PollsKnow
  <2> QED
    BY <2>1, <2>2, <2>3, <2>4, <2>5, Zenon DEF PollsKnow
<1>10. TellingTheHub'
  BY <1>2, <1>5 DEF TellingTheHub, SessionsEnd
<1>11. Watched'
  <2>1. \A t \in Sessions : Shown(t) => Shown(t)'
    BY DEF Shown
  <2> QED
    BY <1>5, <2>1 DEF Watched, SessionsEnd
<1> QED
  BY <1>7, <1>8, <1>9, <1>10, <1>11

(* The steps of a poll at the hub.                                          *)
LEMMA PollSteps ==
  ASSUME EnrolInv, NEW s \in Sessions,
         \/ TimesOut(s) \/ StillWaits(s) \/ StatusFails(s) \/ Tapped(s) \/ Collides(s)
         \/ NoCollision(s) \/ Assigns(s) \/ AssignFails(s) \/ Backfills(s)
         \/ BackfillFails(s) \/ Completes(s)
  PROVE  EnrolInv'
<1> DEFINE tos == {"checking", "binding", "filling", "filled", "polling", "failed", "done"}
<1>0. /\ EnrolTypeOK /\ SessionTypes /\ unwatched \subseteq Sessions
      /\ holder \in [Cards -> Holders]
  BY DEF EnrolInv, EnrolTypeOK, SessionTypes
<1>00. ASSUME UNCHANGED session, unwatched \subseteq unwatched', unwatched' \subseteq Sessions
       PROVE  SessionsEnd
  BY <1>0, <1>00, Zenon DEF SessionsEnd, SessionTypes
<1>1. CASE TimesOut(s)
  <2>1. SessionsEnd /\ (session'[s].state = "closed" \/ s \in unwatched')
    BY <1>0, <1>1, DeletionEnds DEF TimesOut
  <2>2. /\ poll[s].at = "asking" /\ Goes(s, "failed") /\ UNCHANGED <<panel, cancel>>
        /\ holder' \in [Cards -> Holders]
    BY <1>0, <1>1 DEF TimesOut
  <2> QED
    BY <2>1, <2>2, PollGoesOn DEF AfterTheTap
<1>2. CASE StillWaits(s)
  <2>1. /\ poll[s].at = "asking" /\ ~TooMany(poll[s].n) /\ Goes(s, "polling")
        /\ UNCHANGED <<panel, cancel>> /\ UNCHANGED <<holder, session, unwatched>>
    BY <1>2 DEF StillWaits, Asks
  <2>2. poll[s].n \in Counts
    BY <1>0 DEF EnrolTypeOK
  <2>3. poll[s].n <= MaxPolls
    BY <2>1, <2>2, EnrolAssumption DEF TooMany, Counts, EnrolAssumption
  <2>4. SessionsEnd
    BY <1>0, <1>00, <2>1
  <2> QED
    BY <1>0, <2>1, <2>3, <2>4, PollGoesOn DEF AfterTheTap
<1>3. CASE StatusFails(s)
  <2>1. /\ poll[s].at = "asking" /\ Goes(s, "failed")
        /\ UNCHANGED <<panel, cancel>> /\ UNCHANGED <<holder, session>>
        /\ \/ session[s].state = "closed" /\ UNCHANGED unwatched
           \/ unwatched' = unwatched \cup {s}
    BY <1>3 DEF StatusFails, Asks
  <2>2. SessionsEnd
    BY <1>0, <1>00, <2>1
  <2> QED
    BY <1>0, <2>1, <2>2, PollGoesOn DEF AfterTheTap
<1>4. CASE Tapped(s)
  <2>1. /\ poll[s].at = "asking" /\ session[s].state = "tapped" /\ Goes(s, "checking")
        /\ UNCHANGED <<panel, cancel>> /\ UNCHANGED <<holder, session, unwatched>>
    BY <1>4 DEF Tapped, Asks
  <2>2. SessionsEnd
    BY <1>0, <1>00, <2>1
  <2> QED
    BY <1>0, <2>1, <2>2, PollGoesOn DEF AfterTheTap
<1>5. CASE Collides(s)
  <2>1. SessionsEnd /\ (session'[s].state = "closed" \/ s \in unwatched')
    BY <1>0, <1>5, DeletionEnds DEF Collides
  <2>2. /\ poll[s].at = "checking" /\ Goes(s, "failed") /\ UNCHANGED <<panel, cancel>>
        /\ holder' \in [Cards -> Holders]
    BY <1>0, <1>5 DEF Collides
  <2> QED
    BY <2>1, <2>2, PollGoesOn DEF AfterTheTap
<1>6. ASSUME NEW to \in {"binding", "filling", "filled", "done"}, Goes(s, to),
             poll[s].at \in {"checking", "binding", "filling", "filled"},
             to \in {"binding", "filling"} => poll[s].at \in {"checking", "binding"},
             UNCHANGED <<panel, cancel>>, UNCHANGED <<session, unwatched>>,
             holder' \in [Cards -> Holders]
      PROVE  EnrolInv'
  <2>1. SessionsEnd
    BY <1>0, <1>00, <1>6
  <2> QED
    BY <1>6, <2>1, PollGoesOn DEF AfterTheTap
<1>7. CASE NoCollision(s)
  BY <1>0, <1>6, <1>7 DEF NoCollision
<1>8. CASE Assigns(s)
  <2>1. User(s) \in Holders
    <3>1. session[s].by \in Panels
      BY <1>0, <1>8 DEF Assigns, EnrolTypeOK
    <3> QED
      BY <3>1 DEF User, Holders, People
  <2>2. holder' \in [Cards -> Holders]
    BY <1>0, <1>8, <2>1 DEF Assigns
  <2> QED
    BY <1>6, <1>8, <2>2 DEF Assigns
<1>9. CASE AssignFails(s)
  <2>1. /\ poll[s].at = "binding" /\ Goes(s, "failed")
        /\ UNCHANGED <<panel, cancel>> /\ UNCHANGED <<holder, session, unwatched>>
    BY <1>9 DEF AssignFails
  <2>2. SessionsEnd
    BY <1>0, <1>00, <2>1
  <2>3. session'[s].state # "open"
    BY <2>1 DEF EnrolInv, PollsKnow, AfterTheTap
  <2> QED
    BY <1>0, <2>1, <2>2, <2>3, PollGoesOn DEF AfterTheTap
<1>10. CASE Backfills(s) \/ BackfillFails(s)
  BY <1>0, <1>6, <1>10 DEF Backfills, BackfillFails
<1>11. CASE Completes(s)
  BY <1>0, <1>6, <1>11 DEF Completes
<1> QED
  BY <1>1, <1>2, <1>3, <1>4, <1>5, <1>7, <1>8, <1>9, <1>10, <1>11, Zenon

(* A poll is sent, and its answer replaces the panel.                       *)
LEMMA PanelSteps ==
  ASSUME EnrolInv, NEW s \in Sessions, Polls(s) \/ PollShows(s)
  PROVE  EnrolInv'
<1> USE DEF EnrolInv
<1>1. PollTypes /\ SessionTypes /\ PanelTypes
  BY DEF EnrolTypeOK, PollTypes, SessionTypes, PanelTypes
<1>2. CASE Polls(s)
  <2>1. PICK p \in Panels : /\ panel[p].shows = "polling" /\ panel[p].session = s
                            /\ poll' = [poll EXCEPT ![s] = [at |-> "asking", n |-> panel[p].n]]
    BY <1>2 DEF Polls
  <2>2. UNCHANGED <<holder, session, panel, cancel, unwatched>>
    BY <1>2 DEF Polls
  <2>3. PollTypes'
    BY <1>1, <2>1 DEF PollTypes, PanelTypes
  <2>4. poll'[s].at = "asking" /\ \A t \in Sessions \ {s} : poll'[t] = poll[t]
    BY <1>1, <2>1 DEF PollTypes
  <2>5. session[s].by \in Panels /\ session[s].state # "unused"
    BY <2>1 DEF PanelsKnow
  <2>6. EnrolTypeOK'
    BY <2>2, <2>3, <2>4, <2>5 DEF EnrolTypeOK, PollTypes, Card
  <2>7. PollsKnow'
    BY <2>2, <2>4, <2>5 DEF PollsKnow, AfterTheTap
  <2> QED
    BY <2>2, <2>4, <2>6, <2>7 DEF PanelsKnow, TellingTheHub, Watched, Shown
<1>3. CASE PollShows(s)
  <2>1. /\ poll[s].at \in {"polling", "failed", "done"}
        /\ poll' = [poll EXCEPT ![s] = NoPoll]
        /\ panel' = [p \in Panels |-> IF p = session[s].by /\ Shown(s) THEN Replaced(s, p) ELSE panel[p]]
        /\ cancel' = [cancel EXCEPT ![s] = IF @ = "deleting" THEN "deleting late"
                                     ELSE IF @ = "answered" THEN "none" ELSE @]
        /\ UNCHANGED <<holder, session, unwatched>>
    BY <1>3 DEF PollShows
  <2>2. poll'[s].at = "none" /\ \A t \in Sessions \ {s} : poll'[t] = poll[t]
    BY <1>1, <2>1 DEF PollTypes, NoPoll
  <2>3. PollTypes'
    <3>1. 0 \in Counts
      BY EnrolAssumption DEF EnrolAssumption, Counts
    <3> QED
      BY <1>1, <2>1, <3>1 DEF PollTypes, NoPoll
  <2>4. /\ cancel' \in [Sessions -> {"none", "deleting", "deleting late", "answered"}]
        /\ \A t \in Sessions : /\ cancel'[t] = "answered" => cancel[t] = "answered"
                              /\ cancel'[t] # "none" => cancel[t] # "none"
    BY <2>1 DEF EnrolTypeOK
  <2>5. \A p \in Panels : \/ panel'[p] = panel[p]
                          \/ p = session[s].by /\ Shown(s) /\ panel'[p] = Replaced(s, p)
    <3>1. ASSUME NEW p \in Panels
          PROVE  \/ panel'[p] = panel[p]
                 \/ p = session[s].by /\ Shown(s) /\ panel'[p] = Replaced(s, p)
      <4>1. panel'[p] = IF p = session[s].by /\ Shown(s) THEN Replaced(s, p) ELSE panel[p]
        BY <2>1
      <4> QED
        BY <4>1, Zenon
    <3> QED
      BY <3>1
  <2>7. \A p \in Panels : p = session[s].by /\ Shown(s) => panel[p].shows = "polling" /\ panel[p].session = s
    BY DEF Shown, PanelsKnow
  <2>8. \A p \in Panels : p = session[s].by /\ Shown(s) =>
          \/ /\ poll[s].at = "polling"
             /\ panel'[p] = [shows |-> "polling", session |-> s, n |-> poll[s].n + 1]
          \/ /\ poll[s].at \in {"failed", "done"}
             /\ panel'[p] = [panel[p] EXCEPT !.shows = poll[s].at]
    BY <2>1 DEF Replaced, Polling
  <2>9. poll[s].at = "polling" => poll[s].n + 1 \in Counts
    <3>1. poll[s].n \in Counts
      BY <1>1 DEF PollTypes
    <3>2. poll[s].at = "polling" => poll[s].n <= MaxPolls
      BY DEF PollsKnow
    <3>3. poll[s].n <= MaxPolls => poll[s].n + 1 \in Counts
      BY <3>1, EnrolAssumption DEF EnrolAssumption, Counts
    <3> QED
      BY <3>2, <3>3
  <2>10. PanelTypes'
    <3> DEFINE T == [shows : {"picker", "polling", "failed", "done", "gone"},
                     session : Sessions \cup {0}, n : Counts]
    <3>1. ASSUME NEW p \in Panels
          PROVE  panel'[p] \in T
      <4>1. panel[p] \in T
        BY <1>1 DEF PanelTypes
      <4>2. CASE panel'[p] = panel[p]
        BY <4>1, <4>2
      <4>3. CASE poll[s].at = "polling" /\ panel'[p] = [shows |-> "polling", session |-> s, n |-> poll[s].n + 1]
        BY <2>9, <4>3
      <4>4. CASE poll[s].at \in {"failed", "done"} /\ panel'[p] = [panel[p] EXCEPT !.shows = poll[s].at]
        BY <4>1, <4>4
      <4> QED
        BY <2>5, <2>8, <4>2, <4>3, <4>4, Zenon
    <3>2. panel' = [p \in Panels |-> panel'[p]]
      BY <2>1
    <3> QED
      BY <3>1, <3>2 DEF PanelTypes
  <2>101. \A p \in Panels : p = session[s].by /\ Shown(s) =>
          /\ poll[s].at = "polling" => panel'[p].shows = "polling" /\ panel'[p].session = s
          /\ poll[s].at \in {"failed", "done"} => panel'[p].shows # "polling"
    <3>1. ASSUME NEW p \in Panels, p = session[s].by, Shown(s)
          PROVE /\ poll[s].at = "polling" => panel'[p].shows = "polling" /\ panel'[p].session = s
                /\ poll[s].at \in {"failed", "done"} => panel'[p].shows # "polling"
      <4>1. CASE /\ poll[s].at = "polling"
                 /\ panel'[p] = [shows |-> "polling", session |-> s, n |-> poll[s].n + 1]
        BY <4>1
      <4>2. CASE /\ poll[s].at \in {"failed", "done"}
                 /\ panel'[p] = [panel[p] EXCEPT !.shows = poll[s].at]
        BY <1>1, <4>2 DEF PanelTypes
      <4> QED
        BY <2>8, <3>1, <4>1, <4>2, Zenon
    <3> QED
      BY <3>1, Zenon
  <2>11. \A p \in Panels : panel'[p].shows = "polling" =>
           panel[p].shows = "polling" /\ panel'[p].session = panel[p].session
    BY <2>1, <2>5, <2>7, <2>101
  <2>12. EnrolTypeOK'
    BY <2>1, <2>2, <2>3, <2>4, <2>10 DEF EnrolTypeOK, PollTypes, PanelTypes, Card
  <2>13. PanelsKnow'
    BY <2>1, <2>11 DEF PanelsKnow
  <2>14. PollsKnow'
    BY <2>1, <2>2, <2>4 DEF PollsKnow, AfterTheTap
  <2>15. TellingTheHub'
    BY <2>1, <2>2, <2>4 DEF TellingTheHub
  <2>16. Watched'
    <3>1. ASSUME NEW t \in Sessions, session[t].state = "open", t \notin unwatched
          PROVE  Shown(t)'
      <4>1. PICK p \in Panels : panel[p].shows = "polling" /\ panel[p].session = t
        BY <3>1 DEF Watched, Shown
      <4>2. CASE panel'[p] = panel[p]
        BY <4>1, <4>2 DEF Shown
      <4>3. CASE panel'[p] # panel[p]
        <5>1. p = session[s].by /\ Shown(s)
          BY <2>5, <4>3
        <5>2. s = t
          BY <2>7, <4>1, <5>1
        <5>3. poll[s].at # "failed"
          BY <3>1, <5>2 DEF TellingTheHub
        <5>4. poll[s].at # "done"
          BY <3>1, <5>2 DEF PollsKnow, AfterTheTap
        <5>5. panel'[p].shows = "polling" /\ panel'[p].session = t
          BY <2>1, <2>101, <5>1, <5>2, <5>3, <5>4
        <5> QED
          BY <5>5 DEF Shown
      <4> QED
        BY <4>2, <4>3
    <3> QED
      BY <2>1, <3>1 DEF Watched
  <2> QED
    BY <2>12, <2>13, <2>14, <2>15, <2>16
<1> QED
  BY <1>2, <1>3

(* A session is started, with or without a panel that will poll it.         *)
LEMMA OpeningSteps ==
  ASSUME EnrolInv, NEW p \in Panels, Starts(p) \/ StartFails(p)
  PROVE  EnrolInv'
<1> USE DEF EnrolInv
<1>1. PollTypes /\ SessionTypes /\ PanelTypes
  BY DEF EnrolTypeOK, PollTypes, SessionTypes, PanelTypes
<1>2. panel[p].shows # "polling"
  BY DEF Starts, StartFails, CanStart
<1>3. /\ UNCHANGED <<holder, poll, cancel>>
      /\ unwatched \subseteq unwatched' /\ unwatched' \subseteq Sessions
  BY DEF Starts, StartFails, EnrolTypeOK
<1>4. PanelTypes' /\ \A q \in Panels \ {p} : panel'[q] = panel[q]
  <2>1. CASE Starts(p)
    <3>1. PICK s \in Sessions : panel' = [panel EXCEPT ![p] = Polling(s, 0)]
      BY <2>1 DEF Starts
    <3>2. 0 + 1 \in Counts
      BY EnrolAssumption DEF EnrolAssumption, Counts
    <3>3. Polling(s, 0) \in [shows : {"picker", "polling", "failed", "done", "gone"},
                           session : Sessions \cup {0}, n : Counts]
      BY <3>2 DEF Polling
    <3> QED
      BY <1>1, <3>1, <3>3, Zenon DEF PanelTypes
  <2>2. CASE StartFails(p)
    BY <1>1, <2>2 DEF StartFails, PanelTypes
  <2> QED
    BY <2>1, <2>2
<1>5. CASE UNCHANGED session
  <2>1. StartFails(p)
    <3>1. Starts(p) => session' # session
      BY <1>1 DEF Starts, Opens, SessionTypes
    <3> QED
      BY <1>5, <3>1
  <2>2. panel'[p].shows = "failed"
    BY <1>1, <2>1 DEF StartFails, PanelTypes
  <2>3. EnrolTypeOK'
    BY <1>3, <1>4, <1>5 DEF EnrolTypeOK, PanelTypes, Card
  <2>4. PanelsKnow' /\ PollsKnow' /\ TellingTheHub'
    BY <1>3, <1>4, <1>5, <2>2 DEF PanelsKnow, PollsKnow, TellingTheHub
  <2>5. \A t \in Sessions : Shown(t) => Shown(t)'
    BY <1>2, <1>4 DEF Shown
  <2> QED
    BY <1>3, <1>5, <2>3, <2>4, <2>5 DEF Watched
<1>6. ASSUME NEW s \in Sessions, Opens(s, p),
             \/ panel'[p].shows = "polling" /\ panel'[p].session = s
             \/ panel'[p].shows = "failed" /\ s \in unwatched'
      PROVE  EnrolInv'
  <2>1. /\ session[s].state = "unused"
        /\ session' = [session EXCEPT ![s] = [state |-> "open", card |-> Nobody, by |-> p]]
    BY <1>6 DEF Opens
  <2>2. /\ SessionTypes'
        /\ session'[s].state = "open" /\ session'[s].by = p
        /\ \A t \in Sessions \ {s} : session'[t] = session[t]
    BY <1>1, <2>1 DEF SessionTypes
  <2>3. poll[s].at = "none"
    BY <2>1 DEF PollsKnow
  <2>4. EnrolTypeOK'
    <3>1. \A t \in Sessions :
            /\ poll'[t].at # "none" => session'[t].by \in Panels
            /\ poll'[t].at \in {"checking", "binding", "filling"} => session'[t].card \in Cards
      BY <1>3, <2>2, <2>3 DEF EnrolTypeOK, Card
    <3> QED
      BY <1>3, <1>4, <2>2, <3>1 DEF EnrolTypeOK, PanelTypes, SessionTypes, Card
  <2>5. PanelsKnow'
    BY <1>4, <1>6, <2>1, <2>2 DEF PanelsKnow
  <2>6. PollsKnow'
    BY <1>3, <2>2, <2>3 DEF PollsKnow, AfterTheTap
  <2>7. \A t \in Sessions \ {s} : Shown(t) => Shown(t)'
    BY <1>2, <1>4 DEF Shown
  <2>8. s \in unwatched' \/ Shown(s)'
    BY <1>6 DEF Shown
  <2>9. Watched'
    BY <1>3, <2>2, <2>7, <2>8 DEF Watched
  <2>10. TellingTheHub'
    <3>1. poll'[s].at = "none" /\ cancel'[s] = "none"
      BY <1>3, <2>1, <2>3 DEF PollsKnow
    <3> QED
      BY <1>3, <2>2, <3>1 DEF TellingTheHub
  <2> QED
    BY <2>4, <2>5, <2>6, <2>9, <2>10
<1>7. CASE Starts(p)
  <2>1. PICK s \in Sessions : Opens(s, p) /\ panel' = [panel EXCEPT ![p] = Polling(s, 0)]
    BY <1>7 DEF Starts
  <2>2. panel'[p].shows = "polling" /\ panel'[p].session = s
    BY <1>1, <2>1 DEF PanelTypes, Polling
  <2> QED
    BY <1>6, <2>1, <2>2
<1>8. CASE StartFails(p)
  <2>1. panel'[p].shows = "failed"
    BY <1>1, <1>8 DEF StartFails, PanelTypes
  <2>2. CASE \E s \in Sessions : Opens(s, p) /\ unwatched' = unwatched \cup {s}
    BY <1>6, <2>1, <2>2
  <2>3. UNCHANGED session \/ \E s \in Sessions : Opens(s, p) /\ unwatched' = unwatched \cup {s}
    BY <1>8 DEF StartFails
  <2> QED
    BY <1>5, <2>2, <2>3
<1> QED
  BY <1>7, <1>8

(* Panels that stop polling, and sessions that go on, keep PanelsKnow.      *)
LEMMA PanelsStayKnown ==
  ASSUME PanelsKnow,
         \A q \in Panels : panel'[q].shows = "polling" =>
           panel[q].shows = "polling" /\ panel'[q].session = panel[q].session,
         \A t \in Sessions : /\ session'[t].by = session[t].by
                             /\ session[t].state # "unused" => session'[t].state # "unused"
  PROVE  PanelsKnow'
<1>1. ASSUME NEW q \in Panels, panel'[q].shows = "polling"
      PROVE  /\ panel'[q].session \in Sessions /\ session'[panel'[q].session].by = q
             /\ session'[panel'[q].session].state # "unused"
  <2>1. panel[q].shows = "polling" /\ panel'[q].session = panel[q].session
    BY <1>1
  <2>2. /\ panel[q].session \in Sessions /\ session[panel[q].session].by = q
        /\ session[panel[q].session].state # "unused"
    BY <2>1, Zenon DEF PanelsKnow
  <2>3. /\ session'[panel[q].session].by = q
        /\ session'[panel[q].session].state # "unused"
    BY <2>2
  <2> QED
    BY <2>1, <2>2, <2>3, Zenon
<1> QED
  BY <1>1, Zenon DEF PanelsKnow

(* Cancellations, the browser, the hub and its admins.                      *)
LEMMA OtherSteps ==
  ASSUME EnrolInv,
         \/ \E s \in Sessions : \/ Cancels(s) \/ CancelHandled(s) \/ CancelShows(s)
                                \/ GivesUpReading(s) \/ \E c \in Cards : Taps(s, c)
         \/ \E p \in Panels : ClosesPage(p)
         \/ \E c \in Cards : Admin(c)
         \/ UNCHANGED enrolVars
  PROVE  EnrolInv'
<1> USE DEF EnrolInv
<1>1. PollTypes /\ SessionTypes /\ PanelTypes /\ unwatched \subseteq Sessions
  BY DEF EnrolTypeOK, PollTypes, SessionTypes, PanelTypes
<1>2. ASSUME NEW s \in Sessions, Cancels(s)
      PROVE  EnrolInv'
  <2>1. /\ UNCHANGED <<holder, session, panel, poll, unwatched>>
        /\ Shown(s) /\ cancel' = [cancel EXCEPT ![s] = "deleting"]
    BY <1>2 DEF Cancels
  <2>2. /\ cancel' \in [Sessions -> {"none", "deleting", "deleting late", "answered"}]
        /\ cancel'[s] = "deleting" /\ \A t \in Sessions \ {s} : cancel'[t] = cancel[t]
    BY <2>1 DEF EnrolTypeOK
  <2>3. session[s].state # "unused"
    BY <2>1 DEF Shown, PanelsKnow
  <2>4. EnrolTypeOK'
    BY <2>1, <2>2 DEF EnrolTypeOK, Card
  <2>5. PollsKnow'
    BY <2>1, <2>2, <2>3 DEF PollsKnow
  <2>6. PanelsKnow'
    BY <2>1, PanelsStayKnown
  <2>7. TellingTheHub'
    BY <2>1, <2>2 DEF TellingTheHub
  <2> QED
    BY <2>1, <2>4, <2>5, <2>6, <2>7 DEF Watched, Shown
<1>3. ASSUME SessionsEnd, UNCHANGED <<poll, panel>>, holder' \in [Cards -> Holders],
             cancel' \in [Sessions -> {"none", "deleting", "deleting late", "answered"}],
             \A t \in Sessions :
               /\ cancel'[t] # "none" => cancel[t] # "none"
               /\ cancel'[t] = "answered" =>
                    cancel[t] = "answered" \/ session'[t].state # "open" \/ t \in unwatched'
      PROVE  EnrolInv'
  <2>1. \A t \in Sessions : /\ session'[t].by = session[t].by /\ session'[t].card = session[t].card
                            /\ session'[t].state \in {session[t].state, "closed"}
    BY <1>3 DEF SessionsEnd
  <2>2. \A t \in Sessions : /\ session[t].state # "unused" => session'[t].state # "unused"
                            /\ session'[t].state = "open" => session[t].state = "open"
                            /\ session'[t].state = "tapped" => session[t].state = "tapped"
    BY <2>1
  <2>3. EnrolTypeOK'
    BY <1>3, <2>1 DEF EnrolTypeOK, SessionsEnd, SessionTypes, Card
  <2>4. PanelsKnow'
    BY <1>3, <2>1, <2>2, PanelsStayKnown
  <2>5. PollsKnow'
    BY <1>3, <2>1, <2>2 DEF PollsKnow
  <2>6. TellingTheHub'
    BY <1>3, <2>2 DEF TellingTheHub, SessionsEnd
  <2>7. Watched'
    BY <1>3, <2>2 DEF Watched, SessionsEnd, Shown
  <2> QED
    BY <2>3, <2>4, <2>5, <2>6, <2>7
<1>4. ASSUME NEW s \in Sessions, CancelHandled(s)
      PROVE  EnrolInv'
  <2>1. /\ UNCHANGED <<holder, panel, poll>> /\ Deletes(s) /\ cancel[s] # "none"
        /\ cancel' = [cancel EXCEPT ![s] = IF @ = "deleting" THEN "answered" ELSE "none"]
    BY <1>4 DEF CancelHandled
  <2>2. SessionsEnd /\ (session'[s].state = "closed" \/ s \in unwatched')
    BY <2>1, DeletionEnds
  <2>3. /\ cancel' \in [Sessions -> {"none", "deleting", "deleting late", "answered"}]
        /\ \A t \in Sessions \ {s} : cancel'[t] = cancel[t]
    BY <2>1 DEF EnrolTypeOK
  <2> QED
    BY <1>3, <2>1, <2>2, <2>3 DEF EnrolTypeOK
<1>5. ASSUME NEW s \in Sessions, GivesUpReading(s)
      PROVE  EnrolInv'
  <2>1. /\ UNCHANGED <<holder, panel, poll, cancel, unwatched>>
        /\ session' = [session EXCEPT ![s].state = "closed"]
    BY <1>5 DEF GivesUpReading
  <2>2. SessionTypes'
    BY <1>1, <2>1 DEF SessionTypes
  <2>3. \A t \in Sessions : /\ session'[t].by = session[t].by /\ session'[t].card = session[t].card
                            /\ session'[t].state \in {session[t].state, "closed"}
    BY <1>1, <2>1 DEF SessionTypes
  <2>4. SessionsEnd
    BY <1>1, <2>1, <2>2, <2>3 DEF SessionsEnd
  <2> QED
    BY <1>3, <2>1, <2>4 DEF EnrolTypeOK
<1>6. ASSUME NEW s \in Sessions, CancelShows(s)
      PROVE  EnrolInv'
  <2>1. /\ cancel[s] = "answered" /\ UNCHANGED <<holder, session, poll, unwatched>>
        /\ cancel' = [cancel EXCEPT ![s] = "none"]
        /\ panel' = [q \in Panels |-> IF q = session[s].by /\ Shown(s)
                                  THEN [panel[q] EXCEPT !.shows = "picker"] ELSE panel[q]]
    BY <1>6 DEF CancelShows
  <2>2. \A q \in Panels : q = session[s].by /\ Shown(s) => panel[q].shows = "polling" /\ panel[q].session = s
    BY DEF Shown, PanelsKnow
  <2>3. PanelTypes'
    BY <1>1, <2>1 DEF PanelTypes
  <2>4. /\ \A q \in Panels : panel'[q].shows = "polling" => panel'[q] = panel[q]
        /\ \A q \in Panels : panel'[q] # panel[q] => panel[q].shows = "polling" /\ panel[q].session = s
    <3>1. ASSUME NEW q \in Panels
          PROVE  /\ panel'[q].shows = "polling" => panel'[q] = panel[q]
                 /\ panel'[q] # panel[q] => panel[q].shows = "polling" /\ panel[q].session = s
      <4>1. CASE q = session[s].by /\ Shown(s)
        <5>1. panel'[q] = [panel[q] EXCEPT !.shows = "picker"]
          BY <2>1, <4>1
        <5>2. panel'[q].shows = "picker"
          BY <1>1, <5>1 DEF PanelTypes
        <5> QED
          BY <2>2, <4>1, <5>2
      <4>2. CASE ~(q = session[s].by /\ Shown(s))
        <5>1. panel'[q] = panel[q]
          BY <2>1, <4>2
        <5> QED
          BY <5>1
      <4> QED
        BY <4>1, <4>2
    <3> QED
      BY <3>1, Zenon
  <2>5. /\ cancel' \in [Sessions -> {"none", "deleting", "deleting late", "answered"}]
        /\ cancel'[s] = "none" /\ \A t \in Sessions \ {s} : cancel'[t] = cancel[t]
    BY <2>1 DEF EnrolTypeOK
  <2>6. EnrolTypeOK'
    BY <2>1, <2>3, <2>5 DEF EnrolTypeOK, PanelTypes, Card
  <2>7. PollsKnow' /\ TellingTheHub'
    BY <2>1, <2>5 DEF PollsKnow, TellingTheHub
  <2>71. PanelsKnow'
    BY <2>1, <2>4, PanelsStayKnown
  <2>8. \A t \in Sessions \ {s} : Shown(t) => Shown(t)'
    BY <2>4 DEF Shown
  <2>9. session[s].state # "open" \/ s \in unwatched
    BY <2>1 DEF TellingTheHub
  <2> QED
    BY <2>1, <2>6, <2>7, <2>71, <2>8, <2>9 DEF Watched
<1>7. ASSUME NEW s \in Sessions, NEW c \in Cards, Taps(s, c)
      PROVE  EnrolInv'
  <2>1. /\ session[s].state = "open" /\ UNCHANGED <<holder, panel, poll, cancel, unwatched>>
        /\ session' = [session EXCEPT ![s].state = "tapped", ![s].card = c]
    BY <1>7 DEF Taps
  <2>2. /\ SessionTypes'
        /\ session'[s].state = "tapped" /\ session'[s].card = c /\ session'[s].by = session[s].by
        /\ \A t \in Sessions \ {s} : session'[t] = session[t]
    BY <1>1, <2>1 DEF SessionTypes
  <2>3. EnrolTypeOK'
    BY <2>1, <2>2 DEF EnrolTypeOK, SessionTypes, Card
  <2>4. PanelsKnow'
    BY <2>1, <2>2, PanelsStayKnown
  <2>5. PollsKnow'
    BY <2>1, <2>2 DEF PollsKnow
  <2>6. TellingTheHub'
    BY <2>1, <2>2 DEF TellingTheHub
  <2>7. \A t \in Sessions : Shown(t) => Shown(t)'
    BY <2>1, <2>2 DEF Shown
  <2>8. Watched'
    BY <2>1, <2>2, <2>7 DEF Watched
  <2> QED
    BY <2>3, <2>4, <2>5, <2>6, <2>8
<1>8. ASSUME NEW p \in Panels, ClosesPage(p)
      PROVE  EnrolInv'
  <2>1. /\ panel[p].shows = "polling" /\ panel' = [panel EXCEPT ![p].shows = "gone"]
        /\ unwatched' = unwatched \cup {panel[p].session}
        /\ UNCHANGED <<holder, session, poll, cancel>>
    BY <1>8 DEF ClosesPage
  <2>2. /\ PanelTypes' /\ panel'[p].shows = "gone"
        /\ \A q \in Panels \ {p} : panel'[q] = panel[q]
    BY <1>1, <2>1 DEF PanelTypes
  <2>3. panel[p].session \in Sessions
    BY <2>1 DEF PanelsKnow
  <2>4. EnrolTypeOK'
    BY <2>1, <2>2, <2>3 DEF EnrolTypeOK, PanelTypes, Card
  <2>5. PollsKnow' /\ PanelsKnow' /\ TellingTheHub'
    BY <2>1, <2>2 DEF PollsKnow, PanelsKnow, TellingTheHub
  <2>6. \A t \in Sessions : t # panel[p].session /\ Shown(t) => Shown(t)'
    BY <2>2 DEF Shown
  <2> QED
    BY <2>1, <2>4, <2>5, <2>6 DEF Watched
<1>9. ASSUME NEW c \in Cards, Admin(c)
      PROVE  EnrolInv'
  <2>1. UNCHANGED <<session, panel, poll, cancel, unwatched>> /\ holder' \in [Cards -> Holders]
    BY <1>9 DEF Admin, EnrolTypeOK
  <2>2. SessionsEnd
    BY <1>1, <2>1 DEF SessionsEnd, SessionTypes
  <2> QED
    BY <1>3, <2>1, <2>2 DEF EnrolTypeOK
<1>10. CASE UNCHANGED enrolVars
  <2>1. UNCHANGED <<holder, session, panel, poll, cancel, unwatched>>
    BY <1>10 DEF enrolVars
  <2>2. SessionsEnd
    BY <1>1, <2>1 DEF SessionsEnd, SessionTypes
  <2> QED
    BY <1>3, <2>1, <2>2 DEF EnrolTypeOK
<1> QED
  BY <1>2, <1>4, <1>5, <1>6, <1>7, <1>8, <1>9, <1>10, Zenon

LEMMA EnrolsStep == EnrolInv /\ (EnrolActs \/ UNCHANGED enrolVars) => EnrolInv'
<1> SUFFICES ASSUME EnrolInv, EnrolActs \/ UNCHANGED enrolVars
             PROVE  EnrolInv'
  OBVIOUS
<1>1. ASSUME NEW s \in Sessions, SessionActs(s)
      PROVE  EnrolInv'
  BY <1>1, PollSteps, PanelSteps, OtherSteps, Zenon DEF SessionActs, Round
<1>2. ASSUME NEW p \in Panels, Starts(p) \/ StartFails(p)
      PROVE  EnrolInv'
  BY <1>2, OpeningSteps
<1> QED
  BY <1>1, <1>2, OtherSteps, Zenon DEF EnrolActs

\* No reader is left waiting for a card that no panel and no request under
\* way concerns, unless a call about its session failed or the page was
\* closed.
THEOREM FreesTheReaders == DeskSpec => []ReadersAreFreed
<1>1. EnrolInv /\ [DeskNext]_deskVars => EnrolInv'
  BY EnrolsStep, EnrolProjection, Zenon
<1>2. EnrolInv => ReadersAreFreed
  BY DEF EnrolInv, Watched, ReadersAreFreed
<1> QED
  BY EnrolStarts, <1>1, <1>2, PTL DEF DeskSpec

\* No step of the bridge takes a card from the user who has it.
THEOREM CardsAreLeft == DeskSpec => CardsStay
<1> DEFINE Left == \A c \in Cards : (holder[c] # Nobody /\ holder'[c] # holder[c]) => holder'[c] = Nobody
<1>1. EnrolInv /\ [DeskNext]_deskVars => EnrolInv'
  BY EnrolsStep, EnrolProjection, Zenon
<1>2. ASSUME EnrolInv, EnrolActs \/ UNCHANGED enrolVars
      PROVE  Left
  <2>1. ASSUME NEW s \in Sessions, SessionActs(s)
        PROVE  Left
    <3>1. CASE Assigns(s)
      <4>1. /\ holder' = [holder EXCEPT ![Card(s)] = User(s)]
            /\ holder[Card(s)] \in {Nobody, User(s)}
        BY <3>1 DEF Assigns, Accepts, BoundElsewhere
      <4>2. holder \in [Cards -> Holders]
        BY <1>2 DEF EnrolInv, EnrolTypeOK
      <4> QED
        BY <4>1, <4>2
    <3>2. CASE ~Assigns(s)
      <4>1. UNCHANGED holder
        BY <2>1, <3>2, Zenon DEF SessionActs, Round, Polls, TimesOut, StillWaits, StatusFails, Tapped,
           Collides, NoCollision, AssignFails, Backfills, BackfillFails, Completes, PollShows, Cancels,
           CancelHandled, CancelShows, GivesUpReading, Taps
      <4> QED
        BY <4>1
    <3> QED
      BY <3>1, <3>2
  <2>2. ASSUME NEW p \in Panels, Starts(p) \/ StartFails(p) \/ ClosesPage(p)
        PROVE  Left
    <3>1. UNCHANGED holder
      BY <2>2, Zenon DEF Starts, StartFails, ClosesPage
    <3> QED
      BY <3>1
  <2>3. ASSUME NEW c \in Cards, Admin(c)
        PROVE  Left
    <3>1. holder \in [Cards -> Holders]
      BY <1>2 DEF EnrolInv, EnrolTypeOK
    <3>2. PICK u \in Holders : holder' = [holder EXCEPT ![c] = u]
      BY <2>3 DEF Admin
    <3>3. holder[c] = Nobody \/ holder'[c] = Nobody
      BY <2>3 DEF Admin
    <3> QED
      BY <3>1, <3>2, <3>3
  <2>4. ASSUME UNCHANGED enrolVars
        PROVE  Left
    BY <2>4 DEF enrolVars
  <2> QED
    BY <1>2, <2>1, <2>2, <2>3, <2>4, Zenon DEF EnrolActs
<1>3. EnrolInv /\ [DeskNext]_deskVars => [Left]_enrolVars
  BY <1>2, EnrolProjection, Zenon
<1> QED
  BY EnrolStarts, <1>1, <1>3, PTL DEF DeskSpec, CardsStay

-----------------------------------------------------------------------------
(* The cache of the members' table.                                         *)

LEMMA CacheProjection == [DeskNext]_deskVars => CacheActs \/ UNCHANGED cacheVars
<1>1. UNCHANGED deskVars => UNCHANGED cacheVars
  BY Zenon DEF deskVars
<1>2. MirrorStep => UNCHANGED cacheVars
  BY Zenon DEF MirrorStep, MirrorAlone
<1>3. CacheStep => CacheActs
  BY Zenon DEF CacheStep, CacheActs, LoopWrites, StaffWrites, Invalidates
<1>4. EnrolStep => CacheActs \/ UNCHANGED cacheVars
  BY Zenon DEF EnrolStep, EnrolRound, EnrolAlone, TableGrows, LoopWrites, CacheActs
<1>5. OverrideStep => CacheActs \/ UNCHANGED cacheVars
  BY Zenon DEF OverrideStep, CacheActs
<1> QED
  BY <1>1, <1>2, <1>3, <1>4, <1>5, Zenon DEF DeskNext

CacheTypes ==
  /\ now \in Nat /\ replaced \in Seq(Nat) /\ ver \in Nat
  /\ announced \subseteq [at : Nat, version : Nat]
  /\ browser \in [Readers -> [body : Nat, until : Nat]]
  /\ reader \in [Readers -> [at : {"away", "missed", "rendering"}, body : Nat, since : Nat]]
  /\ entry \in [body : Nat, ver : Nat, expires : Nat]

\* Version v of the table was the current one at the moment t or later.
StoodAt(v, t) == v \in 1..Len(replaced) => replaced[v] >= t

\* Version v has the changes announced before the moment t.
UpTo(v, t) == \A a \in announced : a.at < t => v >= a.version

\* It has all of them.
NoOlder(v) == \A a \in announced : v >= a.version

\* A request that renders holds a table that was current when it read it,
\* not long ago, and is not older than the last change announced in quiet.
Rendered(r) ==
  /\ reader[r].body \in 1..Current /\ NoOlder(reader[r].body)
  /\ reader[r].since <= now /\ now <= reader[r].since + MaxRender
  /\ StoodAt(reader[r].body, reader[r].since)

\* So does an entry that may be served, until it expires.
Cached ==
  /\ entry.body \in 1..Current /\ NoOlder(entry.body)
  /\ entry.expires <= now + TTL
  /\ StoodAt(entry.body, entry.expires - TTL - MaxRender)

\* What a browser may show again has what was announced before it was sent.
Fresh(r) == now < browser[r].until
SentAt(r) == browser[r].until - MaxAge
Kept(r) ==
  /\ browser[r].body \in 1..Current /\ UpTo(browser[r].body, SentAt(r))
  /\ SentAt(r) <= now
  /\ StoodAt(browser[r].body, SentAt(r) - TTL - MaxRender)

CacheInv ==
  /\ CacheTypes /\ entry.ver <= ver
  /\ \A a \in announced : a.version <= Current
  /\ \A r \in Rendering : Rendered(r)
  /\ entry.ver = ver => Cached
  /\ \A r \in Readers : Fresh(r) => Kept(r)

LEMMA CacheStarts == DeskInit => CacheInv /\ Page!PageInit
<1> SUFFICES ASSUME CacheInit PROVE CacheInv /\ Page!PageInit
  BY DEF DeskInit
<1> USE DEF CacheInit
<1>1. Rendering = {} /\ \A r \in Readers : ~Fresh(r)
  BY DEF Rendering, Away, Nothing, Fresh
<1>2. CacheTypes
  <2>1. reader \in [Readers -> [at : {"away", "missed", "rendering"}, body : Nat, since : Nat]]
    BY DEF Away
  <2>2. browser \in [Readers -> [body : Nat, until : Nat]]
    BY DEF Nothing
  <2> QED
    BY <2>1, <2>2 DEF CacheTypes
<1>3. Len(replaced) = 0
  OBVIOUS
<1> QED
  BY <1>1, <1>2, <1>3 DEF CacheInv, Page!PageInit, Current

(* Nothing that a request or the cache holds is touched by a step: what is  *)
(* left of the invariant is about the time and the table.                   *)
LEMMA HoldingOn ==
  ASSUME CacheInv, CacheTypes',
         now <= now', announced' = announced, ver' = ver,
         \A r \in Rendering' : r \in Rendering /\ reader'[r] = reader[r] /\ now' <= reader[r].since + MaxRender,
         \A r \in Readers : Fresh(r)' => browser'[r] = browser[r] \/ Kept(r)',
         entry' = entry,
         \/ replaced' = replaced
         \/ replaced' = Append(replaced, now)
  PROVE  CacheInv'
<1> USE PageAssumption DEF PageAssumption, CacheInv
<1>1. /\ now \in Nat /\ now' \in Nat /\ replaced \in Seq(Nat) /\ ver \in Nat
      /\ entry.body \in Nat /\ entry.ver \in Nat /\ entry.expires \in Nat
      /\ \A a \in announced : a.version \in Nat
      /\ \A r \in Readers : browser[r].body \in Nat /\ browser[r].until \in Nat
  BY DEF CacheTypes
<1>2. \A r \in Rendering : reader[r].body \in Nat /\ reader[r].since \in Nat
  BY DEF CacheTypes, Rendering
<1>3. /\ Len(replaced) \in Nat /\ Len(replaced') \in Nat /\ Len(replaced') >= Len(replaced)
      /\ Current \in Nat /\ Current' \in Nat /\ Current <= Current'
  BY <1>1 DEF Current
<1>4. \A a \in announced' : a.version <= Current'
  BY <1>1, <1>3
<1>5. ASSUME NEW v \in Nat, NEW t \in Int, v \in 1..Current, t <= now, StoodAt(v, t)
      PROVE  StoodAt(v, t)' /\ v \in 1..Current'
  <2>1. v \in 1..Current'
    BY <1>1, <1>3, <1>5
  <2>2. CASE replaced' = replaced
    BY <1>5, <2>1, <2>2 DEF StoodAt
  <2>3. CASE replaced' = Append(replaced, now)
    <3>1. Len(replaced') = Len(replaced) + 1 /\ replaced'[Len(replaced) + 1] = now
      BY <1>1, <2>3
    <3>2. \A i \in 1..Len(replaced) : replaced'[i] = replaced[i] /\ replaced[i] \in Nat
      BY <1>1, <2>3
    <3>3. StoodAt(v, t)'
      BY <1>1, <1>3, <1>5, <3>1, <3>2 DEF StoodAt, Current
    <3> QED
      BY <2>1, <3>3
  <2> QED
    BY <2>2, <2>3
<1>6. ASSUME NEW r \in Rendering'
      PROVE  Rendered(r)'
  <2>1. /\ reader[r].body \in Nat /\ reader[r].since \in Nat
        /\ reader[r].body \in 1..Current /\ reader[r].since <= now
        /\ NoOlder(reader[r].body) /\ StoodAt(reader[r].body, reader[r].since)
    BY <1>2, <1>6 DEF Rendered
  <2>2. StoodAt(reader[r].body, reader[r].since)' /\ reader[r].body \in 1..Current'
    BY <1>5, <1>6, <2>1
  <2> QED
    BY <1>1, <1>6, <2>1, <2>2 DEF Rendered, NoOlder
<1>7. ASSUME entry.ver = ver
      PROVE  Cached'
  <2> DEFINE t == entry.expires - TTL - MaxRender
  <2>1. /\ entry.body \in 1..Current /\ entry.expires <= now + TTL /\ StoodAt(entry.body, t)
        /\ NoOlder(entry.body)
    BY <1>7 DEF Cached
  <2>2. t \in Int /\ t <= now
    BY <1>1, <2>1
  <2>3. StoodAt(entry.body, t)' /\ entry.body \in 1..Current'
    BY <1>1, <1>5, <2>1, <2>2
  <2> QED
    BY <1>1, <2>1, <2>3 DEF Cached, NoOlder
<1>8. ASSUME NEW r \in Readers, Fresh(r)'
      PROVE  Kept(r)'
  <2>1. CASE browser'[r] = browser[r]
    <3> DEFINE t == SentAt(r) - TTL - MaxRender
    <3>1. Fresh(r)
      BY <1>1, <1>8, <2>1 DEF Fresh
    <3>2. /\ browser[r].body \in Nat /\ browser[r].body \in 1..Current
          /\ UpTo(browser[r].body, SentAt(r))
          /\ SentAt(r) <= now /\ StoodAt(browser[r].body, t)
      BY <1>1, <3>1 DEF Kept
    <3>3. SentAt(r) \in Int /\ now \in Nat /\ now' \in Nat
      <4>1. browser[r].until \in Nat
        BY <1>1
      <4> QED
        BY <1>1, <4>1 DEF SentAt
    <3>4. t \in Int /\ t <= now /\ SentAt(r) <= now'
      BY <3>2, <3>3
    <3>5. /\ browser[r].body \in 1..Current'
          /\ browser[r].body \in 1..Len(replaced') => replaced'[browser[r].body] >= t
      BY <1>5, <3>2, <3>4 DEF StoodAt
    <3>6. SentAt(r)' = SentAt(r) /\ browser'[r].body = browser[r].body
      BY <2>1 DEF SentAt
    <3> QED
      BY <3>2, <3>4, <3>5, <3>6 DEF Kept, UpTo, StoodAt
  <2> QED
    BY <1>8, <2>1
<1> QED
  BY <1>4, <1>6, <1>7, <1>8 DEF CacheInv

LEMMA WindowsAdd ==
  ASSUME NEW n \in Int, NEW x \in Int, NEW s \in Int, NEW t \in Nat, NEW r \in Nat, NEW a \in Nat,
         x >= s - t - r, n < s + a
  PROVE  x + (t + r + a) >= n
  OBVIOUS

\* A table that may be sent now may be kept by the browser.
LEMMA SentIsKept ==
  ASSUME CacheInv, NEW r \in Readers, NEW v \in Nat, Sent(r, v),
         v \in 1..Current, NoOlder(v), StoodAt(v, now - TTL - MaxRender),
         UNCHANGED <<now, replaced, announced>>
  PROVE  /\ Kept(r)' /\ \A q \in Readers \ {r} : browser'[q] = browser[q]
         /\ browser' \in [Readers -> [body : Nat, until : Nat]]
         /\ Page!RecentlyCurrent(v) /\ Page!UpToDate(v) /\ shown' = v
<1> USE PageAssumption DEF PageAssumption
<1>1. now \in Nat /\ replaced \in Seq(Nat) /\ browser \in [Readers -> [body : Nat, until : Nat]]
  BY DEF CacheInv, CacheTypes
<1>2. /\ browser'[r] = [body |-> v, until |-> now + MaxAge]
      /\ \A q \in Readers \ {r} : browser'[q] = browser[q]
      /\ browser' \in [Readers -> [body : Nat, until : Nat]] /\ shown' = v
  BY <1>1 DEF Sent
<1>3. browser'[r].body = v /\ SentAt(r)' = now /\ Current' = Current
  BY <1>1, <1>2 DEF SentAt, Current
<1>4. Kept(r)'
  BY <1>1, <1>3 DEF Kept, UpTo, NoOlder, StoodAt
<1>5. ASSUME v \in 1..Len(replaced)
      PROVE  replaced[v] + (TTL + MaxRender + MaxAge) >= now
  <2>1. replaced[v] \in Nat /\ replaced[v] >= now - TTL - MaxRender
    BY <1>1, <1>5 DEF StoodAt
  <2> QED
    BY <1>1, <2>1
<1> QED
  BY <1>2, <1>4, <1>5 DEF Page!RecentlyCurrent, Page!UpToDate, NoOlder

\* What a browser shows again is not too old yet.
LEMMA KeptIsShown ==
  ASSUME CacheInv, NEW r \in Readers, Fresh(r)
  PROVE  /\ browser[r].body \in 1..Current
         /\ Page!RecentlyCurrent(browser[r].body) /\ Page!UpToDate(browser[r].body)
<1> USE PageAssumption DEF PageAssumption
<1> DEFINE v == browser[r].body
<1>1. /\ now \in Nat /\ replaced \in Seq(Nat) /\ v \in Nat /\ browser[r].until \in Nat
      /\ \A a \in announced : a.at \in Nat /\ a.version \in Nat
  BY DEF CacheInv, CacheTypes
<1>2. Kept(r) /\ now < SentAt(r) + MaxAge
  BY <1>1 DEF CacheInv, Fresh, SentAt
<1>3. SentAt(r) \in Int
  BY <1>1 DEF SentAt
<1>4. ASSUME v \in 1..Len(replaced)
      PROVE  replaced[v] + (TTL + MaxRender + MaxAge) >= now
  <2>1. replaced[v] \in Nat /\ replaced[v] >= SentAt(r) - TTL - MaxRender
    BY <1>1, <1>2, <1>4 DEF Kept, StoodAt
  <2>2. TTL \in Nat /\ MaxRender \in Nat /\ MaxAge \in Nat /\ now \in Int /\ replaced[v] \in Int
    BY <1>1, <2>1
  <2> HIDE DEF v
  <2> QED
    BY <1>2, <1>3, <2>1, <2>2, WindowsAdd
<1>5. ASSUME NEW a \in announced, a.at + MaxAge <= now
      PROVE  v >= a.version
  <2>1. a.at < SentAt(r)
    BY <1>1, <1>2, <1>3, <1>5
  <2> QED
    BY <1>2, <2>1 DEF Kept, UpTo
<1> QED
  BY <1>2, <1>4, <1>5 DEF Kept, Page!RecentlyCurrent, Page!UpToDate

(* A step of the cache keeps the invariant and is one of MembersPage's.     *)
LEMMA CacheSteps ==
  ASSUME CacheInv, CacheActs \/ UNCHANGED cacheVars
  PROVE  CacheInv' /\ [Page!PageNext]_(Page!pageVars)
<1> USE PageAssumption DEF PageAssumption
<1>1. /\ now \in Nat /\ replaced \in Seq(Nat) /\ ver \in Nat
      /\ entry.body \in Nat /\ entry.ver \in Nat /\ entry.expires \in Nat
  BY DEF CacheInv, CacheTypes
<1>2. \A r \in Rendering : /\ reader[r].body \in Nat /\ reader[r].since \in Nat
                           /\ now <= reader[r].since + MaxRender
  BY DEF CacheInv, CacheTypes, Rendering, Rendered
<1>3. ASSUME UNCHANGED <<now, replaced, announced, ver, entry, browser>>, CacheTypes',
             \A r \in Rendering' : r \in Rendering /\ reader'[r] = reader[r]
      PROVE  CacheInv'
  BY <1>1, <1>2, <1>3, HoldingOn
<1>4. ASSUME UNCHANGED cacheVars
      PROVE  CacheInv' /\ [Page!PageNext]_(Page!pageVars)
  <2>1. UNCHANGED <<now, replaced, announced, shown, ver, entry, browser, reader>>
    BY <1>4 DEF cacheVars
  <2>2. Rendering' = Rendering
    BY <2>1 DEF Rendering
  <2>3. CacheTypes'
    BY <2>1 DEF CacheInv, CacheTypes
  <2>4. CacheInv'
    BY <1>3, <2>1, <2>2, <2>3
  <2>5. UNCHANGED Page!pageVars
    BY <2>1, <2>2 DEF Page!pageVars
  <2> QED
    BY <2>4, <2>5
<1>5. ASSUME TimePasses
      PROVE  CacheInv' /\ Page!Passes
  <2>1. /\ now' = now + 1 /\ shown' = 0 /\ UNCHANGED <<replaced, announced, ver, entry, reader, owing>>
        /\ \A r \in Rendering : now < reader[r].since + MaxRender
        /\ browser' = [r \in Readers |-> IF now' < browser[r].until THEN browser[r] ELSE Nothing]
    BY <1>5 DEF TimePasses, Quietly
  <2>2. Rendering' = Rendering
    BY <2>1 DEF Rendering
  <2>3. CacheTypes'
    <3>1. browser' \in [Readers -> [body : Nat, until : Nat]]
      BY <2>1 DEF CacheInv, CacheTypes, Nothing
    <3> QED
      BY <1>1, <2>1, <3>1 DEF CacheInv, CacheTypes
  <2>4. \A r \in Rendering : now' <= reader[r].since + MaxRender
    BY <1>1, <1>2, <2>1
  <2>5. \A r \in Readers : Fresh(r)' => browser'[r] = browser[r]
    BY <1>1, <2>1 DEF Fresh, Nothing
  <2>6. CacheInv'
    BY <1>1, <2>1, <2>2, <2>3, <2>4, <2>5, HoldingOn
  <2> QED
    BY <2>1, <2>2, <2>6 DEF Page!Passes, Page!Quietly
<1>6. ASSUME Writes
      PROVE  CacheInv' /\ Page!Changes
  <2>1. /\ replaced' = Append(replaced, now) /\ shown' = 0
        /\ UNCHANGED <<now, announced, ver, entry, browser, reader>>
    BY <1>6 DEF Writes, Quietly
  <2>2. Rendering' = Rendering
    BY <2>1 DEF Rendering
  <2>3. CacheTypes'
    BY <1>1, <2>1 DEF CacheInv, CacheTypes
  <2>4. CacheInv'
    BY <1>1, <1>2, <2>1, <2>2, <2>3, HoldingOn
  <2> QED
    BY <2>1, <2>2, <2>4 DEF Page!Changes, Page!Quietly
<1>7. ASSUME Invalidate
      PROVE  CacheInv' /\ Page!Announces
  <2>1. /\ ver' = ver + 1 /\ shown' = 0 /\ UNCHANGED <<now, replaced, entry, browser, reader>>
        /\ announced' = (IF Rendering = {} THEN announced \cup {[at |-> now, version |-> Current]}
                         ELSE announced)
    BY <1>7 DEF Invalidate, Bumped, Quietly
  <2>2. Rendering' = Rendering
    BY <2>1 DEF Rendering
  <2>3. Current \in Nat /\ Current' = Current /\ Current >= 1
    BY <1>1, <2>1 DEF Current
  <2>4. \A a \in announced' : \/ a \in announced
                              \/ Rendering = {} /\ a.at = now /\ a.version = Current
    BY <2>1
  <2>5. CacheTypes'
    <3>1. announced' \subseteq [at : Nat, version : Nat]
      BY <1>1, <2>1, <2>3 DEF CacheInv, CacheTypes
    <3> QED
      BY <1>1, <2>1, <3>1 DEF CacheInv, CacheTypes
  <2>6. entry'.ver < ver'
    BY <1>1, <2>1 DEF CacheInv
  <2>7. \A r \in Rendering' : Rendered(r)'
    BY <2>1, <2>2, <2>3, <2>4 DEF CacheInv, Rendered, StoodAt, NoOlder
  <2>8. ASSUME NEW r \in Readers, Fresh(r)'
        PROVE  Kept(r)'
    <3>1. Kept(r)
      BY <2>1, <2>8 DEF CacheInv, Fresh
    <3>2. SentAt(r)' = SentAt(r) /\ SentAt(r) <= now /\ SentAt(r) \in Int
      BY <1>1, <2>1, <3>1 DEF SentAt, Kept, CacheInv, CacheTypes
    <3>3. UpTo(browser[r].body, SentAt(r))'
      BY <1>1, <2>1, <2>4, <3>1, <3>2 DEF UpTo, Kept
    <3> QED
      BY <2>1, <2>3, <3>1, <3>2, <3>3 DEF Kept, StoodAt
  <2>9. \A a \in announced' : a.version <= Current'
    BY <2>3, <2>4 DEF CacheInv
  <2>10. CacheInv'
    BY <1>1, <2>1, <2>5, <2>6, <2>7, <2>8, <2>9 DEF CacheInv
  <2> QED
    BY <2>1, <2>2, <2>10 DEF Page!Announces, Page!Quietly, Page!Current, Current
<1>8. ASSUME NEW r \in Readers, Hits(r)
      PROVE  CacheInv' /\ Page!Shows(r)
  <2>1. /\ entry.ver = ver /\ now <= entry.expires /\ Sent(r, entry.body)
        /\ reader[r].at = "away"
        /\ UNCHANGED <<now, replaced, announced, ver, entry, reader, owing>>
    BY <1>8 DEF Hits, Valid
  <2>2. Rendering' = Rendering /\ r \notin Rendering
    BY <2>1 DEF Rendering
  <2>3. Cached
    BY <2>1 DEF CacheInv
  <2>4. entry.body \in 1..Current /\ NoOlder(entry.body)
    BY <2>3 DEF Cached
  <2>5. StoodAt(entry.body, now - TTL - MaxRender)
    <3>1. ASSUME entry.body \in 1..Len(replaced)
          PROVE  replaced[entry.body] >= now - TTL - MaxRender
      <4>1. replaced[entry.body] >= entry.expires - TTL - MaxRender
        BY <2>3, <3>1 DEF Cached, StoodAt
      <4>2. replaced[entry.body] \in Nat
        BY <1>1, <3>1
      <4>3. now <= entry.expires
        BY <2>1
      <4> QED
        BY <1>1, <4>1, <4>2, <4>3
    <3> QED
      BY <3>1 DEF StoodAt
  <2>6. /\ Kept(r)' /\ \A q \in Readers \ {r} : browser'[q] = browser[q]
        /\ browser' \in [Readers -> [body : Nat, until : Nat]]
        /\ Page!RecentlyCurrent(entry.body) /\ Page!UpToDate(entry.body) /\ shown' = entry.body
    BY <1>1, <2>1, <2>4, <2>5, SentIsKept
  <2>7. CacheTypes'
    BY <2>1, <2>6 DEF CacheInv, CacheTypes
  <2>8. \A q \in Readers : Fresh(q)' => browser'[q] = browser[q] \/ Kept(q)'
    BY <2>6
  <2>9. CacheInv'
    BY <1>1, <1>2, <2>1, <2>2, <2>7, <2>8, HoldingOn
  <2>10. Rendering' = Rendering \ {r}
    BY <2>2
  <2> QED
    BY <2>1, <2>4, <2>6, <2>9, <2>10 DEF Page!Shows, Page!Current, Current
<1>12. ASSUME NEW r \in Readers, ShowsAgain(r)
       PROVE  CacheInv' /\ Page!Shows(r)
  <2>1. /\ Fresh(r) /\ reader[r].at = "away" /\ shown' = browser[r].body
        /\ UNCHANGED <<now, replaced, announced, ver, entry, browser, reader, owing>>
    BY <1>12 DEF ShowsAgain, Fresh
  <2>2. Rendering' = Rendering \ {r} /\ Rendering' = Rendering
    BY <2>1 DEF Rendering
  <2>3. CacheTypes'
    BY <2>1 DEF CacheInv, CacheTypes
  <2>4. CacheInv'
    BY <1>3, <2>1, <2>2, <2>3
  <2> QED
    BY <2>1, <2>2, <2>4, KeptIsShown DEF Page!Shows, Page!Current, Current
<1>9. ASSUME NEW r \in Readers, Misses(r) \/ ReadFails(r)
      PROVE  CacheInv' /\ Page!Idles
  <2>1. /\ shown' = 0 /\ UNCHANGED <<now, replaced, announced, ver, entry, browser, owing>>
        /\ reader[r].at \in {"away", "missed"}
        /\ \/ reader' = [reader EXCEPT ![r].at = "missed"]
           \/ reader' = [reader EXCEPT ![r] = Away]
    BY <1>9 DEF Misses, ReadFails, Quietly
  <2>2. CacheTypes'
    <3>1. CASE reader' = [reader EXCEPT ![r].at = "missed"]
      BY <1>1, <2>1, <3>1 DEF CacheInv, CacheTypes
    <3>2. CASE reader' = [reader EXCEPT ![r] = Away]
      BY <1>1, <2>1, <3>2 DEF CacheInv, CacheTypes, Away
    <3> QED
      BY <2>1, <3>1, <3>2
  <2>3. /\ reader'[r].at # "rendering"
        /\ \A q \in Readers \ {r} : reader'[q] = reader[q]
    BY <2>1 DEF CacheInv, CacheTypes, Away
  <2>4. Rendering' = Rendering
    BY <2>1, <2>3 DEF Rendering
  <2>5. CacheInv'
    BY <1>3, <2>1, <2>2, <2>3, <2>4 DEF Rendering
  <2> QED
    BY <2>1, <2>4, <2>5 DEF Page!Idles, Page!Quietly
<1>10. ASSUME NEW r \in Readers, ReadsTable(r)
       PROVE  CacheInv' /\ Page!Reads(r)
  <2>1. /\ shown' = 0 /\ UNCHANGED <<now, replaced, announced, ver, entry, browser, owing>>
        /\ reader' = [reader EXCEPT ![r] = [at |-> "rendering", body |-> Current, since |-> now]]
    BY <1>10 DEF ReadsTable, Quietly
  <2>2. /\ Current \in Nat /\ Current' = Current /\ Current = Len(replaced) + 1
        /\ \A a \in announced : a.version \in Nat /\ Current >= a.version
    BY <1>1, <2>1 DEF Current, CacheInv, CacheTypes
  <2>3. CacheTypes'
    BY <1>1, <2>1, <2>2 DEF CacheInv, CacheTypes
  <2>4. /\ reader'[r].at = "rendering" /\ reader'[r].body = Current /\ reader'[r].since = now
        /\ \A q \in Readers \ {r} : reader'[q] = reader[q]
    BY <2>1 DEF CacheInv, CacheTypes
  <2>5. Rendering' = Rendering \cup {r}
    BY <2>4 DEF Rendering
  <2>6. Rendered(r)'
    BY <1>1, <2>1, <2>2, <2>4 DEF Rendered, StoodAt, NoOlder
  <2>7. \A q \in Rendering \ {r} : Rendered(q)'
    BY <2>1, <2>2, <2>4 DEF Rendered, StoodAt, NoOlder, CacheInv, Rendering
  <2>8. entry.ver = ver => Cached'
    BY <2>1, <2>2 DEF CacheInv, Cached, StoodAt, NoOlder
  <2>9. \A q \in Readers : Fresh(q)' => Kept(q)'
    BY <2>1, <2>2 DEF CacheInv, Fresh, Kept, SentAt, UpTo, StoodAt
  <2>10. CacheInv'
    BY <1>1, <2>1, <2>2, <2>3, <2>5, <2>6, <2>7, <2>8, <2>9 DEF CacheInv
  <2> QED
    BY <2>1, <2>5, <2>10 DEF Page!Reads, Page!Quietly
<1>11. ASSUME NEW r \in Readers, Stores(r)
       PROVE  CacheInv' /\ Page!Shows(r)
  <2>1. /\ r \in Rendering /\ Sent(r, reader[r].body)
        /\ entry' = [body |-> reader[r].body, ver |-> ver, expires |-> now + TTL]
        /\ reader' = [reader EXCEPT ![r] = Away]
        /\ UNCHANGED <<now, replaced, announced, ver, owing>>
    BY <1>11 DEF Stores, Stored, Rendering
  <2>2. /\ entry'.body = reader[r].body /\ entry'.ver = ver /\ entry'.expires = now + TTL
    BY <2>1
  <2>3. /\ reader[r].body \in Nat /\ reader[r].since \in Nat
        /\ reader[r].body \in 1..Current /\ now <= reader[r].since + MaxRender
        /\ NoOlder(reader[r].body) /\ StoodAt(reader[r].body, reader[r].since)
    BY <1>2, <2>1 DEF CacheInv, Rendered
  <2>4. /\ reader'[r].at # "rendering"
        /\ \A q \in Readers \ {r} : reader'[q] = reader[q]
    BY <2>1 DEF CacheInv, CacheTypes, Away
  <2>5. Rendering' = Rendering \ {r}
    BY <2>4 DEF Rendering
  <2>7. reader[r].body \in 1..Len(replaced) => replaced[reader[r].body] + MaxRender >= now
    <3>1. ASSUME reader[r].body \in 1..Len(replaced)
          PROVE  replaced[reader[r].body] + MaxRender >= now
      <4>1. replaced[reader[r].body] >= reader[r].since
        BY <2>3, <3>1 DEF StoodAt
      <4>2. replaced[reader[r].body] \in Nat
        BY <1>1, <3>1
      <4>3. now \in Nat /\ MaxRender \in Nat
        BY <1>1
      <4>4. reader[r].since \in Nat /\ now <= reader[r].since + MaxRender
        BY <2>3
      <4> QED
        BY <4>1, <4>2, <4>3, <4>4
    <3> QED
      BY <3>1
  <2>8. Current' = Current
    BY <2>1 DEF Current
  <2>9. StoodAt(reader[r].body, now - MaxRender) /\ StoodAt(reader[r].body, now - TTL - MaxRender)
    <3>1. ASSUME reader[r].body \in 1..Len(replaced)
          PROVE  /\ replaced[reader[r].body] >= now - MaxRender
                 /\ replaced[reader[r].body] >= now - TTL - MaxRender
      <4>1. replaced[reader[r].body] \in Nat
        BY <1>1, <3>1
      <4> QED
        BY <1>1, <2>7, <3>1, <4>1
    <3> QED
      BY <3>1 DEF StoodAt
  <2>10. Cached'
    <3>1. entry'.expires - TTL - MaxRender = now - MaxRender
      BY <1>1, <2>2
    <3>2. StoodAt(entry.body, entry.expires - TTL - MaxRender)'
      BY <2>1, <2>2, <2>9, <3>1 DEF StoodAt
    <3> QED
      BY <1>1, <2>1, <2>2, <2>3, <2>8, <3>2 DEF Cached, NoOlder
  <2>11. \A q \in Rendering' : Rendered(q)'
    BY <2>1, <2>4, <2>5, <2>8 DEF Rendered, StoodAt, NoOlder, CacheInv, Rendering
  <2>12. /\ Kept(r)' /\ \A q \in Readers \ {r} : browser'[q] = browser[q]
         /\ browser' \in [Readers -> [body : Nat, until : Nat]]
         /\ Page!RecentlyCurrent(reader[r].body) /\ Page!UpToDate(reader[r].body)
         /\ shown' = reader[r].body
    BY <1>1, <2>1, <2>3, <2>9, SentIsKept
  <2>13. CacheTypes'
    <3>1. reader' \in [Readers -> [at : {"away", "missed", "rendering"}, body : Nat, since : Nat]]
      BY <2>1 DEF CacheInv, CacheTypes, Away
    <3>2. now + TTL \in Nat
      BY <1>1
    <3>3. entry' \in [body : Nat, ver : Nat, expires : Nat]
      BY <1>1, <2>1, <2>3, <3>2
    <3> QED
      BY <1>1, <2>1, <2>12, <3>1, <3>3 DEF CacheInv, CacheTypes
  <2>14. \A q \in Readers : Fresh(q)' => Kept(q)'
    <3>1. ASSUME NEW q \in Readers \ {r}, Fresh(q)'
          PROVE  Kept(q)'
      BY <2>1, <2>8, <2>12, <3>1 DEF CacheInv, Fresh, Kept, SentAt, UpTo, StoodAt
    <3> QED
      BY <2>12, <3>1
  <2>15. CacheInv'
    BY <1>1, <2>1, <2>2, <2>8, <2>10, <2>11, <2>13, <2>14 DEF CacheInv
  <2> QED
    BY <2>1, <2>3, <2>5, <2>12, <2>15 DEF Page!Shows, Page!Current, Current
<1> QED
  BY <1>4, <1>5, <1>6, <1>7, <1>8, <1>9, <1>10, <1>11, <1>12, Zenon DEF CacheActs, Page!PageNext

\* The cache and the browsers keep what the page promises: a table that was
\* current not longer ago than it may be kept, served and rendered, and,
\* max-age after a change announced while nobody was rendering, none from
\* before it.
THEOREM ServesWhatThePagePromises == DeskSpec => ServesThePage
<1>1. CacheInv /\ [DeskNext]_deskVars => CacheInv' /\ [Page!PageNext]_(Page!pageVars)
  BY CacheSteps, CacheProjection, Zenon
<1> QED
  BY CacheStarts, <1>1, PTL DEF DeskSpec, ServesThePage, Page!PageSpec

-----------------------------------------------------------------------------
(* The mirror.                                                              *)

WalkFields == {"at", "page", "got", "queue", "held", "there", "shrunk", "clean", "alone"}

\* An entry as recent as the moment the refreshes under way began.
RecentEntries ==
  {e \in [user : Users, version : Nat, mail : BOOLEAN] : e.version >= floor[e.user]}

\* What a refresh keeps is recent, and at rest it keeps nothing.
Refreshing(w) ==
  /\ walk[w].at \in {"idle", "listing", "writing", "hydrating"}
  /\ walk[w].page \in Nat \ {0}
  /\ walk[w].got \in Seq(RecentEntries) /\ walk[w].held \in Seq(RecentEntries)
  /\ walk[w].at = "idle" => walk[w].got = <<>> /\ walk[w].held = <<>>
  /\ walk[w].at = "writing" => walk[w].got # <<>>

Searching(w) == walk[w].at \in {"idle", "listing", "found", "failed"}

Keeps(w) ==
  /\ DOMAIN walk[w] = WalkFields
  /\ w \in Refreshes => Refreshing(w)
  /\ w \in Searches => Searching(w)

HubTypes ==
  /\ hub \in Seq(Users) /\ version \in [Users -> Nat] /\ floor \in [Users -> Nat]
  /\ \A u \in Users : floor[u] <= version[u]

RowTypes == row \in [Users -> [version : Nat, mail : BOOLEAN]]

MirrorInv == HubTypes /\ RowTypes /\ DOMAIN walk = Walks /\ \A w \in Walks : Keeps(w)

LEMMA MirrorProjection == HubTypes /\ [DeskNext]_deskVars => MirrorActs \/ UNCHANGED mirrorVars
<1>1. UNCHANGED deskVars => UNCHANGED mirrorVars
  BY Zenon DEF deskVars
<1>2. MirrorStep => MirrorActs
  BY Zenon DEF MirrorStep, MirrorActs
<1>3. CacheStep => UNCHANGED mirrorVars
  BY Zenon DEF CacheStep, CacheAlone
<1>4. EnrolStep => MirrorActs \/ UNCHANGED mirrorVars
  BY Zenon DEF EnrolStep, EnrolRound, EnrolAlone, HubLearns, MirrorActs
<1>5. OverrideStep => UNCHANGED mirrorVars
  BY Zenon DEF OverrideStep
<1> QED
  BY <1>1, <1>2, <1>3, <1>4, <1>5, Zenon DEF DeskNext

LEMMA RestKeeps == /\ DOMAIN Rest = WalkFields /\ Rest.at = "idle" /\ Rest.page = 1
                   /\ Rest.got = <<>> /\ Rest.held = <<>>
  BY DEF Rest, WalkFields

(* A walk at rest keeps what it has to.                                     *)
LEMMA RestingKeeps ==
  ASSUME NEW w \in Walks, walk'[w] = Rest
  PROVE  Keeps(w)'
<1>1. /\ DOMAIN walk'[w] = WalkFields
      /\ walk'[w].at = "idle" /\ walk'[w].got = <<>> /\ walk'[w].held = <<>>
  BY RestKeeps
<1>2. walk'[w].page \in Nat \ {0}
  BY RestKeeps
<1>3. <<>> \in Seq(RecentEntries')
  OBVIOUS
<1> QED
  BY <1>1, <1>2, <1>3, Zenon DEF Keeps, Refreshing, Searching

LEMMA MirrorStarts == DeskInit => MirrorInv
<1> SUFFICES ASSUME NEW m \in Mixes, MirrorInit(MaxChanges - m.changes, MaxFailures - m.failures)
             PROVE  MirrorInv
  BY DEF DeskInit
<1> USE DEF MirrorInit
<1>1. HubTypes
  BY HubAssumption DEF HubTypes, HubAssumption
<1>2. RowTypes
  <2>1. Absent \in [version : Nat, mail : BOOLEAN]
    BY DEF Absent
  <2> QED
    BY <2>1 DEF RowTypes
<1>3. \A w \in Walks : walk[w] = Rest
  OBVIOUS
<1>4. \A w \in Walks : Keeps(w)
  <2>1. <<>> \in Seq(RecentEntries) /\ 1 \in Nat \ {0}
    OBVIOUS
  <2>2. ASSUME NEW w \in Walks
        PROVE  Keeps(w)
    <3>1. /\ DOMAIN walk[w] = WalkFields /\ walk[w].at = "idle"
          /\ walk[w].got = <<>> /\ walk[w].held = <<>>
      BY <1>3, RestKeeps
    <3>2. walk[w].page \in Nat \ {0}
      BY <1>3, RestKeeps
    <3> QED
      BY <2>1, <3>1, <3>2, Zenon DEF Keeps, Refreshing, Searching
  <2> QED
    BY <2>2
<1>5. DOMAIN walk = Walks
  OBVIOUS
<1> QED
  BY <1>1, <1>2, <1>4, <1>5 DEF MirrorInv

(* Entries stay recent while nobody begins, whatever the hub learns.        *)
LEMMA OneWalks ==
  ASSUME MirrorInv, NEW w \in Walks, UNCHANGED <<hub, version, floor>>, RowTypes', DOMAIN walk' = Walks,
         \A v \in Walks \ {w} : walk'[v] = walk[v],
         Keeps(w)'
  PROVE  MirrorInv'
<1>1. RecentEntries' = RecentEntries
  BY DEF RecentEntries
<1>2. \A v \in Walks \ {w} : Keeps(v)'
  BY <1>1 DEF MirrorInv, Keeps, Refreshing, Searching
<1>3. HubTypes'
  BY DEF MirrorInv, HubTypes
<1> QED
  BY <1>2, <1>3 DEF MirrorInv

(* What a page holds is as recent as can be.                                *)
LEMMA PagesAreRecent ==
  ASSUME HubTypes, NEW n \in Nat \ {0}
  PROVE  PageAt(n) \in Seq(RecentEntries)
<1> DEFINE from == (n - 1) * PageSize + 1
           to == Least(n * PageSize, Len(hub))
           k == Len(SubSeq(hub, from, to))
<1>1. from \in Nat /\ from >= 1 /\ n * PageSize \in Nat
  <2>1. PageSize \in Nat /\ n - 1 \in Nat
    BY HubAssumption DEF HubAssumption
  <2>2. (n - 1) * PageSize \in Nat /\ n * PageSize \in Nat
    BY <2>1
  <2> QED
    BY <2>2
<1>2. hub \in Seq(Users) /\ Len(hub) \in Nat
  BY DEF HubTypes
<1>3. to \in Nat /\ to <= Len(hub)
  BY <1>1, <1>2 DEF Least
<1> HIDE DEF from, to
<1>4. k \in Nat /\ k = IF from <= to THEN to - from + 1 ELSE 0
  BY <1>1, <1>2, <1>3
<1> HIDE DEF k
<1>5. \A u \in Users : Listed(u) \in RecentEntries
  BY DEF Listed, RecentEntries, HubTypes
<1>6. \A i \in 1..k : hub[from + i - 1] \in Users
  <2>1. ASSUME NEW i \in 1..k
        PROVE  from + i - 1 \in 1..Len(hub)
    BY <1>1, <1>2, <1>3, <1>4
  <2> QED
    BY <1>2, <2>1
<1>7. [i \in 1..k |-> Listed(hub[from + i - 1])] \in Seq(RecentEntries)
  BY <1>4, <1>5, <1>6
<1> QED
  BY <1>7 DEF PageAt, from, to, k

(* Every step of the mirror keeps the invariant, and a row it writes is     *)
(* recent.                                                                  *)
LEMMA MirrorSteps ==
  ASSUME MirrorInv, MirrorActs \/ UNCHANGED mirrorVars
  PROVE  /\ MirrorInv'
         /\ \A u \in Users : row'[u] # row[u] => row'[u].version >= floor[u]
<1> DEFINE Goal == /\ MirrorInv'
                   /\ \A u \in Users : row'[u] # row[u] => row'[u].version >= floor[u]
<1>1. HubTypes /\ RowTypes /\ DOMAIN walk = Walks /\ \A w \in Walks : Keeps(w)
  BY DEF MirrorInv
<1>2. \A w \in Walks : DOMAIN walk[w] = WalkFields
  BY <1>1 DEF Keeps
<1>3. ASSUME NEW w \in Walks, NEW r, walk' = [walk EXCEPT ![w] = r],
             UNCHANGED <<hub, version, floor>>, RowTypes',
             \A u \in Users : row'[u] # row[u] => row'[u].version >= floor[u],
             DOMAIN r = WalkFields,
             w \in Searches => r.at \in {"idle", "listing", "found", "failed"},
             w \in Refreshes =>
               /\ r.at \in {"idle", "listing", "writing", "hydrating"}
               /\ r.page \in Nat \ {0}
               /\ r.got \in Seq(RecentEntries) /\ r.held \in Seq(RecentEntries)
               /\ r.at = "idle" => r.got = <<>> /\ r.held = <<>>
               /\ r.at = "writing" => r.got # <<>>
      PROVE  Goal
  <2>1. walk'[w] = r /\ DOMAIN walk' = Walks /\ \A v \in Walks \ {w} : walk'[v] = walk[v]
    BY <1>1, <1>3
  <2>2. RecentEntries' = RecentEntries
    BY <1>3 DEF RecentEntries
  <2>3. Keeps(w)'
    BY <1>3, <2>1, <2>2, Zenon DEF Keeps, Refreshing, Searching
  <2> QED
    BY <1>3, <2>1, <2>3, OneWalks
<1>4. ASSUME HubTypes', floor' = floor, row' = row, DOMAIN walk' = Walks,
             \A v \in Walks : /\ DOMAIN walk'[v] = WalkFields
                              /\ walk'[v].at = walk[v].at /\ walk'[v].page = walk[v].page
                              /\ walk'[v].got = walk[v].got /\ walk'[v].held = walk[v].held
      PROVE  Goal
  <2>1. RecentEntries' = RecentEntries
    BY <1>4 DEF RecentEntries
  <2>2. \A v \in Walks : Keeps(v)'
    BY <1>1, <1>4, <2>1, Zenon DEF Keeps, Refreshing, Searching
  <2>3. RowTypes'
    BY <1>1, <1>4 DEF RowTypes
  <2> QED
    BY <1>4, <2>2, <2>3 DEF MirrorInv
<1>5. \A w \in Walks : w \in Refreshes \/ w \in Searches
  BY DEF Walks
<1>6. UNCHANGED row => RowTypes' /\ \A u \in Users : row'[u] # row[u] => row'[u].version >= floor[u]
  BY <1>1 DEF RowTypes
<1>7. \A w \in Walks : walk[w].at \in {"writing", "hydrating"} => w \in Refreshes
  BY <1>1, <1>5 DEF Keeps, Searching
<1>8. \A w \in Refreshes : w \in Walks /\ w \notin Searches
  BY HubAssumption DEF HubAssumption, Walks
<1>10. ASSUME NEW w \in Walks, Begins(w)
       PROVE  Goal
  <2> DEFINE lone == w \in Refreshes /\ Running = {}
             r == [walk[w] EXCEPT !.at = "listing", !.there = ToSet(hub), !.alone = lone]
  <2>1. /\ walk[w].at = "idle" /\ UNCHANGED <<hub, version, row>>
        /\ floor' = IF lone THEN version ELSE floor
        /\ DOMAIN walk' = Walks /\ walk'[w] = r
        /\ \A v \in Walks \ {w} : walk'[v] = walk[v] \/ walk'[v] = [walk[v] EXCEPT !.alone = @ /\ walk[v].at = "idle"]
    BY <1>10 DEF Begins
  <2>2. /\ DOMAIN r = WalkFields /\ r.at = "listing" /\ r.page = walk[w].page
        /\ r.got = walk[w].got /\ r.held = walk[w].held
    BY <1>2 DEF WalkFields
  <2> HIDE DEF lone, r
  <2>3. \A v \in Walks \ {w} :
          /\ DOMAIN walk'[v] = WalkFields
          /\ walk'[v].at = walk[v].at /\ walk'[v].page = walk[v].page
          /\ walk'[v].got = walk[v].got /\ walk'[v].held = walk[v].held
    BY <1>2, <2>1 DEF WalkFields
  <2>4. /\ DOMAIN walk'[w] = WalkFields /\ walk'[w].at = "listing" /\ walk'[w].page = walk[w].page
        /\ walk'[w].got = walk[w].got /\ walk'[w].held = walk[w].held
    BY <2>1, <2>2
  <2>5. HubTypes'
    BY <1>1, <2>1 DEF HubTypes
  <2>6. ASSUME NEW v \in Refreshes
        PROVE  walk[v].got \in Seq(RecentEntries') /\ walk[v].held \in Seq(RecentEntries')
    <3>1. Refreshing(v)
      BY <1>1, <1>8 DEF Keeps
    <3>2. CASE lone
      <4>1. walk[v].at = "idle"
        BY <3>2 DEF lone, Running
      <4>2. walk[v].got = <<>> /\ walk[v].held = <<>>
        BY <3>1, <4>1 DEF Refreshing
      <4>3. <<>> \in Seq(RecentEntries')
        OBVIOUS
      <4> QED
        BY <4>2, <4>3
    <3>3. CASE ~lone
      <4>1. RecentEntries' = RecentEntries
        BY <2>1, <3>3 DEF RecentEntries
      <4> QED
        BY <3>1, <4>1 DEF Refreshing
    <3> QED
      BY <3>2, <3>3
  <2>7. \A v \in Walks \ {w} : Keeps(v)'
    BY <1>1, <2>3, <2>6, Zenon DEF Keeps, Refreshing, Searching
  <2>8. Keeps(w)'
    <3>1. w \in Refreshes => walk[w].page \in Nat \ {0}
      BY <1>1 DEF Keeps, Refreshing
    <3>2. walk'[w].at \in {"idle", "listing", "writing", "hydrating"}
          /\ walk'[w].at \in {"idle", "listing", "found", "failed"}
          /\ walk'[w].at # "idle" /\ walk'[w].at # "writing"
      BY <2>4
    <3> QED
      BY <2>4, <2>6, <3>1, <3>2, Zenon DEF Keeps, Refreshing, Searching
  <2> QED
    BY <1>6, <2>1, <2>5, <2>7, <2>8 DEF MirrorInv
<1>11. ASSUME NEW w \in Walks, ListsPage(w)
       PROVE  Goal
  <2> DEFINE found == PageAt(walk[w].page)
             read == [walk[w] EXCEPT !.page = @ + 1, !.got = @ \o found]
             last == [read EXCEPT !.page = 1]
             r == IF IsLast(Len(found)) THEN Writing(last) ELSE read
  <2>1. /\ w \in Refreshes /\ walk[w].at = "listing" /\ walk' = [walk EXCEPT ![w] = r]
        /\ UNCHANGED <<hub, version, row, floor>>
    BY <1>11 DEF ListsPage
  <2>2. Refreshing(w)
    BY <1>1, <2>1 DEF Keeps
  <2>3. found \in Seq(RecentEntries)
    BY <1>1, <2>2, PagesAreRecent DEF Refreshing
  <2> HIDE DEF found
  <2>4. /\ DOMAIN read = WalkFields /\ read.at = "listing"
        /\ read.got = walk[w].got \o found /\ read.held = walk[w].held
    BY <1>2, <2>1 DEF WalkFields
  <2>41. read.page \in Nat \ {0}
    <3>1. read.page = walk[w].page + 1
      BY <1>2 DEF WalkFields
    <3> QED
      BY <2>2, <3>1 DEF Refreshing
  <2>5. read.got \in Seq(RecentEntries) /\ read.held \in Seq(RecentEntries)
    BY <2>2, <2>3, <2>4 DEF Refreshing
  <2> HIDE DEF read
  <2>6. /\ DOMAIN last = WalkFields /\ last.got = read.got /\ last.held = read.held
    BY <2>4 DEF WalkFields
  <2>61. last.page = 1
    BY <2>4 DEF WalkFields
  <2> HIDE DEF last
  <2>7. /\ DOMAIN Writing(last) = WalkFields
        /\ Writing(last).got = last.got /\ Writing(last).held = last.held
        /\ Writing(last).at = IF last.got = <<>> THEN "hydrating" ELSE "writing"
    BY <2>6 DEF Writing, WalkFields
  <2>71. Writing(last).page = 1
    BY <2>6, <2>61 DEF Writing, WalkFields
  <2>8. CASE IsLast(Len(found))
    <3>1. r = Writing(last)
      BY <2>8
    <3>2. r.page \in Nat \ {0}
      BY <2>71, <3>1
    <3>3. /\ r.at \in {"writing", "hydrating"} /\ (r.at = "writing" => r.got # <<>>)
          /\ DOMAIN r = WalkFields
          /\ r.got \in Seq(RecentEntries) /\ r.held \in Seq(RecentEntries)
      BY <2>5, <2>6, <2>7, <3>1
    <3> HIDE DEF r
    <3>4. r.at \in {"idle", "listing", "writing", "hydrating"} /\ r.at # "idle"
      BY <3>3
    <3> QED
      BY <1>3, <1>6, <1>8, <2>1, <3>2, <3>3, <3>4
  <2>9. CASE ~IsLast(Len(found))
    <3>1. r = read
      BY <2>9
    <3> QED
      BY <1>3, <1>6, <1>8, <2>1, <2>4, <2>41, <2>5, <3>1
  <2> QED
    BY <2>8, <2>9
<1>12. ASSUME NEW w \in Walks, SearchesPage(w)
       PROVE  Goal
  <2> DEFINE found == PageAt(walk[w].page)
             read == [walk[w] EXCEPT !.page = @ + 1, !.got = @ \o WithCard(found)]
             none == [Rest EXCEPT !.at = "failed", !.clean = walk[w].clean]
             last == [read EXCEPT !.at = "found", !.page = 1]
             r == IF found = <<>> THEN none ELSE IF IsLast(Len(found)) THEN last ELSE read
  <2>1. /\ w \in Searches /\ walk[w].at = "listing" /\ walk' = [walk EXCEPT ![w] = r]
        /\ UNCHANGED <<hub, version, row, floor>>
    BY <1>12 DEF SearchesPage
  <2>2. DOMAIN read = WalkFields /\ read.at = "listing"
    BY <1>2, <2>1 DEF WalkFields
  <2>3. DOMAIN none = WalkFields /\ none.at = "failed"
    BY RestKeeps DEF WalkFields
  <2> HIDE DEF found, read, none
  <2>4. DOMAIN last = WalkFields /\ last.at = "found"
    BY <2>2 DEF WalkFields
  <2>5. r \in {none, last, read}
    OBVIOUS
  <2> HIDE DEF last, r
  <2>6. DOMAIN r = WalkFields /\ r.at \in {"idle", "listing", "found", "failed"}
    BY <2>2, <2>3, <2>4, <2>5
  <2>7. w \notin Refreshes
    BY <1>8, <2>1
  <2> QED
    BY <1>3, <1>6, <2>1, <2>6, <2>7
\* A walk comes to rest.
<1>13. ASSUME NEW w \in Walks, walk' = [walk EXCEPT ![w] = Rest], UNCHANGED <<hub, version, floor, row>>
       PROVE  Goal
  <2>1. Rest.page \in Nat \ {0}
    BY RestKeeps
  <2>2. <<>> \in Seq(RecentEntries)
    OBVIOUS
  <2>3. /\ Rest.at \in {"idle", "listing", "writing", "hydrating"}
        /\ Rest.at \in {"idle", "listing", "found", "failed"} /\ Rest.at # "writing"
    BY RestKeeps
  <2> QED
    BY <1>3, <1>6, <1>13, <2>1, <2>2, <2>3, RestKeeps
<1>14. ASSUME NEW w \in Walks, ListFails(w)
       PROVE  Goal
  <2> DEFINE none == [Rest EXCEPT !.at = "failed", !.clean = FALSE]
  <2>1. /\ walk' = [walk EXCEPT ![w] = IF w \in Searches THEN none ELSE Rest]
        /\ UNCHANGED <<hub, version, row, floor>>
    BY <1>14 DEF ListFails
  <2>2. CASE w \in Searches
    <3>1. DOMAIN none = WalkFields /\ none.at = "failed"
      BY RestKeeps DEF WalkFields
    <3>2. walk' = [walk EXCEPT ![w] = none] /\ w \notin Refreshes
      BY <1>8, <2>1, <2>2
    <3> HIDE DEF none
    <3> QED
      BY <1>3, <1>6, <2>1, <3>1, <3>2
  <2>3. CASE w \notin Searches
    BY <1>13, <2>1, <2>3
  <2> QED
    BY <2>2, <2>3
<1>15. ASSUME NEW w \in Walks, SearchEnds(w) \/ Cancelled(w) \/ Finishes(w)
       PROVE  Goal
  BY <1>13, <1>15 DEF SearchEnds, Cancelled, Finishes
\* A refresh in its loops goes on: it keeps no more than it kept.
<1>16. ASSUME NEW w \in Refreshes, NEW r, walk' = [walk EXCEPT ![w] = r],
              UNCHANGED <<hub, version, floor>>, RowTypes',
              \A u \in Users : row'[u] # row[u] => row'[u].version >= floor[u],
              DOMAIN r = WalkFields, r.at \in {"writing", "hydrating"},
              r.page = walk[w].page, r.got \in Seq(RecentEntries), r.held \in Seq(RecentEntries),
              r.at = "writing" => r.got # <<>>
       PROVE  Goal
  <2>1. Refreshing(w)
    BY <1>1, <1>8 DEF Keeps
  <2>2. r.page \in Nat \ {0}
    BY <1>16, <2>1 DEF Refreshing
  <2>3. r.at \in {"idle", "listing", "writing", "hydrating"} /\ r.at # "idle"
    BY <1>16
  <2> QED
    BY <1>3, <1>8, <1>16, <2>2, <2>3
\* Writing a recent entry.
<1>17. ASSUME NEW e \in RecentEntries, row' = [row EXCEPT ![e.user] = RowOf(e)]
       PROVE  RowTypes' /\ \A u \in Users : row'[u] # row[u] => row'[u].version >= floor[u]
  <2>1. e.user \in Users /\ e.version \in Nat /\ e.mail \in BOOLEAN /\ e.version >= floor[e.user]
    BY <1>17 DEF RecentEntries
  <2>2. RowOf(e) \in [version : Nat, mail : BOOLEAN] /\ RowOf(e).version = e.version
    BY <2>1 DEF RowOf
  <2>3. RowTypes'
    BY <1>1, <1>17, <2>1, <2>2 DEF RowTypes
  <2>4. /\ row'[e.user] = RowOf(e)
        /\ \A u \in Users \ {e.user} : row'[u] = row[u]
    BY <1>1, <1>17, <2>1 DEF RowTypes
  <2> QED
    BY <2>1, <2>2, <2>3, <2>4
<1>18. ASSUME NEW w \in Walks, Upserts(w) \/ UpsertFails(w)
       PROVE  Goal
  <2> DEFINE e == Head(walk[w].got)
             q == [walk[w] EXCEPT !.got = Tail(@), !.queue = IF e.mail THEN @ ELSE Append(@, e.user)]
             p == [walk[w] EXCEPT !.got = Tail(@), !.clean = FALSE]
  <2>1. /\ walk[w].at = "writing" /\ w \in Refreshes
        /\ walk' = [walk EXCEPT ![w] = Writing(q)] \/ walk' = [walk EXCEPT ![w] = Writing(p)]
        /\ row' = [row EXCEPT ![e.user] = RowOf(e)] \/ UNCHANGED row
        /\ UNCHANGED <<hub, version, floor>>
    <3>1. walk[w].at = "writing" /\ w \in Refreshes /\ UNCHANGED <<hub, version, floor>>
      BY <1>7, <1>18 DEF Upserts, UpsertFails
    <3>2. CASE Upserts(w)
      <4>1. row' = [row EXCEPT ![e.user] = RowOf(e)]
        BY <3>2 DEF Upserts
      <4>2. walk' = [walk EXCEPT ![w] = Writing(q)]
        BY <3>2 DEF Upserts
      <4> QED
        BY <3>1, <4>1, <4>2, Zenon
    <3>3. CASE UpsertFails(w)
      <4>1. UNCHANGED row
        BY <3>3 DEF UpsertFails
      <4>2. walk' = [walk EXCEPT ![w] = Writing(p)]
        BY <3>3 DEF UpsertFails
      <4> QED
        BY <3>1, <4>1, <4>2, Zenon
    <3> QED
      BY <1>18, <3>2, <3>3
  <2>2. /\ walk[w].got \in Seq(RecentEntries) /\ walk[w].held \in Seq(RecentEntries)
        /\ walk[w].got # <<>>
    BY <1>1, <2>1 DEF Keeps, Refreshing
  <2>3. e \in RecentEntries /\ Tail(walk[w].got) \in Seq(RecentEntries)
    BY <2>2
  <2>4. RowTypes' /\ \A u \in Users : row'[u] # row[u] => row'[u].version >= floor[u]
    BY <1>6, <1>17, <2>1, <2>3
  <2>5. /\ DOMAIN q = WalkFields /\ q.got = Tail(walk[w].got) /\ q.held = walk[w].held /\ q.page = walk[w].page
        /\ DOMAIN p = WalkFields /\ p.got = Tail(walk[w].got) /\ p.held = walk[w].held /\ p.page = walk[w].page
    BY <1>2 DEF WalkFields
  <2> HIDE DEF e, q, p
  <2>6. ASSUME NEW r, DOMAIN r = WalkFields, r.got = Tail(walk[w].got), r.held = walk[w].held,
               r.page = walk[w].page, walk' = [walk EXCEPT ![w] = Writing(r)]
        PROVE  Goal
    <3>1. /\ DOMAIN Writing(r) = WalkFields
          /\ Writing(r).got = r.got /\ Writing(r).held = r.held /\ Writing(r).page = r.page
          /\ Writing(r).at = IF r.got = <<>> THEN "hydrating" ELSE "writing"
      BY <2>6 DEF Writing, WalkFields
    <3>2. /\ Writing(r).at \in {"writing", "hydrating"}
          /\ Writing(r).at = "writing" => Writing(r).got # <<>>
      BY <3>1
    <3>3. /\ Writing(r).got \in Seq(RecentEntries) /\ Writing(r).held \in Seq(RecentEntries)
          /\ Writing(r).page = walk[w].page
      BY <2>2, <2>3, <2>6, <3>1
    <3> QED
      BY <1>16, <2>1, <2>4, <2>6, <3>1, <3>2, <3>3, Zenon
  <2> QED
    BY <2>1, <2>5, <2>6
<1>19. ASSUME NEW w \in Walks, Fetches(w)
       PROVE  Goal
  <2> DEFINE u == Head(walk[w].queue)
             h == <<[user |-> u, version |-> version[u], mail |-> TRUE]>>
             r == [walk[w] EXCEPT !.held = h]
  <2>1. /\ walk[w].at = "hydrating" /\ w \in Refreshes
        /\ u \in ToSet(hub)
        /\ walk' = [walk EXCEPT ![w].held = h]
        /\ UNCHANGED <<hub, version, row, floor>>
    BY <1>7, <1>19 DEF Fetches, Hydrating
  <2>2. u \in Users
    BY <1>1, <2>1 DEF HubTypes, ToSet
  <2>3. walk[w].got \in Seq(RecentEntries)
    BY <1>1, <2>1 DEF Keeps, Refreshing
  <2>4. h \in Seq(RecentEntries)
    <3>1. [user |-> u, version |-> version[u], mail |-> TRUE] \in RecentEntries
      BY <1>1, <2>2 DEF HubTypes, RecentEntries
    <3> QED
      BY <3>1
  <2>5. walk' = [walk EXCEPT ![w] = r]
    BY <2>1
  <2> HIDE DEF h, u
  <2>6. /\ DOMAIN r = WalkFields /\ r.at = "hydrating" /\ r.got = walk[w].got
        /\ r.held = h /\ r.page = walk[w].page
    BY <1>2, <2>1 DEF WalkFields
  <2> HIDE DEF r
  <2> QED
    BY <1>6, <1>16, <2>1, <2>3, <2>4, <2>5, <2>6
<1>20. ASSUME NEW w \in Walks, HydrateFails(w) \/ Hydrates(w)
       PROVE  Goal
  <2> DEFINE e == Head(walk[w].held)
             f == [walk[w] EXCEPT !.queue = Tail(@), !.held = <<>>, !.clean = @ /\ FALSE]
             t == [walk[w] EXCEPT !.queue = Tail(@), !.held = <<>>, !.clean = @ /\ TRUE]
  <2>1. /\ walk[w].at = "hydrating" /\ w \in Refreshes
        /\ walk' = [walk EXCEPT ![w] = f] \/ walk' = [walk EXCEPT ![w] = t]
        /\ UNCHANGED row \/ (walk[w].held # <<>> /\ row' = [row EXCEPT ![e.user] = RowOf(e)])
        /\ UNCHANGED <<hub, version, floor>>
    BY <1>7, <1>20 DEF HydrateFails, Hydrates, Hydrating, Dequeued
  <2>2. walk[w].got \in Seq(RecentEntries) /\ walk[w].held \in Seq(RecentEntries)
    BY <1>1, <2>1 DEF Keeps, Refreshing
  <2>3. walk[w].held # <<>> => e \in RecentEntries
    BY <2>2
  <2>4. RowTypes' /\ \A u \in Users : row'[u] # row[u] => row'[u].version >= floor[u]
    BY <1>6, <1>17, <2>1, <2>3
  <2>5. /\ DOMAIN f = WalkFields /\ f.at = "hydrating" /\ f.got = walk[w].got /\ f.held = <<>> /\ f.page = walk[w].page
        /\ DOMAIN t = WalkFields /\ t.at = "hydrating" /\ t.got = walk[w].got /\ t.held = <<>> /\ t.page = walk[w].page
    BY <1>2, <2>1 DEF WalkFields
  <2>6. <<>> \in Seq(RecentEntries)
    OBVIOUS
  <2> HIDE DEF e, f, t
  <2>7. CASE walk' = [walk EXCEPT ![w] = f]
    BY <1>16, <2>1, <2>2, <2>4, <2>5, <2>6, <2>7
  <2>8. CASE walk' = [walk EXCEPT ![w] = t]
    BY <1>16, <2>1, <2>2, <2>4, <2>5, <2>6, <2>8
  <2> QED
    BY <2>1, <2>7, <2>8
\* The hub.
<1>21. ASSUME NEW u, Edits(u)
       PROVE  Goal
  <2>1. /\ u \in Users /\ version' = [version EXCEPT ![u] = @ + 1]
        /\ UNCHANGED <<hub, row, walk, floor>>
    BY <1>1, <1>21 DEF Edits, Edited, HubTypes, ToSet
  <2>2. HubTypes'
    BY <1>1, <2>1 DEF HubTypes
  <2> QED
    BY <1>1, <1>2, <1>4, <2>1, <2>2
<1>22. ASSUME NEW u \in Users, Joins(u)
       PROVE  Goal
  <2>1. PICK i \in 1..(Len(hub) + 1) : hub' = InsertAt(hub, i, u)
    BY <1>22 DEF Joins
  <2>2. version' = [version EXCEPT ![u] = @ + 1] /\ UNCHANGED <<row, walk, floor>>
    BY <1>22 DEF Joins, Edited
  <2>3. hub' \in Seq(Users)
    <3>1. hub \in Seq(Users) /\ Len(hub) \in Nat /\ i \in Nat /\ i >= 1 /\ i - 1 <= Len(hub)
      BY <1>1, <2>1 DEF HubTypes
    <3>2. SubSeq(hub, 1, i - 1) \in Seq(Users) /\ SubSeq(hub, i, Len(hub)) \in Seq(Users) /\ <<u>> \in Seq(Users)
      BY <3>1
    <3> QED
      BY <2>1, <3>2 DEF InsertAt
  <2>4. HubTypes'
    BY <1>1, <2>2, <2>3 DEF HubTypes
  <2> QED
    BY <1>1, <1>2, <1>4, <2>2, <2>4
<1>23. ASSUME NEW u \in Users, Leaves(u)
       PROVE  Goal
  <2>1. PICK i \in 1..Len(hub) : hub' = RemoveAt(hub, i)
    BY <1>23 DEF Leaves
  <2>2. /\ UNCHANGED <<version, row, floor>>
        /\ walk' = [w \in Walks |-> [walk[w] EXCEPT !.shrunk = @ \/ walk[w].at = "listing"]]
    BY <1>23 DEF Leaves
  <2>3. hub' \in Seq(Users)
    <3>1. hub \in Seq(Users) /\ Len(hub) \in Nat /\ i \in Nat /\ i >= 1 /\ i <= Len(hub)
      BY <1>1, <2>1 DEF HubTypes
    <3>2. SubSeq(hub, 1, i - 1) \in Seq(Users) /\ SubSeq(hub, i + 1, Len(hub)) \in Seq(Users)
      BY <3>1
    <3> QED
      BY <2>1, <3>2 DEF RemoveAt
  <2>4. HubTypes'
    BY <1>1, <2>2, <2>3 DEF HubTypes
  <2>5. \A v \in Walks : /\ DOMAIN walk'[v] = WalkFields
                         /\ walk'[v].at = walk[v].at /\ walk'[v].page = walk[v].page
                         /\ walk'[v].got = walk[v].got /\ walk'[v].held = walk[v].held
    BY <1>2, <2>2 DEF WalkFields
  <2> QED
    BY <1>4, <2>2, <2>4, <2>5
<1>24. ASSUME UNCHANGED mirrorVars
       PROVE  Goal
  <2>1. UNCHANGED <<hub, version, row, walk, floor>>
    BY <1>24 DEF mirrorVars
  <2>2. HubTypes'
    BY <1>1, <2>1 DEF HubTypes
  <2> QED
    BY <1>1, <1>2, <1>4, <2>1, <2>2
<1> QED
  BY <1>10, <1>11, <1>12, <1>14, <1>15, <1>18, <1>19, <1>20, <1>21, <1>22, <1>23, <1>24, Zenon
     DEF MirrorActs

\* However the refreshes overlap, fail and are cancelled, none writes a row
\* older than the moment the refreshes under way began.
THEOREM RowsStayRecent == DeskSpec => RowsAreRecent
<1> DEFINE Recent == \A u \in Users : row'[u] # row[u] => row'[u].version >= floor[u]
<1>1. MirrorInv /\ [DeskNext]_deskVars => MirrorActs \/ UNCHANGED mirrorVars
  BY MirrorProjection, Zenon DEF MirrorInv
<1>2. MirrorInv /\ [DeskNext]_deskVars => MirrorInv' /\ [Recent]_mirrorVars
  BY <1>1, MirrorSteps, Zenon
<1> QED
  BY MirrorStarts, <1>2, PTL DEF DeskSpec, RowsAreRecent

-----------------------------------------------------------------------------
(* What the filter of a search keeps.                                       *)

(* Every non-empty set of numbers has a least one.                          *)
LEMMA LeastNumber ==
  ASSUME NEW T \in SUBSET Nat, T # {}
  PROVE  \E n \in T : \A m \in T : n <= m
<1>1. IsWellFoundedOn({ss \in Nat \X Nat : ss[1] < ss[2]}, Nat)
  BY NatLessThanWellFounded DEF OpToRel
<1>2. PICK n \in T : \A m \in T : <<m, n>> \notin {ss \in Nat \X Nat : ss[1] < ss[2]}
  BY <1>1, WFMin, Zenon
<1>3. \A m \in T : n <= m
  <2>1. ASSUME NEW m \in T
        PROVE  n <= m
    <3>1. m \in Nat /\ n \in Nat /\ <<m, n>> \notin {ss \in Nat \X Nat : ss[1] < ss[2]}
      BY <1>2
    <3> QED
      BY <3>1
  <2> QED
    BY <2>1
<1> QED
  BY <1>3

(* Induction, for a set.                                                    *)
LEMMA EveryNumber ==
  ASSUME NEW T, 0 \in T, \A n \in Nat : n \in T => n + 1 \in T
  PROVE  Nat \subseteq T
<1> SUFFICES ASSUME NEW k \in Nat, k \notin T
             PROVE  FALSE
  OBVIOUS
<1>1. PICK n \in Nat \ T : \A m \in Nat \ T : n <= m
  BY LeastNumber
<1>2. n # 0 /\ n - 1 \in Nat /\ n = (n - 1) + 1
  BY <1>1
<1> QED
  BY <1>1, <1>2

\* What the loop keeps of the first n entries of a page.
Keeping(page, kept, n) ==
  IF n = 0 THEN <<>>
  ELSE IF HasCard(page[n]) THEN Append(kept[n - 1], page[n])
  ELSE kept[n - 1]

(* The loop over a page does define what it keeps.                          *)
LEMMA LoopDefines ==
  ASSUME NEW S, NEW page \in Seq(S)
  PROVE  \E kept : kept = [n \in 0..Len(page) |-> Keeping(page, kept, n)]
<1> DEFINE Until(k, kept) == \A n \in 0..k : kept[n] = Keeping(page, kept, n)
           T == {k \in Nat : k <= Len(page) => \E kept \in [0..k -> Seq(S)] : Until(k, kept)}
<1>1. Len(page) \in Nat /\ \A i \in 1..Len(page) : page[i] \in S
  OBVIOUS
<1>2. 0 \in T
  <2>1. [n \in 0..0 |-> <<>>] \in [0..0 -> Seq(S)]
    OBVIOUS
  <2>2. Until(0, [n \in 0..0 |-> <<>>])
    BY DEF Keeping
  <2> QED
    BY <2>1, <2>2
<1>3. ASSUME NEW k \in Nat, k \in T
      PROVE  k + 1 \in T
  <2> HIDE DEF Until
  <2>0. k + 1 \in Nat
    OBVIOUS
  <2> SUFFICES ASSUME k + 1 <= Len(page)
               PROVE  \E kept \in [0..(k + 1) -> Seq(S)] : Until(k + 1, kept)
    BY <2>0, Zenon
  <2>01. k <= Len(page)
    BY <1>1
  <2>1. PICK old \in [0..k -> Seq(S)] : Until(k, old)
    BY <1>3, <2>01, Zenon
  <2> USE DEF Until
  <2> DEFINE next == Keeping(page, old, k + 1)
             kept == [n \in 0..(k + 1) |-> IF n = k + 1 THEN next ELSE old[n]]
  <2>2. next \in Seq(S)
    <3>1. old[k] \in Seq(S) /\ page[k + 1] \in S /\ (k + 1) - 1 = k /\ k + 1 # 0
      BY <1>1
    <3> QED
      BY <3>1 DEF Keeping
  <2> HIDE DEF next
  <2>3. kept \in [0..(k + 1) -> Seq(S)]
    BY <2>2
  <2>4. \A n \in 0..k : kept[n] = old[n]
    OBVIOUS
  <2>5. kept[k + 1] = next
    OBVIOUS
  <2> HIDE DEF kept
  <2>6. \A n \in 0..(k + 1) : Keeping(page, kept, n) = Keeping(page, old, n)
    <3>1. ASSUME NEW n \in 0..(k + 1)
          PROVE  Keeping(page, kept, n) = Keeping(page, old, n)
      <4>1. n # 0 => n - 1 \in 0..k
        OBVIOUS
      <4> QED
        BY <2>4, <4>1 DEF Keeping
    <3> QED
      BY <3>1
  <2>7. \A n \in 0..(k + 1) : n = k + 1 \/ n \in 0..k
    OBVIOUS
  <2>8. Until(k + 1, kept)
    BY <2>1, <2>4, <2>5, <2>6, <2>7 DEF next
  <2> QED
    BY <2>3, <2>8
<1> HIDE DEF T
<1>4. Len(page) \in T
  BY <1>1, <1>2, <1>3, EveryNumber
<1>5. PICK kept \in [0..Len(page) -> Seq(S)] : Until(Len(page), kept)
  BY <1>1, <1>4 DEF T
<1> QED
  BY <1>5

(* What a search keeps of a page: entries of it, and every user of it who   *)
(* carries a card.                                                          *)
LEMMA FilterKeeps ==
  ASSUME NEW S, NEW page \in Seq(S)
  PROVE  /\ WithCard(page) \in Seq(S)
         /\ \A i \in 1..Len(page) : HasCard(page[i]) =>
              \E j \in 1..Len(WithCard(page)) : WithCard(page)[j] = page[i]
<1> DEFINE kept == CHOOSE f : f = [n \in 0..Len(page) |->
                     IF n = 0 THEN <<>>
                     ELSE IF HasCard(page[n]) THEN Append(f[n - 1], page[n])
                     ELSE f[n - 1]]
<1>1. WithCard(page) = kept[Len(page)]
  BY DEF WithCard
<1>2. kept = [n \in 0..Len(page) |-> Keeping(page, kept, n)]
  BY LoopDefines, Zenon DEF Keeping
<1> HIDE DEF kept
<1> DEFINE Holds(n) == /\ kept[n] \in Seq(S)
                       /\ \A i \in 1..n : HasCard(page[i]) => \E j \in 1..Len(kept[n]) : kept[n][j] = page[i]
           T == {n \in Nat : n <= Len(page) => Holds(n)}
<1>3. Len(page) \in Nat /\ \A i \in 1..Len(page) : page[i] \in S
  OBVIOUS
<1>4. 0 \in T
  <2>1. kept[0] = <<>>
    BY <1>2, <1>3 DEF Keeping
  <2>2. <<>> \in Seq(S) /\ 1..0 = {}
    OBVIOUS
  <2>3. Holds(0)
    BY <2>1, <2>2, Zenon
  <2> QED
    BY <2>3
<1>5. ASSUME NEW k \in Nat, k \in T
      PROVE  k + 1 \in T
  <2> SUFFICES ASSUME k + 1 <= Len(page)
               PROVE  Holds(k + 1)
    OBVIOUS
  <2>1. Holds(k)
    BY <1>3, <1>5
  <2>2. kept[k + 1] = IF HasCard(page[k + 1]) THEN Append(kept[k], page[k + 1]) ELSE kept[k]
    <3>1. k + 1 \in 0..Len(page) /\ k + 1 # 0 /\ (k + 1) - 1 = k
      BY <1>3
    <3>2. kept[k + 1] = Keeping(page, kept, k + 1)
      BY <1>2, <3>1
    <3> QED
      BY <3>1, <3>2 DEF Keeping
  <2>3. page[k + 1] \in S
    BY <1>3
  <2>4. \A i \in 1..(k + 1) : i \in 1..k \/ i = k + 1
    OBVIOUS
  <2>5. CASE HasCard(page[k + 1])
    <3>1. kept[k + 1] = Append(kept[k], page[k + 1])
      BY <2>2, <2>5
    <3>2. /\ kept[k + 1] \in Seq(S) /\ Len(kept[k + 1]) = Len(kept[k]) + 1
          /\ kept[k + 1][Len(kept[k]) + 1] = page[k + 1]
          /\ \A j \in 1..Len(kept[k]) : kept[k + 1][j] = kept[k][j]
      BY <2>1, <2>3, <3>1
    <3>3. Len(kept[k]) \in Nat
      BY <2>1
    <3>4. \A j \in 1..Len(kept[k]) : j \in 1..Len(kept[k + 1])
      BY <3>2, <3>3
    <3>5. Len(kept[k]) + 1 \in 1..Len(kept[k + 1])
      BY <3>2, <3>3
    <3> HIDE DEF kept
    <3>6. ASSUME NEW i \in 1..(k + 1), HasCard(page[i])
          PROVE  \E j \in 1..Len(kept[k + 1]) : kept[k + 1][j] = page[i]
      BY <2>1, <2>4, <3>2, <3>4, <3>5, <3>6
    <3> QED
      BY <3>2, <3>6
  <2>6. CASE ~HasCard(page[k + 1])
    <3>1. kept[k + 1] = kept[k]
      BY <2>2, <2>6
    <3> QED
      BY <2>1, <2>4, <2>6, <3>1
  <2> QED
    BY <2>5, <2>6
<1> HIDE DEF T
<1>6. Len(page) \in T
  BY <1>3, <1>4, <1>5, EveryNumber
<1> QED
  BY <1>1, <1>3, <1>6 DEF T

-----------------------------------------------------------------------------
(* What the steps of a walk do to it.                                       *)

\* An entry no newer than the record it was read from.
CurrentEntries ==
  {e \in [user : Users, version : Nat, mail : BOOLEAN] : e.version <= version[e.user]}

\* A page of n users reaches up to here in the list.
Reach(n) == n * PageSize

LEMMA ReachIsNat == \A n \in Nat : Reach(n) \in Nat
<1> SUFFICES ASSUME NEW n \in Nat
             PROVE  n * PageSize \in Nat
  BY Zenon DEF Reach
<1>1. PageSize \in Nat
  BY HubAssumption DEF HubAssumption
<1> QED
  BY <1>1

(* The part of a list behind its first lo elements.                         *)
LEMMA PartsOfLists ==
  ASSUME NEW S, NEW s \in Seq(S), NEW lo \in Nat, NEW size \in Nat, size >= 1
  PROVE  LET k == Len(SubSeq(s, lo + 1, Least(lo + size, Len(s)))) IN
         /\ k \in Nat
         /\ \A i \in 1..k : lo + 1 + i - 1 \in 1..Len(s)
         /\ \A i \in 1..Len(s) : lo < i /\ i <= lo + size => i - lo \in 1..k
         /\ k < size => Len(s) < lo + size
<1> DEFINE to == Least(lo + size, Len(s))
           k == Len(SubSeq(s, lo + 1, to))
<1>1. /\ to \in Nat /\ Len(s) \in Nat /\ to <= Len(s) /\ to <= lo + size
      /\ to = Len(s) \/ to = lo + size
  BY DEF Least
<1> HIDE DEF to
<1>2. k \in Nat /\ k = IF lo + 1 <= to THEN to - lo ELSE 0
  BY <1>1
<1> HIDE DEF k
<1>3. \A i \in 1..k : lo + 1 + i - 1 \in 1..Len(s)
  BY <1>1, <1>2
<1>4. \A i \in 1..Len(s) : lo < i /\ i <= lo + size => i - lo \in 1..k
  BY <1>1, <1>2
<1>5. k < size => Len(s) < lo + size
  BY <1>1, <1>2
<1> QED
  BY <1>2, <1>3, <1>4, <1>5, Zenon DEF k, to

(* A page holds the users of its part of the list, and the last one reaches *)
(* the end.                                                                 *)
LEMMA PagesHold ==
  ASSUME HubTypes, NEW n \in Nat \ {0}
  PROVE  /\ PageAt(n) \in Seq(CurrentEntries)
         /\ \A i \in 1..Len(hub) : Reach(n - 1) < i /\ i <= Reach(n) =>
              \E j \in 1..Len(PageAt(n)) : PageAt(n)[j] = Listed(hub[i])
         /\ IsLast(Len(PageAt(n))) => Len(hub) < Reach(n)
<1> DEFINE lo == (n - 1) * PageSize
           k == Len(SubSeq(hub, lo + 1, Least(n * PageSize, Len(hub))))
<1>1. PageSize \in Nat /\ PageSize >= 1 /\ lo \in Nat /\ n * PageSize = lo + PageSize
  <2>1. PageSize \in Nat /\ PageSize >= 1 /\ n - 1 \in Nat
    BY HubAssumption DEF HubAssumption
  <2>2. (n - 1) * PageSize \in Nat /\ n * PageSize = (n - 1) * PageSize + PageSize
    BY <2>1
  <2> QED
    BY <2>1, <2>2
<1>2. Reach(n - 1) = lo /\ Reach(n) = lo + PageSize
  BY <1>1 DEF Reach
<1>3. PageAt(n) = [i \in 1..k |-> Listed(hub[lo + 1 + i - 1])]
  BY DEF PageAt
<1>4. hub \in Seq(Users)
  BY DEF HubTypes
<1>5. k = Len(SubSeq(hub, lo + 1, Least(lo + PageSize, Len(hub))))
  BY <1>1
<1> HIDE DEF lo, k
<1>6. /\ k \in Nat
      /\ \A i \in 1..k : lo + 1 + i - 1 \in 1..Len(hub)
      /\ \A i \in 1..Len(hub) : lo < i /\ i <= lo + PageSize => i - lo \in 1..k
      /\ k < PageSize => Len(hub) < lo + PageSize
  BY <1>1, <1>4, <1>5, PartsOfLists
<1>7. \A u \in Users : Listed(u) \in CurrentEntries
  BY DEF Listed, CurrentEntries, HubTypes
<1>8. \A i \in 1..k : hub[lo + 1 + i - 1] \in Users
  BY <1>4, <1>6
<1>9. PageAt(n) \in Seq(CurrentEntries) /\ Len(PageAt(n)) = k
  BY <1>3, <1>6, <1>7, <1>8
<1>10. ASSUME NEW i \in 1..Len(hub), lo < i, i <= lo + PageSize
       PROVE  \E j \in 1..Len(PageAt(n)) : PageAt(n)[j] = Listed(hub[i])
  <2>1. i - lo \in 1..k
    BY <1>6, <1>10
  <2>2. lo + 1 + (i - lo) - 1 = i
    BY <1>1, <1>4
  <2>3. PageAt(n)[i - lo] = Listed(hub[i])
    BY <1>3, <2>1, <2>2
  <2> QED
    BY <1>9, <2>1, <2>3
<1> QED
  BY <1>2, <1>6, <1>9, <1>10 DEF IsLast

\* The other walks do not move.
Alone(w) == DOMAIN walk' = Walks /\ \A v \in Walks \ {w} : walk'[v] = walk[v]

\* What the walk w began with, and whether it had the mirror to itself.
SameStart(w) ==
  /\ walk'[w].there = walk[w].there /\ walk'[w].shrunk = walk[w].shrunk
  /\ walk'[w].alone = walk[w].alone

LEMMA RestIs == /\ DOMAIN Rest = WalkFields /\ Rest.at = "idle" /\ Rest.page = 1
                /\ Rest.got = <<>> /\ Rest.queue = <<>> /\ Rest.held = <<>>
                /\ Rest.there = {} /\ Rest.shrunk = FALSE /\ Rest.clean = TRUE /\ Rest.alone = TRUE
  BY DEF Rest, WalkFields

LEMMA WalksAre == MirrorInv => DOMAIN walk = Walks /\ \A w \in Walks : DOMAIN walk[w] = WalkFields
  BY DEF MirrorInv, Keeps

LEMMA BeginsDoes ==
  ASSUME MirrorInv, NEW w \in Walks, Begins(w)
  PROVE  LET alone == w \in Refreshes /\ Running = {} IN
         /\ DOMAIN walk' = Walks /\ walk[w].at = "idle"
         /\ UNCHANGED <<hub, version, row, changes, failures>>
         /\ floor' = IF alone THEN version ELSE floor
         /\ walk'[w].at = "listing" /\ walk'[w].there = ToSet(hub) /\ walk'[w].alone = alone
         /\ walk'[w].page = walk[w].page /\ walk'[w].got = walk[w].got /\ walk'[w].queue = walk[w].queue
         /\ walk'[w].held = walk[w].held /\ walk'[w].shrunk = walk[w].shrunk /\ walk'[w].clean = walk[w].clean
         /\ \A v \in Walks \ {w} :
              /\ walk'[v].at = walk[v].at /\ walk'[v].page = walk[v].page /\ walk'[v].got = walk[v].got
              /\ walk'[v].queue = walk[v].queue /\ walk'[v].held = walk[v].held
              /\ walk'[v].there = walk[v].there /\ walk'[v].shrunk = walk[v].shrunk
              /\ walk'[v].clean = walk[v].clean
              /\ walk'[v].alone = walk[v].alone \/ walk'[v].alone = (walk[v].alone /\ walk[v].at = "idle")
              /\ w \in Refreshes => walk'[v].alone = (walk[v].alone /\ walk[v].at = "idle")
<1> DEFINE alone == w \in Refreshes /\ Running = {}
           r == [walk[w] EXCEPT !.at = "listing", !.there = ToSet(hub), !.alone = alone]
           s(v) == [walk[v] EXCEPT !.alone = @ /\ walk[v].at = "idle"]
<1>1. /\ walk[w].at = "idle" /\ UNCHANGED <<hub, version, row, changes, failures>>
      /\ floor' = IF alone THEN version ELSE floor
  BY Zenon DEF Begins
<1>2. walk' = [v \in Walks |-> IF v = w THEN r ELSE IF w \in Refreshes THEN s(v) ELSE walk[v]]
  BY Zenon DEF Begins
<1>3. \A v \in Walks : DOMAIN walk[v] = WalkFields
  BY WalksAre
<1> HIDE DEF alone
<1>4. /\ r.at = "listing" /\ r.there = ToSet(hub) /\ r.alone = alone
      /\ r.page = walk[w].page /\ r.got = walk[w].got /\ r.queue = walk[w].queue
      /\ r.held = walk[w].held /\ r.shrunk = walk[w].shrunk /\ r.clean = walk[w].clean
  BY <1>3 DEF WalkFields
<1>5. \A v \in Walks :
        /\ s(v).at = walk[v].at /\ s(v).page = walk[v].page /\ s(v).got = walk[v].got
        /\ s(v).queue = walk[v].queue /\ s(v).held = walk[v].held
        /\ s(v).there = walk[v].there /\ s(v).shrunk = walk[v].shrunk
        /\ s(v).clean = walk[v].clean
        /\ s(v).alone = (walk[v].alone /\ walk[v].at = "idle")
  BY <1>3 DEF WalkFields
<1> HIDE DEF r, s
<1>6. DOMAIN walk' = Walks /\ walk'[w] = r
  BY <1>2
<1>7. \A v \in Walks \ {w} : walk'[v] = IF w \in Refreshes THEN s(v) ELSE walk[v]
  BY <1>2
<1>8. ASSUME NEW v \in Walks \ {w}
      PROVE  /\ walk'[v].at = walk[v].at /\ walk'[v].page = walk[v].page /\ walk'[v].got = walk[v].got
             /\ walk'[v].queue = walk[v].queue /\ walk'[v].held = walk[v].held
             /\ walk'[v].there = walk[v].there /\ walk'[v].shrunk = walk[v].shrunk
             /\ walk'[v].clean = walk[v].clean
             /\ walk'[v].alone = walk[v].alone \/ walk'[v].alone = (walk[v].alone /\ walk[v].at = "idle")
             /\ w \in Refreshes => walk'[v].alone = (walk[v].alone /\ walk[v].at = "idle")
  <2>1. v \in Walks
    OBVIOUS
  <2>2. CASE w \in Refreshes
    <3>1. walk'[v] = s(v)
      BY <1>7, <2>2
    <3> QED
      BY <1>5, <2>1, <3>1, Zenon
  <2>3. CASE w \notin Refreshes
    <3>1. walk'[v] = walk[v]
      BY <1>7, <2>3
    <3> QED
      BY <2>3, <3>1, Zenon
  <2> QED
    BY <2>2, <2>3
<1> QED
  BY <1>1, <1>4, <1>6, <1>8, Zenon DEF alone

LEMMA ListsPageDoes ==
  ASSUME MirrorInv, NEW w \in Walks, ListsPage(w)
  PROVE  LET found == PageAt(walk[w].page) IN
         /\ w \in Refreshes /\ walk[w].at = "listing" /\ Alone(w)
         /\ UNCHANGED <<hub, version, row, floor, changes, failures>>
         /\ walk'[w].got = walk[w].got \o found
         /\ walk'[w].queue = walk[w].queue /\ walk'[w].held = walk[w].held
         /\ SameStart(w) /\ walk'[w].clean = walk[w].clean
         /\ IsLast(Len(found)) => /\ walk'[w].page = 1
                                  /\ walk'[w].at = IF walk'[w].got = <<>> THEN "hydrating" ELSE "writing"
         /\ ~IsLast(Len(found)) => walk'[w].page = walk[w].page + 1 /\ walk'[w].at = "listing"
<1> DEFINE found == PageAt(walk[w].page)
           read == [walk[w] EXCEPT !.page = @ + 1, !.got = @ \o found]
           last == [read EXCEPT !.page = 1]
           r == IF IsLast(Len(found)) THEN Writing(last) ELSE read
<1>1. /\ w \in Refreshes /\ walk[w].at = "listing" /\ walk' = [walk EXCEPT ![w] = r]
      /\ UNCHANGED <<hub, version, row, floor, changes, failures>>
  BY DEF ListsPage
<1>2. DOMAIN walk = Walks /\ DOMAIN walk[w] = WalkFields
  BY WalksAre
<1> HIDE DEF found
<1>3. /\ DOMAIN read = WalkFields /\ read.at = "listing" /\ read.page = walk[w].page + 1
      /\ read.got = walk[w].got \o found
      /\ read.queue = walk[w].queue /\ read.held = walk[w].held /\ read.there = walk[w].there
      /\ read.shrunk = walk[w].shrunk /\ read.clean = walk[w].clean /\ read.alone = walk[w].alone
  BY <1>1, <1>2 DEF WalkFields
<1> HIDE DEF read
<1>4. /\ DOMAIN last = WalkFields /\ last.page = 1 /\ last.got = read.got
      /\ last.queue = read.queue /\ last.held = read.held /\ last.there = read.there
      /\ last.shrunk = read.shrunk /\ last.clean = read.clean /\ last.alone = read.alone
  BY <1>3 DEF WalkFields
<1> HIDE DEF last
<1>5. /\ Writing(last).at = (IF Writing(last).got = <<>> THEN "hydrating" ELSE "writing")
      /\ Writing(last).page = 1 /\ Writing(last).got = read.got
      /\ Writing(last).queue = read.queue /\ Writing(last).held = read.held
      /\ Writing(last).there = read.there /\ Writing(last).shrunk = read.shrunk
      /\ Writing(last).clean = read.clean /\ Writing(last).alone = read.alone
  BY <1>4 DEF WalkFields, Writing
<1>6. walk'[w] = r /\ Alone(w)
  BY <1>1, <1>2 DEF Alone
<1>7. CASE IsLast(Len(found))
  <2>1. walk'[w] = Writing(last)
    BY <1>6, <1>7
  <2> HIDE DEF r
  <2> QED
    BY <1>1, <1>3, <1>5, <1>6, <1>7, <2>1, Zenon DEF found, SameStart
<1>8. CASE ~IsLast(Len(found))
  <2>1. walk'[w] = read
    BY <1>6, <1>8
  <2> HIDE DEF r
  <2> QED
    BY <1>1, <1>3, <1>6, <1>8, <2>1, Zenon DEF found, SameStart
<1> QED
  BY <1>7, <1>8

LEMMA SearchesPageDoes ==
  ASSUME MirrorInv, NEW w \in Walks, SearchesPage(w)
  PROVE  LET found == PageAt(walk[w].page) IN
         /\ w \in Searches /\ walk[w].at = "listing" /\ Alone(w)
         /\ UNCHANGED <<hub, version, row, floor, changes, failures>>
         /\ \/ walk'[w] = [Rest EXCEPT !.at = "failed", !.clean = walk[w].clean]
            \/ /\ walk'[w].got = walk[w].got \o WithCard(found)
               /\ walk'[w].queue = walk[w].queue /\ walk'[w].held = walk[w].held
               /\ SameStart(w) /\ walk'[w].clean = walk[w].clean
               /\ IsLast(Len(found)) => walk'[w].page = 1 /\ walk'[w].at = "found"
               /\ ~IsLast(Len(found)) => walk'[w].page = walk[w].page + 1 /\ walk'[w].at = "listing"
<1> DEFINE found == PageAt(walk[w].page)
           none == [Rest EXCEPT !.at = "failed", !.clean = walk[w].clean]
           kept == WithCard(found)
           read == [walk[w] EXCEPT !.page = @ + 1, !.got = @ \o kept]
           last == [read EXCEPT !.at = "found", !.page = 1]
           r == IF found = <<>> THEN none ELSE IF IsLast(Len(found)) THEN last ELSE read
<1>1. /\ w \in Searches /\ walk[w].at = "listing" /\ walk' = [walk EXCEPT ![w] = r]
      /\ UNCHANGED <<hub, version, row, floor, changes, failures>>
  BY DEF SearchesPage
<1>2. DOMAIN walk = Walks /\ DOMAIN walk[w] = WalkFields
  BY WalksAre
<1> HIDE DEF kept
<1>3. /\ DOMAIN read = WalkFields /\ read.at = "listing" /\ read.page = walk[w].page + 1
      /\ read.got = walk[w].got \o kept
      /\ read.queue = walk[w].queue /\ read.held = walk[w].held /\ read.there = walk[w].there
      /\ read.shrunk = walk[w].shrunk /\ read.clean = walk[w].clean /\ read.alone = walk[w].alone
  BY <1>1, <1>2 DEF WalkFields
<1> HIDE DEF read
<1>4. /\ DOMAIN last = WalkFields /\ last.page = 1 /\ last.at = "found" /\ last.got = read.got
      /\ last.queue = read.queue /\ last.held = read.held /\ last.there = read.there
      /\ last.shrunk = read.shrunk /\ last.clean = read.clean /\ last.alone = read.alone
  BY <1>3 DEF WalkFields
<1>5. walk'[w] = r /\ Alone(w)
  BY <1>1, <1>2 DEF Alone
<1> HIDE DEF found, last, none
<1>6. walk'[w] = none \/ (walk'[w] = last /\ IsLast(Len(found))) \/ (walk'[w] = read /\ ~IsLast(Len(found)))
  BY <1>5
<1> HIDE DEF r
<1> QED
  BY <1>1, <1>3, <1>4, <1>5, <1>6, Zenon DEF found, kept, none, SameStart

LEMMA ListFailsDoes ==
  ASSUME MirrorInv, NEW w \in Walks, ListFails(w)
  PROVE  /\ walk[w].at = "listing" /\ Alone(w)
         /\ UNCHANGED <<hub, version, row, floor, changes>> /\ Spends
         /\ \/ w \in Searches /\ walk'[w] = [Rest EXCEPT !.at = "failed", !.clean = FALSE]
            \/ walk'[w] = Rest
  BY WalksAre DEF ListFails, Alone

LEMMA RestsDoes ==
  ASSUME MirrorInv, NEW w \in Walks, SearchEnds(w) \/ Cancelled(w) \/ Finishes(w)
  PROVE  /\ Alone(w) /\ walk'[w] = Rest
         /\ UNCHANGED <<hub, version, row, floor, changes>> /\ (Spends \/ UNCHANGED failures)
  BY WalksAre DEF SearchEnds, Cancelled, Finishes, Alone

LEMMA LoopsDo ==
  ASSUME MirrorInv, NEW w \in Walks, Upserts(w) \/ UpsertFails(w)
  PROVE  LET e == Head(walk[w].got) IN
         /\ walk[w].at = "writing" /\ Alone(w)
         /\ UNCHANGED <<hub, version, floor, changes>> /\ (Spends \/ UNCHANGED failures)
         /\ walk'[w].got = Tail(walk[w].got) /\ walk'[w].held = walk[w].held
         /\ walk'[w].page = walk[w].page /\ SameStart(w)
         /\ walk'[w].at = IF walk'[w].got = <<>> THEN "hydrating" ELSE "writing"
         /\ \/ /\ row' = [row EXCEPT ![e.user] = RowOf(e)] /\ walk'[w].clean = walk[w].clean
               /\ walk'[w].queue = IF e.mail THEN walk[w].queue ELSE Append(walk[w].queue, e.user)
            \/ UNCHANGED row /\ walk'[w].clean = FALSE /\ walk'[w].queue = walk[w].queue
<1> DEFINE e == Head(walk[w].got)
           line == IF e.mail THEN walk[w].queue ELSE Append(walk[w].queue, e.user)
           rest == Tail(walk[w].got)
           q == [walk[w] EXCEPT !.got = rest, !.queue = line]
           p == [walk[w] EXCEPT !.got = rest, !.clean = FALSE]
<1>1. DOMAIN walk = Walks /\ DOMAIN walk[w] = WalkFields
  BY WalksAre
<1>2. /\ walk[w].at = "writing"
      /\ UNCHANGED <<hub, version, floor, changes>> /\ (Spends \/ UNCHANGED failures)
  BY DEF Upserts, UpsertFails
<1>3. \/ row' = [row EXCEPT ![e.user] = RowOf(e)] /\ walk' = [walk EXCEPT ![w] = Writing(q)]
      \/ UNCHANGED row /\ walk' = [walk EXCEPT ![w] = Writing(p)]
  BY DEF Upserts, UpsertFails
<1> HIDE DEF e, line, rest
<1>4. /\ DOMAIN q = WalkFields /\ q.page = walk[w].page /\ q.got = rest /\ q.queue = line
      /\ q.held = walk[w].held /\ q.there = walk[w].there /\ q.shrunk = walk[w].shrunk
      /\ q.clean = walk[w].clean /\ q.alone = walk[w].alone
  BY <1>1 DEF WalkFields
<1>5. /\ DOMAIN p = WalkFields /\ p.page = walk[w].page /\ p.got = rest /\ p.queue = walk[w].queue
      /\ p.held = walk[w].held /\ p.there = walk[w].there /\ p.shrunk = walk[w].shrunk
      /\ p.clean = FALSE /\ p.alone = walk[w].alone
  BY <1>1 DEF WalkFields
<1> HIDE DEF p, q
<1>6. \A r : DOMAIN r = WalkFields =>
        /\ Writing(r).at = (IF Writing(r).got = <<>> THEN "hydrating" ELSE "writing")
        /\ Writing(r).page = r.page /\ Writing(r).got = r.got
        /\ Writing(r).queue = r.queue /\ Writing(r).held = r.held
        /\ Writing(r).there = r.there /\ Writing(r).shrunk = r.shrunk
        /\ Writing(r).clean = r.clean /\ Writing(r).alone = r.alone
  BY DEF WalkFields, Writing
<1>7. CASE row' = [row EXCEPT ![e.user] = RowOf(e)] /\ walk' = [walk EXCEPT ![w] = Writing(q)]
  <2>1. walk'[w] = Writing(q) /\ Alone(w)
    BY <1>1, <1>7 DEF Alone
  <2>2. /\ walk'[w].at = (IF walk'[w].got = <<>> THEN "hydrating" ELSE "writing")
        /\ walk'[w].page = walk[w].page /\ walk'[w].got = rest
        /\ walk'[w].queue = line /\ walk'[w].held = walk[w].held /\ walk'[w].clean = walk[w].clean
    BY <1>4, <1>6, <2>1
  <2>3. SameStart(w)
    BY <1>4, <1>6, <2>1 DEF SameStart
  <2> QED
    BY <1>2, <1>7, <2>1, <2>2, <2>3, Zenon DEF e, line, rest
<1>8. CASE UNCHANGED row /\ walk' = [walk EXCEPT ![w] = Writing(p)]
  <2>1. walk'[w] = Writing(p) /\ Alone(w)
    BY <1>1, <1>8 DEF Alone
  <2>2. /\ walk'[w].at = (IF walk'[w].got = <<>> THEN "hydrating" ELSE "writing")
        /\ walk'[w].page = walk[w].page /\ walk'[w].got = rest
        /\ walk'[w].queue = walk[w].queue /\ walk'[w].held = walk[w].held /\ walk'[w].clean = FALSE
    BY <1>5, <1>6, <2>1
  <2>3. SameStart(w)
    BY <1>5, <1>6, <2>1 DEF SameStart
  <2> QED
    BY <1>2, <1>8, <2>1, <2>2, <2>3, Zenon DEF e, line, rest
<1> QED
  BY <1>3, <1>7, <1>8

LEMMA FetchesDoes ==
  ASSUME MirrorInv, NEW w \in Walks, Fetches(w)
  PROVE  LET u == Head(walk[w].queue) IN
         /\ walk[w].at = "hydrating" /\ walk[w].queue # <<>> /\ u \in ToSet(hub) /\ Alone(w)
         /\ UNCHANGED <<hub, version, row, floor, changes, failures>>
         /\ walk'[w].held = <<[user |-> u, version |-> version[u], mail |-> TRUE]>>
         /\ walk'[w].at = "hydrating" /\ walk'[w].page = walk[w].page /\ walk'[w].got = walk[w].got
         /\ walk'[w].queue = walk[w].queue /\ SameStart(w) /\ walk'[w].clean = walk[w].clean
<1> DEFINE u == Head(walk[w].queue)
           h == <<[user |-> u, version |-> version[u], mail |-> TRUE]>>
<1>1. DOMAIN walk = Walks /\ DOMAIN walk[w] = WalkFields
  BY WalksAre
<1>2. /\ walk[w].at = "hydrating" /\ walk[w].queue # <<>> /\ u \in ToSet(hub)
      /\ walk' = [walk EXCEPT ![w].held = h]
      /\ UNCHANGED <<hub, version, row, floor, changes, failures>>
  BY DEF Fetches, Hydrating
<1> HIDE DEF h
<1>3. walk'[w] = [walk[w] EXCEPT !.held = h] /\ Alone(w)
  BY <1>1, <1>2 DEF Alone
<1>4. /\ walk'[w].held = h /\ walk'[w].at = "hydrating" /\ walk'[w].page = walk[w].page
      /\ walk'[w].got = walk[w].got /\ walk'[w].queue = walk[w].queue /\ SameStart(w)
      /\ walk'[w].clean = walk[w].clean
  BY <1>1, <1>2, <1>3 DEF WalkFields, SameStart
<1> QED
  BY <1>2, <1>3, <1>4 DEF h

LEMMA HydrationsDo ==
  ASSUME MirrorInv, NEW w \in Walks, HydrateFails(w) \/ Hydrates(w)
  PROVE  LET e == Head(walk[w].held) IN
         /\ walk[w].at = "hydrating" /\ walk[w].queue # <<>> /\ Alone(w)
         /\ UNCHANGED <<hub, version, floor, changes>> /\ (Spends \/ UNCHANGED failures)
         /\ walk'[w].held = <<>> /\ walk'[w].at = "hydrating" /\ walk'[w].page = walk[w].page
         /\ walk'[w].got = walk[w].got /\ walk'[w].queue = Tail(walk[w].queue) /\ SameStart(w)
         /\ \/ /\ walk[w].held # <<>> /\ row' = [row EXCEPT ![e.user] = RowOf(e)]
               /\ walk'[w].clean = (walk[w].clean /\ TRUE)
            \/ UNCHANGED row /\ walk'[w].clean = FALSE
<1> DEFINE e == Head(walk[w].held)
           rest == Tail(walk[w].queue)
           f == [walk[w] EXCEPT !.queue = rest, !.held = <<>>, !.clean = @ /\ FALSE]
           t == [walk[w] EXCEPT !.queue = rest, !.held = <<>>, !.clean = @ /\ TRUE]
<1>1. DOMAIN walk = Walks /\ DOMAIN walk[w] = WalkFields
  BY WalksAre
<1>2. /\ walk[w].at = "hydrating" /\ walk[w].queue # <<>>
      /\ UNCHANGED <<hub, version, floor, changes>> /\ (Spends \/ UNCHANGED failures)
  BY DEF HydrateFails, Hydrates, Hydrating
<1>3. \/ walk[w].held # <<>> /\ row' = [row EXCEPT ![e.user] = RowOf(e)] /\ walk' = [walk EXCEPT ![w] = t]
      \/ UNCHANGED row /\ walk' = [walk EXCEPT ![w] = f]
  BY DEF HydrateFails, Hydrates, Dequeued
<1> HIDE DEF e, rest
<1>4. /\ f.held = <<>> /\ f.at = walk[w].at /\ f.page = walk[w].page /\ f.got = walk[w].got
      /\ f.queue = rest /\ f.there = walk[w].there /\ f.shrunk = walk[w].shrunk
      /\ f.clean = (walk[w].clean /\ FALSE) /\ f.alone = walk[w].alone
  BY <1>1 DEF WalkFields
<1>5. /\ t.held = <<>> /\ t.at = walk[w].at /\ t.page = walk[w].page /\ t.got = walk[w].got
      /\ t.queue = rest /\ t.there = walk[w].there /\ t.shrunk = walk[w].shrunk
      /\ t.clean = (walk[w].clean /\ TRUE) /\ t.alone = walk[w].alone
  BY <1>1 DEF WalkFields
<1> HIDE DEF f, t
<1>6. CASE walk[w].held # <<>> /\ row' = [row EXCEPT ![e.user] = RowOf(e)] /\ walk' = [walk EXCEPT ![w] = t]
  <2>1. walk'[w] = t /\ Alone(w)
    BY <1>1, <1>6 DEF Alone
  <2> QED
    BY <1>2, <1>5, <1>6, <2>1, Zenon DEF SameStart, e, rest
<1>7. CASE UNCHANGED row /\ walk' = [walk EXCEPT ![w] = f]
  <2>1. walk'[w] = f /\ Alone(w)
    BY <1>1, <1>7 DEF Alone
  <2>2. f.clean = FALSE
    BY <1>4
  <2> QED
    BY <1>2, <1>4, <1>7, <2>1, <2>2, Zenon DEF SameStart, e, rest
<1> QED
  BY <1>3, <1>6, <1>7

\* Nothing of a walk moves but, when somebody leaves, that the list shrank.
LEMMA HubMovesDo ==
  ASSUME MirrorInv, NEW u \in Users, Joins(u) \/ Leaves(u)
  PROVE  /\ UNCHANGED <<row, floor, failures>> /\ Change /\ DOMAIN walk' = Walks
         /\ \A w \in Walks :
              /\ walk'[w].at = walk[w].at /\ walk'[w].page = walk[w].page /\ walk'[w].got = walk[w].got
              /\ walk'[w].queue = walk[w].queue /\ walk'[w].held = walk[w].held
              /\ walk'[w].there = walk[w].there
              /\ walk'[w].clean = walk[w].clean /\ walk'[w].alone = walk[w].alone
              /\ \/ Joins(u) /\ walk'[w].shrunk = walk[w].shrunk
                 \/ Leaves(u) /\ walk'[w].shrunk = (walk[w].shrunk \/ walk[w].at = "listing")
<1>1. DOMAIN walk = Walks /\ \A w \in Walks : DOMAIN walk[w] = WalkFields
  BY WalksAre
<1>2. CASE Joins(u)
  BY <1>1, <1>2 DEF Joins
<1>3. CASE Leaves(u)
  <2>1. /\ UNCHANGED <<row, floor, failures>> /\ Change
        /\ walk' = [w \in Walks |-> [walk[w] EXCEPT !.shrunk = @ \/ walk[w].at = "listing"]]
    BY <1>3 DEF Leaves
  <2>2. \A w \in Walks :
          /\ walk'[w].at = walk[w].at /\ walk'[w].page = walk[w].page /\ walk'[w].got = walk[w].got
          /\ walk'[w].queue = walk[w].queue /\ walk'[w].held = walk[w].held
          /\ walk'[w].there = walk[w].there
          /\ walk'[w].clean = walk[w].clean /\ walk'[w].alone = walk[w].alone
          /\ walk'[w].shrunk = (walk[w].shrunk \/ walk[w].at = "listing")
    BY <1>1, <2>1 DEF WalkFields
  <2>3. DOMAIN walk' = Walks
    BY <2>1
  <2> QED
    BY <1>3, <2>1, <2>2, <2>3, Zenon
<1> QED
  BY <1>2, <1>3

-----------------------------------------------------------------------------
(* The types of the mirror and of the walks.                                *)

(* A list behind another.                                                   *)
LEMMA Joining ==
  ASSUME NEW S, NEW a \in Seq(S), NEW b \in Seq(S)
  PROVE  /\ a \o b \in Seq(S) /\ Len(a \o b) = Len(a) + Len(b)
         /\ \A k \in 1..Len(a) : (a \o b)[k] = a[k]
         /\ \A k \in 1..Len(b) : (a \o b)[Len(a) + k] = b[k]
<1>1. a \o b \in Seq(S) /\ Len(a \o b) = Len(a) + Len(b) /\ Len(a) \in Nat /\ Len(b) \in Nat
  OBVIOUS
<1>2. \A k \in 1..Len(a) : (a \o b)[k] = a[k]
  OBVIOUS
<1>3. ASSUME NEW k \in 1..Len(b)
      PROVE  (a \o b)[Len(a) + k] = b[k]
  <2>1. Len(a) + k \in 1..(Len(a) + Len(b)) /\ Len(a) + k > Len(a) /\ (Len(a) + k) - Len(a) = k
    BY <1>1
  <2> QED
    BY <1>1, <2>1
<1> QED
  BY <1>1, <1>2, <1>3

(* A piece of a list.                                                       *)
LEMMA Cutting ==
  ASSUME NEW S, NEW s \in Seq(S), NEW m \in Nat, NEW n \in Nat, m >= 1, n <= Len(s), m <= n + 1
  PROVE  /\ SubSeq(s, m, n) \in Seq(S) /\ Len(SubSeq(s, m, n)) = n - m + 1
         /\ \A k \in 1..(n - m + 1) : SubSeq(s, m, n)[k] = s[m + k - 1]
<1>1. \A k \in m..n : s[k] \in S
  OBVIOUS
<1>2. SubSeq(s, m, n) \in Seq(S)
  BY <1>1
<1>3. Len(SubSeq(s, m, n)) = n - m + 1
  OBVIOUS
<1>4. ASSUME NEW k \in 1..(n - m + 1)
      PROVE  SubSeq(s, m, n)[k] = s[m + k - 1]
  OBVIOUS
<1> QED
  BY <1>2, <1>3, <1>4

(* One more element: the others move up or stay.                            *)
LEMMA InsertingShifts ==
  ASSUME NEW S, NEW s \in Seq(S), IsInjective(s), NEW i \in 1..(Len(s) + 1), NEW e \in S, e \notin ToSet(s)
  PROVE  /\ InsertAt(s, i, e) \in Seq(S) /\ IsInjective(InsertAt(s, i, e))
         /\ \A k \in 1..Len(s) : \E j \in 1..Len(InsertAt(s, i, e)) : InsertAt(s, i, e)[j] = s[k] /\ k <= j
<1> DEFINE t == InsertAt(s, i, e)
           n == Len(s)
           a == SubSeq(s, 1, i - 1)
           b == SubSeq(s, i, Len(s))
           c == a \o <<e>>
<1>1. i \in Nat /\ i >= 1 /\ n \in Nat /\ i <= n + 1 /\ i - 1 \in Nat
  OBVIOUS
<1>2. a \in Seq(S) /\ Len(a) = i - 1 /\ \A k \in 1..(i - 1) : a[k] = s[k]
  <2>1. /\ a \in Seq(S) /\ Len(a) = (i - 1) - 1 + 1
        /\ \A k \in 1..((i - 1) - 1 + 1) : a[k] = s[1 + k - 1]
    BY <1>1, Cutting
  <2> HIDE DEF a
  <2>2. (i - 1) - 1 + 1 = i - 1 /\ \A k \in 1..(i - 1) : 1 + k - 1 = k
    BY <1>1
  <2> QED
    BY <2>1, <2>2
<1>3. b \in Seq(S) /\ Len(b) = n - i + 1 /\ \A k \in 1..(n - i + 1) : b[k] = s[i + k - 1]
  BY <1>1, Cutting
<1>4. <<e>> \in Seq(S) /\ Len(<<e>>) = 1 /\ <<e>>[1] = e /\ 1 \in 1..1
  OBVIOUS
<1>5. t = c \o b
  BY DEF InsertAt
<1> HIDE DEF a, b, t, n
<1>6. c \in Seq(S) /\ Len(c) = i /\ (\A k \in 1..(i - 1) : c[k] = s[k]) /\ c[i] = e
  <2>1. /\ c \in Seq(S) /\ Len(c) = Len(a) + Len(<<e>>)
        /\ \A k \in 1..Len(a) : c[k] = a[k]
        /\ \A k \in 1..Len(<<e>>) : c[Len(a) + k] = <<e>>[k]
    BY <1>2, <1>4, Joining
  <2>2. c[Len(a) + 1] = e /\ Len(a) + 1 = i
    BY <1>1, <1>2, <1>4, <2>1
  <2> HIDE DEF c
  <2> QED
    BY <1>1, <1>2, <1>4, <2>1, <2>2
<1> HIDE DEF c
<1>7. /\ t \in Seq(S) /\ Len(t) = n + 1
      /\ \A k \in 1..i : t[k] = c[k]
      /\ \A k \in 1..(n - i + 1) : t[i + k] = b[k]
  <2>1. /\ t \in Seq(S) /\ Len(t) = Len(c) + Len(b)
        /\ \A k \in 1..Len(c) : t[k] = c[k]
        /\ \A k \in 1..Len(b) : t[Len(c) + k] = b[k]
    <3>0. c \in Seq(S) /\ b \in Seq(S)
      BY <1>3, <1>6
    <3>1. /\ c \o b \in Seq(S) /\ Len(c \o b) = Len(c) + Len(b)
          /\ \A k \in 1..Len(c) : (c \o b)[k] = c[k]
          /\ \A k \in 1..Len(b) : (c \o b)[Len(c) + k] = b[k]
      BY <3>0, Joining
    <3> QED
      BY <1>5, <3>1
  <2> QED
    BY <1>1, <1>3, <1>6, <2>1
<1>8. ASSUME NEW k \in 1..(n + 1)
      PROVE  /\ k < i => t[k] = s[k] /\ k \in 1..n
             /\ k = i => t[k] = e
             /\ k > i => t[k] = s[k - 1] /\ k - 1 \in 1..n
  <2>1. CASE k < i
    <3>1. k \in 1..(i - 1) /\ k \in 1..i /\ k \in 1..n
      BY <1>1, <2>1
    <3> QED
      BY <1>6, <1>7, <2>1, <3>1
  <2>2. CASE k = i
    BY <1>1, <1>6, <1>7, <2>2
  <2>3. CASE k > i
    <3>1. k - i \in 1..(n - i + 1) /\ i + (k - i) = k /\ i + (k - i) - 1 = k - 1 /\ k - 1 \in 1..n
      BY <1>1, <2>3
    <3>2. t[k] = b[k - i] /\ b[k - i] = s[k - 1]
      BY <1>3, <1>7, <3>1
    <3> QED
      BY <1>1, <2>3, <3>1, <3>2
  <2> QED
    BY <1>1, <2>1, <2>2, <2>3
<1>9. \A k \in 1..n : s[k] # e
  BY DEF ToSet, n
<1>10. \A j, k \in 1..n : s[j] = s[k] => j = k
  BY DEF IsInjective, n
<1>11. ASSUME NEW j \in 1..(n + 1), NEW k \in 1..(n + 1), j < k
       PROVE  t[j] # t[k]
  <2>1. CASE k < i
    BY <1>1, <1>8, <1>10, <1>11, <2>1
  <2>2. CASE k = i
    BY <1>1, <1>8, <1>9, <1>11, <2>2
  <2>3. CASE k > i
    <3>1. t[k] = s[k - 1] /\ k - 1 \in 1..n
      BY <1>8, <2>3
    <3>2. CASE j < i
      <4>1. t[j] = s[j] /\ j \in 1..n /\ j # k - 1
        BY <1>1, <1>8, <2>3, <3>2
      <4> QED
        BY <1>10, <3>1, <4>1
    <3>3. CASE j = i
      BY <1>8, <1>9, <3>1, <3>3
    <3>4. CASE j > i
      <4>1. t[j] = s[j - 1] /\ j - 1 \in 1..n /\ j - 1 # k - 1
        BY <1>1, <1>8, <1>11, <3>4
      <4> QED
        BY <1>10, <3>1, <4>1
    <3> QED
      BY <1>1, <3>2, <3>3, <3>4
  <2> QED
    BY <1>1, <2>1, <2>2, <2>3
<1>12. IsInjective(t)
  <2>1. DOMAIN t = 1..(n + 1)
    BY <1>7
  <2>2. \A j, k \in 1..(n + 1) : j = k \/ j < k \/ k < j
    BY <1>1
  <2> QED
    BY <1>11, <2>1, <2>2, Zenon DEF IsInjective
<1>13. ASSUME NEW k \in 1..n
       PROVE  \E j \in 1..Len(t) : t[j] = s[k] /\ k <= j
  <2>1. CASE k < i
    <3>1. k \in 1..(n + 1) /\ k <= k
      BY <1>1
    <3> QED
      BY <1>7, <1>8, <2>1, <3>1
  <2>2. CASE k >= i
    <3>1. k + 1 \in 1..(n + 1) /\ k + 1 > i /\ (k + 1) - 1 = k /\ k <= k + 1
      BY <1>1, <2>2
    <3>2. t[k + 1] = s[k]
      BY <1>8, <3>1
    <3> QED
      BY <1>7, <3>1, <3>2
  <2> QED
    BY <1>1, <2>1, <2>2
<1> QED
  BY <1>7, <1>12, <1>13 DEF t, n

(* One element less leaves the others apart.                                *)
LEMMA RemovingKeeps ==
  ASSUME NEW S, NEW s \in Seq(S), IsInjective(s), NEW i \in 1..Len(s)
  PROVE  RemoveAt(s, i) \in Seq(S) /\ IsInjective(RemoveAt(s, i))
<1> DEFINE a == SubSeq(s, 1, i - 1)
           b == SubSeq(s, i + 1, Len(s))
           t == RemoveAt(s, i)
           n == Len(s)
<1>1. i \in Nat /\ i >= 1 /\ n \in Nat /\ i <= n /\ i - 1 \in Nat
  OBVIOUS
<1>2. a \in Seq(S) /\ Len(a) = i - 1 /\ \A k \in 1..(i - 1) : a[k] = s[k]
  <2>1. /\ a \in Seq(S) /\ Len(a) = (i - 1) - 1 + 1
        /\ \A k \in 1..((i - 1) - 1 + 1) : a[k] = s[1 + k - 1]
    BY <1>1, Cutting
  <2> HIDE DEF a
  <2>2. (i - 1) - 1 + 1 = i - 1 /\ \A k \in 1..(i - 1) : 1 + k - 1 = k
    BY <1>1
  <2> QED
    BY <2>1, <2>2
<1>3. b \in Seq(S) /\ Len(b) = n - i /\ \A k \in 1..(n - i) : b[k] = s[i + k]
  <2>1. /\ b \in Seq(S) /\ Len(b) = n - (i + 1) + 1
        /\ \A k \in 1..(n - (i + 1) + 1) : b[k] = s[(i + 1) + k - 1]
    BY <1>1, Cutting
  <2> HIDE DEF b
  <2>2. n - (i + 1) + 1 = n - i /\ \A k \in 1..(n - i) : (i + 1) + k - 1 = i + k
    BY <1>1
  <2> QED
    BY <2>1, <2>2
<1>4. t = a \o b
  BY DEF RemoveAt
<1> HIDE DEF a, b, t, n
<1>5. /\ t \in Seq(S) /\ Len(t) = n - 1
      /\ \A k \in 1..(i - 1) : t[k] = s[k]
      /\ \A k \in 1..(n - i) : t[(i - 1) + k] = s[i + k]
  <2>1. /\ t \in Seq(S) /\ Len(t) = Len(a) + Len(b)
        /\ \A k \in 1..Len(a) : t[k] = a[k]
        /\ \A k \in 1..Len(b) : t[Len(a) + k] = b[k]
    <3>0. a \in Seq(S) /\ b \in Seq(S)
      BY <1>2, <1>3
    <3>1. /\ a \o b \in Seq(S) /\ Len(a \o b) = Len(a) + Len(b)
          /\ \A k \in 1..Len(a) : (a \o b)[k] = a[k]
          /\ \A k \in 1..Len(b) : (a \o b)[Len(a) + k] = b[k]
      BY <3>0, Joining
    <3> QED
      BY <1>4, <3>1
  <2> QED
    BY <1>1, <1>2, <1>3, <2>1
<1>6. ASSUME NEW k \in 1..(n - 1)
      PROVE  /\ k < i => t[k] = s[k] /\ k \in 1..n
             /\ k >= i => t[k] = s[k + 1] /\ k + 1 \in 1..n
  <2>1. CASE k < i
    <3>1. k \in 1..(i - 1) /\ k \in 1..n
      BY <1>1, <2>1
    <3> QED
      BY <1>5, <2>1, <3>1
  <2>2. CASE k >= i
    <3>1. /\ k - i + 1 \in 1..(n - i) /\ (i - 1) + (k - i + 1) = k /\ i + (k - i + 1) = k + 1
          /\ k + 1 \in 1..n
      BY <1>1, <2>2
    <3> QED
      BY <1>5, <2>2, <3>1
  <2> QED
    BY <1>1, <2>1, <2>2
<1>7. \A j, k \in 1..n : s[j] = s[k] => j = k
  BY DEF IsInjective, n
<1>8. ASSUME NEW j \in 1..(n - 1), NEW k \in 1..(n - 1), j < k
      PROVE  t[j] # t[k]
  <2>1. CASE k < i
    BY <1>1, <1>6, <1>7, <1>8, <2>1
  <2>2. CASE k >= i
    <3>1. t[k] = s[k + 1] /\ k + 1 \in 1..n
      BY <1>6, <2>2
    <3>2. CASE j < i
      <4>1. t[j] = s[j] /\ j \in 1..n /\ j # k + 1
        BY <1>1, <1>6, <1>8, <3>2
      <4> QED
        BY <1>7, <3>1, <4>1
    <3>3. CASE j >= i
      <4>1. t[j] = s[j + 1] /\ j + 1 \in 1..n /\ j + 1 # k + 1
        BY <1>1, <1>6, <1>8, <3>3
      <4> QED
        BY <1>7, <3>1, <4>1
    <3> QED
      BY <1>1, <3>2, <3>3
  <2> QED
    BY <1>1, <2>1, <2>2
<1>9. DOMAIN t = 1..(n - 1)
  BY <1>5
<1>10. \A j, k \in 1..(n - 1) : j = k \/ j < k \/ k < j
  BY <1>1
<1>11. IsInjective(t)
  BY <1>8, <1>9, <1>10, Zenon DEF IsInjective
<1> QED
  BY <1>5, <1>11 DEF t

\* What a walk holds at each point of it.
Holding(w) ==
  /\ walk[w].at \in {"idle", "listing", "writing", "hydrating", "found", "failed"}
  /\ walk[w].page \in Nat \ {0}
  /\ walk[w].got \in Seq(CurrentEntries) /\ walk[w].held \in Seq(CurrentEntries)
  /\ walk[w].queue \in Seq(Users) /\ walk[w].there \subseteq Users

\* At rest it holds nothing; it leaves the loop over the rows when it has
\* written them all, and the record it fetched is that of the next in the
\* queue, with its e-mail.
InTurn(w) ==
  /\ walk[w].at = "idle" =>
       /\ walk[w].page = 1 /\ walk[w].got = <<>> /\ walk[w].queue = <<>> /\ walk[w].held = <<>>
  /\ walk[w].at = "writing" => walk[w].got # <<>>
  /\ walk[w].at = "hydrating" => walk[w].got = <<>>
  /\ walk[w].held # <<>> =>
       /\ walk[w].at = "hydrating" /\ walk[w].queue # <<>>
       /\ Head(walk[w].held).user = Head(walk[w].queue) /\ Head(walk[w].held).mail

\* Nobody is listed twice, and no copy is newer than the record.
HubIsWhole ==
  /\ IsInjective(hub)
  /\ changes \in 0..MaxChanges /\ failures \in 0..MaxFailures
  /\ \A u \in Users : version[u] <= changes + 1 /\ row[u].version <= version[u]

WalkInv == HubIsWhole /\ \A w \in Walks : Holding(w) /\ InTurn(w)

LEMMA EntriesStayCurrent ==
  ASSUME HubTypes, \A u \in Users : version'[u] \in Nat /\ version'[u] >= version[u]
  PROVE  CurrentEntries \subseteq CurrentEntries'
<1>1. \A u \in Users : version[u] \in Nat
  BY DEF HubTypes
<1> QED
  BY <1>1 DEF CurrentEntries

(* A list of entries stays one of entries of the next state.                *)
LEMMA ListsStayCurrent ==
  ASSUME HubTypes, \A u \in Users : version'[u] \in Nat /\ version'[u] >= version[u],
         NEW s \in Seq(CurrentEntries)
  PROVE  s \in Seq(CurrentEntries')
  BY EntriesStayCurrent

LEMMA RestHolds ==
  ASSUME NEW w \in Walks, walk'[w] = Rest
  PROVE  Holding(w)' /\ InTurn(w)'
<1>1. /\ walk'[w].at = "idle" /\ walk'[w].page = 1 /\ walk'[w].got = <<>>
      /\ walk'[w].queue = <<>> /\ walk'[w].held = <<>> /\ walk'[w].there = {}
  BY RestIs
<1>2. <<>> \in Seq(CurrentEntries') /\ <<>> \in Seq(Users) /\ 1 \in Nat \ {0} /\ {} \subseteq Users
  OBVIOUS
<1> QED
  BY <1>1, <1>2, Zenon DEF Holding, InTurn

LEMMA WalksStart == DeskInit => WalkInv
<1> SUFFICES ASSUME NEW m \in Mixes, MirrorInit(MaxChanges - m.changes, MaxFailures - m.failures)
             PROVE  WalkInv
  BY DEF DeskInit
<1> USE DEF MirrorInit
<1>1. IsInjective(hub)
  BY HubAssumption DEF HubAssumption
<1>2. changes \in 0..MaxChanges /\ failures \in 0..MaxFailures
  <2>1. m.changes \in 0..MaxChanges /\ m.failures \in 0..MaxFailures
    BY MixAssumption DEF MixAssumption
  <2>2. MaxChanges \in Nat /\ MaxFailures \in Nat
    BY HubAssumption DEF HubAssumption
  <2>3. changes = MaxChanges - m.changes /\ failures = MaxFailures - m.failures
    OBVIOUS
  <2> QED
    BY <2>1, <2>2, <2>3
<1>3. \A u \in Users : version[u] <= changes + 1 /\ row[u].version <= version[u]
  BY <1>2, HubAssumption DEF HubAssumption, Absent
<1>4. ASSUME NEW w \in Walks
      PROVE  Holding(w) /\ InTurn(w)
  <2>1. walk[w] = Rest
    OBVIOUS
  <2>2. /\ walk[w].at = "idle" /\ walk[w].page = 1 /\ walk[w].got = <<>>
        /\ walk[w].queue = <<>> /\ walk[w].held = <<>> /\ walk[w].there = {}
    BY <2>1, RestIs
  <2>3. <<>> \in Seq(CurrentEntries) /\ <<>> \in Seq(Users) /\ 1 \in Nat \ {0} /\ {} \subseteq Users
    OBVIOUS
  <2> QED
    BY <2>2, <2>3, Zenon DEF Holding, InTurn
<1> QED
  BY <1>1, <1>2, <1>3, <1>4 DEF WalkInv, HubIsWhole

(* The walks that do not move hold what they held.                          *)
LEMMA OthersHold ==
  ASSUME MirrorInv, WalkInv, NEW v \in Walks,
         \A u \in Users : version'[u] \in Nat /\ version'[u] >= version[u],
         walk'[v].at = walk[v].at, walk'[v].page = walk[v].page, walk'[v].got = walk[v].got,
         walk'[v].queue = walk[v].queue, walk'[v].held = walk[v].held, walk'[v].there = walk[v].there
  PROVE  Holding(v)' /\ InTurn(v)'
<1>1. Holding(v) /\ InTurn(v) /\ HubTypes
  BY DEF WalkInv, MirrorInv
<1>2. walk[v].got \in Seq(CurrentEntries') /\ walk[v].held \in Seq(CurrentEntries')
  BY <1>1, ListsStayCurrent DEF Holding
<1> QED
  BY <1>1, <1>2, Zenon DEF Holding, InTurn

(* A walk goes on and leaves the others and the records alone.              *)
LEMMA OneHolds ==
  ASSUME MirrorInv, WalkInv, NEW w \in Walks, Alone(w),
         UNCHANGED <<hub, version, changes>>, Spends \/ UNCHANGED failures,
         \A u \in Users : row'[u].version <= version[u],
         Holding(w)' /\ InTurn(w)'
  PROVE  WalkInv'
<1>1. HubIsWhole /\ HubTypes
  BY DEF WalkInv, MirrorInv
<1>2. failures' \in 0..MaxFailures
  BY <1>1, HubAssumption DEF HubIsWhole, Spends, HubAssumption
<1>3. HubIsWhole'
  BY <1>1, <1>2 DEF HubIsWhole
<1>4. \A u \in Users : version'[u] \in Nat /\ version'[u] >= version[u]
  BY <1>1 DEF HubTypes
<1>5. \A v \in Walks \ {w} : Holding(v)' /\ InTurn(v)'
  BY <1>4, OthersHold DEF Alone
<1> QED
  BY <1>3, <1>5 DEF WalkInv

LEMMA WalksStep ==
  ASSUME MirrorInv, WalkInv, MirrorActs \/ UNCHANGED mirrorVars
  PROVE  WalkInv'
<1>1. /\ HubTypes /\ RowTypes /\ HubIsWhole
      /\ \A w \in Walks : Holding(w) /\ InTurn(w)
  BY DEF MirrorInv, WalkInv
<1>2. \A u \in Users : version[u] \in Nat /\ row[u].version \in Nat /\ row[u].version <= version[u]
  BY <1>1 DEF HubTypes, RowTypes, HubIsWhole
<1>3. \A w \in Walks : walk[w].at \in {"writing", "hydrating"} => w \in Refreshes
  BY DEF MirrorInv, Keeps, Searching, Walks
<1>10. ASSUME NEW w \in Walks, Begins(w)
       PROVE  WalkInv'
  <2>1. /\ UNCHANGED <<hub, version, row, changes, failures>> /\ walk[w].at = "idle"
        /\ walk'[w].at = "listing" /\ walk'[w].there = ToSet(hub)
        /\ walk'[w].page = walk[w].page /\ walk'[w].got = walk[w].got /\ walk'[w].queue = walk[w].queue
        /\ walk'[w].held = walk[w].held
    BY <1>10, BeginsDoes, Zenon
  <2>2. \A v \in Walks \ {w} :
              /\ walk'[v].at = walk[v].at /\ walk'[v].page = walk[v].page /\ walk'[v].got = walk[v].got
              /\ walk'[v].queue = walk[v].queue /\ walk'[v].held = walk[v].held
              /\ walk'[v].there = walk[v].there
    BY <1>10, BeginsDoes, Zenon
  <2>3. HubIsWhole'
    BY <1>1, <2>1 DEF HubIsWhole
  <2>4. \A u \in Users : version'[u] \in Nat /\ version'[u] >= version[u]
    BY <1>2, <2>1
  <2>5. \A v \in Walks \ {w} : Holding(v)' /\ InTurn(v)'
    BY <2>2, <2>4, OthersHold
  <2>6. ToSet(hub) \subseteq Users
    BY <1>1 DEF HubTypes, ToSet
  <2>7. walk[w].got \in Seq(CurrentEntries') /\ walk[w].held \in Seq(CurrentEntries')
    BY <1>1, <2>4, ListsStayCurrent DEF Holding
  <2>8. Holding(w)'
    BY <1>1, <2>1, <2>6, <2>7, Zenon DEF Holding
  <2>9. InTurn(w)'
    BY <1>1, <2>1 DEF InTurn
  <2> QED
    BY <2>3, <2>5, <2>8, <2>9, Zenon DEF WalkInv
\* A walk that goes on, with the records as they are.
<1>4. ASSUME NEW w \in Walks, UNCHANGED <<hub, version, changes>>,
             UNCHANGED row \/ \E e \in CurrentEntries : row' = [row EXCEPT ![e.user] = RowOf(e)]
      PROVE  /\ \A u \in Users : row'[u].version <= version[u]
             /\ CurrentEntries' = CurrentEntries
  <2>1. CASE UNCHANGED row
    BY <1>2, <1>4, <2>1 DEF CurrentEntries
  <2>2. ASSUME NEW e \in CurrentEntries, row' = [row EXCEPT ![e.user] = RowOf(e)]
        PROVE  \A u \in Users : row'[u].version <= version[u]
    <3>1. e.user \in Users /\ e.version <= version[e.user] /\ RowOf(e).version = e.version
      BY DEF CurrentEntries, RowOf
    <3>2. row'[e.user] = RowOf(e) /\ \A u \in Users \ {e.user} : row'[u] = row[u]
      BY <1>1, <2>2, <3>1 DEF RowTypes
    <3> QED
      BY <1>2, <3>1, <3>2
  <2>3. CurrentEntries' = CurrentEntries
    BY <1>4 DEF CurrentEntries
  <2> QED
    BY <1>4, <2>1, <2>2, <2>3
<1>11. ASSUME NEW w \in Walks, ListsPage(w)
       PROVE  WalkInv'
  <2> DEFINE found == PageAt(walk[w].page)
  <2>1. /\ walk[w].at = "listing" /\ Alone(w)
        /\ UNCHANGED <<hub, version, row, changes, failures>>
        /\ walk'[w].got = walk[w].got \o found
        /\ walk'[w].queue = walk[w].queue /\ walk'[w].held = walk[w].held
        /\ walk'[w].there = walk[w].there
        /\ \/ /\ walk'[w].page = 1
              /\ walk'[w].at = IF walk'[w].got = <<>> THEN "hydrating" ELSE "writing"
           \/ walk'[w].page = walk[w].page + 1 /\ walk'[w].at = "listing"
    BY <1>11, ListsPageDoes, Zenon DEF SameStart
  <2>2. Holding(w) /\ InTurn(w)
    BY <1>1
  <2>3. found \in Seq(CurrentEntries)
    BY <1>1, <2>2, PagesHold DEF Holding
  <2> HIDE DEF found
  <2>4. (\A u \in Users : row'[u].version <= version[u]) /\ CurrentEntries' = CurrentEntries
    BY <1>4, <2>1
  <2>5. /\ walk'[w].got \in Seq(CurrentEntries) /\ walk'[w].held \in Seq(CurrentEntries)
        /\ walk'[w].queue \in Seq(Users) /\ walk'[w].there \subseteq Users
    BY <2>1, <2>2, <2>3 DEF Holding
  <2>6. walk'[w].page \in Nat \ {0}
    BY <2>1, <2>2 DEF Holding
  <2>7. walk'[w].at \in {"hydrating", "writing", "listing"}
    BY <2>1
  <2>8. Holding(w)'
    BY <2>4, <2>5, <2>6, <2>7, Zenon DEF Holding
  <2>9. walk'[w].held = <<>>
    BY <2>1, <2>2 DEF InTurn
  <2>10. InTurn(w)'
    BY <2>1, <2>7, <2>9 DEF InTurn
  <2> QED
    BY <2>1, <2>4, <2>8, <2>10, OneHolds
<1>12. ASSUME NEW w \in Walks, SearchesPage(w)
       PROVE  WalkInv'
  <2> DEFINE found == PageAt(walk[w].page)
             none == [Rest EXCEPT !.at = "failed", !.clean = walk[w].clean]
  <2>1. /\ walk[w].at = "listing" /\ Alone(w)
        /\ UNCHANGED <<hub, version, row, changes, failures>>
    BY <1>12, SearchesPageDoes, Zenon
  <2>2. Holding(w) /\ InTurn(w)
    BY <1>1
  <2>3. found \in Seq(CurrentEntries)
    BY <1>1, <2>2, PagesHold DEF Holding
  <2>4. (\A u \in Users : row'[u].version <= version[u]) /\ CurrentEntries' = CurrentEntries
    BY <1>4, <2>1
  <2>5. CASE walk'[w] = none
    <3>1. /\ walk'[w].at = "failed" /\ walk'[w].page = 1 /\ walk'[w].got = <<>>
          /\ walk'[w].queue = <<>> /\ walk'[w].held = <<>> /\ walk'[w].there = {}
      BY <2>5, RestIs DEF WalkFields
    <3>2. <<>> \in Seq(CurrentEntries') /\ <<>> \in Seq(Users) /\ 1 \in Nat \ {0} /\ {} \subseteq Users
      OBVIOUS
    <3>3. Holding(w)' /\ InTurn(w)'
      BY <3>1, <3>2, Zenon DEF Holding, InTurn
    <3> QED
      BY <2>1, <2>4, <3>3, OneHolds
  <2>6. CASE /\ walk'[w].got = walk[w].got \o WithCard(found)
             /\ walk'[w].queue = walk[w].queue /\ walk'[w].held = walk[w].held
             /\ SameStart(w)
             /\ \/ walk'[w].page = 1 /\ walk'[w].at = "found"
                \/ walk'[w].page = walk[w].page + 1 /\ walk'[w].at = "listing"
    <3> HIDE DEF found
    <3>1. WithCard(found) \in Seq(CurrentEntries)
      BY <2>3, FilterKeeps
    <3>2. /\ walk'[w].got \in Seq(CurrentEntries) /\ walk'[w].held \in Seq(CurrentEntries)
          /\ walk'[w].queue \in Seq(Users) /\ walk'[w].there \subseteq Users
      BY <2>2, <2>6, <3>1 DEF Holding, SameStart
    <3>3. walk'[w].page \in Nat \ {0}
      BY <2>2, <2>6 DEF Holding
    <3>4. walk'[w].at \in {"found", "listing"}
      BY <2>6
    <3>5. Holding(w)'
      BY <2>4, <3>2, <3>3, <3>4, Zenon DEF Holding
    <3>6. walk'[w].held = <<>>
      BY <2>1, <2>2, <2>6 DEF InTurn
    <3>7. InTurn(w)'
      BY <3>4, <3>6 DEF InTurn
    <3> QED
      BY <2>1, <2>4, <3>5, <3>7, OneHolds
  <2> HIDE DEF none
  <2>7. \/ walk'[w] = none
        \/ /\ walk'[w].got = walk[w].got \o WithCard(found)
           /\ walk'[w].queue = walk[w].queue /\ walk'[w].held = walk[w].held
           /\ SameStart(w)
           /\ \/ walk'[w].page = 1 /\ walk'[w].at = "found"
              \/ walk'[w].page = walk[w].page + 1 /\ walk'[w].at = "listing"
    BY <1>12, SearchesPageDoes, Zenon DEF none
  <2> QED
    BY <2>5, <2>6, <2>7, Zenon DEF none
<1>13. ASSUME NEW w \in Walks, walk'[w] = Rest, Alone(w),
              UNCHANGED <<hub, version, row, changes>>, Spends \/ UNCHANGED failures
       PROVE  WalkInv'
  BY <1>4, <1>13, RestHolds, OneHolds
<1>14. ASSUME NEW w \in Walks, ListFails(w)
       PROVE  WalkInv'
  <2> DEFINE none == [Rest EXCEPT !.at = "failed", !.clean = FALSE]
  <2>1. /\ Alone(w) /\ UNCHANGED <<hub, version, row, changes>> /\ Spends
        /\ walk'[w] = none \/ walk'[w] = Rest
    BY <1>14, ListFailsDoes, Zenon
  <2>2. CASE walk'[w] = Rest
    BY <1>13, <2>1, <2>2
  <2>3. CASE walk'[w] = none
    <3>1. /\ walk'[w].at = "failed" /\ walk'[w].page = 1 /\ walk'[w].got = <<>>
          /\ walk'[w].queue = <<>> /\ walk'[w].held = <<>> /\ walk'[w].there = {}
      BY <2>3, RestIs DEF WalkFields
    <3>2. <<>> \in Seq(CurrentEntries') /\ <<>> \in Seq(Users) /\ 1 \in Nat \ {0} /\ {} \subseteq Users
      OBVIOUS
    <3>3. Holding(w)' /\ InTurn(w)'
      BY <3>1, <3>2, Zenon DEF Holding, InTurn
    <3> HIDE DEF none
    <3> QED
      BY <1>4, <2>1, <3>3, OneHolds
  <2> QED
    BY <2>1, <2>2, <2>3
<1>15. ASSUME NEW w \in Walks, SearchEnds(w) \/ Cancelled(w) \/ Finishes(w)
       PROVE  WalkInv'
  <2>1. /\ Alone(w) /\ walk'[w] = Rest
        /\ UNCHANGED <<hub, version, row, changes>> /\ (Spends \/ UNCHANGED failures)
    BY <1>15, RestsDoes, Zenon
  <2> QED
    BY <1>13, <2>1
<1>16. ASSUME NEW w \in Walks, Upserts(w) \/ UpsertFails(w)
       PROVE  WalkInv'
  <2> DEFINE e == Head(walk[w].got)
  <2>1. /\ walk[w].at = "writing" /\ Alone(w)
        /\ UNCHANGED <<hub, version, changes>> /\ (Spends \/ UNCHANGED failures)
        /\ walk'[w].got = Tail(walk[w].got) /\ walk'[w].held = walk[w].held
        /\ walk'[w].page = walk[w].page /\ walk'[w].there = walk[w].there
        /\ walk'[w].at = (IF walk'[w].got = <<>> THEN "hydrating" ELSE "writing")
    BY <1>16, LoopsDo, Zenon DEF SameStart
  <2>2. /\ row' = [row EXCEPT ![e.user] = RowOf(e)] \/ UNCHANGED row
        /\ walk'[w].queue = walk[w].queue \/ walk'[w].queue = Append(walk[w].queue, e.user)
    <3>1. \/ /\ row' = [row EXCEPT ![e.user] = RowOf(e)] /\ walk'[w].clean = walk[w].clean
             /\ walk'[w].queue = IF e.mail THEN walk[w].queue ELSE Append(walk[w].queue, e.user)
          \/ UNCHANGED row /\ walk'[w].clean = FALSE /\ walk'[w].queue = walk[w].queue
      BY <1>16, LoopsDo, Zenon
    <3> HIDE DEF e
    <3> QED
      BY <3>1, Zenon
  <2>3. Holding(w) /\ InTurn(w)
    BY <1>1
  <2>4. e \in CurrentEntries /\ Tail(walk[w].got) \in Seq(CurrentEntries)
    BY <2>1, <2>3 DEF Holding, InTurn
  <2> HIDE DEF e
  <2>5. (\A u \in Users : row'[u].version <= version[u]) /\ CurrentEntries' = CurrentEntries
    BY <1>4, <2>1, <2>2, <2>4
  <2>6. e.user \in Users
    BY <2>4 DEF CurrentEntries
  <2>7. walk'[w].queue \in Seq(Users)
    <3>1. walk[w].queue \in Seq(Users)
      BY <2>3 DEF Holding
    <3>2. Append(walk[w].queue, e.user) \in Seq(Users)
      BY <2>6, <3>1
    <3> QED
      BY <2>2, <3>1, <3>2, Zenon
  <2>8. walk'[w].at \in {"hydrating", "writing"}
    BY <2>1
  <2>9. Holding(w)'
    BY <2>1, <2>3, <2>4, <2>5, <2>7, <2>8, Zenon DEF Holding
  <2>10. walk'[w].held = <<>>
    BY <2>1, <2>3 DEF InTurn
  <2>11. InTurn(w)'
    BY <2>1, <2>8, <2>10 DEF InTurn
  <2> QED
    BY <2>1, <2>5, <2>9, <2>11, OneHolds
<1>17. ASSUME NEW w \in Walks, Fetches(w)
       PROVE  WalkInv'
  <2> DEFINE u == Head(walk[w].queue)
             e == [user |-> u, version |-> version[u], mail |-> TRUE]
  <2>1. /\ walk[w].at = "hydrating" /\ walk[w].queue # <<>> /\ u \in ToSet(hub) /\ Alone(w)
        /\ UNCHANGED <<hub, version, row, changes, failures>>
        /\ walk'[w].held = <<e>>
        /\ walk'[w].at = "hydrating" /\ walk'[w].page = walk[w].page /\ walk'[w].got = walk[w].got
        /\ walk'[w].queue = walk[w].queue /\ walk'[w].there = walk[w].there
    BY <1>17, FetchesDoes, Zenon DEF SameStart
  <2>2. Holding(w) /\ InTurn(w)
    BY <1>1
  <2>3. u \in Users
    BY <1>1, <2>1 DEF HubTypes, ToSet
  <2>4. e \in CurrentEntries /\ e.user = u /\ e.mail
    BY <1>2, <2>3 DEF CurrentEntries
  <2>5. (\A v \in Users : row'[v].version <= version[v]) /\ CurrentEntries' = CurrentEntries
    BY <1>4, <2>1
  <2> HIDE DEF e
  <2>6. walk'[w].held \in Seq(CurrentEntries) /\ Head(walk'[w].held) = e
    BY <2>1, <2>4
  <2>7. Holding(w)'
    BY <2>1, <2>2, <2>5, <2>6, Zenon DEF Holding
  <2>8. InTurn(w)'
    <3>1. Head(walk'[w].held).user = Head(walk'[w].queue) /\ Head(walk'[w].held).mail
      BY <2>1, <2>4, <2>6
    <3>2. walk'[w].got = <<>> /\ walk'[w].queue # <<>> /\ walk'[w].at = "hydrating"
      BY <2>1, <2>2 DEF InTurn
    <3>3. walk'[w].at # "idle" /\ walk'[w].at # "writing"
      BY <3>2
    <3> QED
      BY <3>1, <3>2, <3>3, Zenon DEF InTurn
  <2> QED
    BY <2>1, <2>5, <2>7, <2>8, OneHolds
<1>18. ASSUME NEW w \in Walks, HydrateFails(w) \/ Hydrates(w)
       PROVE  WalkInv'
  <2> DEFINE e == Head(walk[w].held)
  <2>1. /\ walk[w].at = "hydrating" /\ walk[w].queue # <<>> /\ Alone(w)
        /\ UNCHANGED <<hub, version, changes>> /\ (Spends \/ UNCHANGED failures)
        /\ walk'[w].held = <<>> /\ walk'[w].at = "hydrating" /\ walk'[w].page = walk[w].page
        /\ walk'[w].got = walk[w].got /\ walk'[w].queue = Tail(walk[w].queue)
        /\ walk'[w].there = walk[w].there
        /\ UNCHANGED row \/ (walk[w].held # <<>> /\ row' = [row EXCEPT ![e.user] = RowOf(e)])
    BY <1>18, HydrationsDo, Zenon DEF SameStart
  <2>2. Holding(w) /\ InTurn(w)
    BY <1>1
  <2>3. walk[w].held # <<>> => e \in CurrentEntries
    BY <2>2 DEF Holding
  <2>4. Tail(walk[w].queue) \in Seq(Users) /\ <<>> \in Seq(CurrentEntries)
    BY <2>1, <2>2 DEF Holding
  <2> HIDE DEF e
  <2>5. (\A u \in Users : row'[u].version <= version[u]) /\ CurrentEntries' = CurrentEntries
    BY <1>4, <2>1, <2>3
  <2>6. Holding(w)'
    BY <2>1, <2>2, <2>4, <2>5, Zenon DEF Holding
  <2>7. InTurn(w)'
    BY <2>1, <2>2 DEF InTurn
  <2> QED
    BY <2>1, <2>5, <2>6, <2>7, OneHolds
\* The hub.
<1>19. ASSUME HubIsWhole', \A u \in Users : version'[u] \in Nat /\ version'[u] >= version[u],
              \A v \in Walks :
                /\ walk'[v].at = walk[v].at /\ walk'[v].page = walk[v].page /\ walk'[v].got = walk[v].got
                /\ walk'[v].queue = walk[v].queue /\ walk'[v].held = walk[v].held
                /\ walk'[v].there = walk[v].there
       PROVE  WalkInv'
  BY <1>19, OthersHold DEF WalkInv
<1>20. ASSUME NEW u \in Users, version' = [version EXCEPT ![u] = @ + 1], Change
       PROVE  /\ \A x \in Users : version'[x] \in Nat /\ version'[x] >= version[x]
              /\ \A x \in Users : version'[x] <= changes' + 1 /\ row[x].version <= version'[x]
              /\ changes' \in 0..MaxChanges
  <2>1. changes \in 0..MaxChanges /\ changes < MaxChanges /\ changes' = changes + 1 /\ MaxChanges \in Nat
    BY <1>1, <1>20, HubAssumption DEF HubIsWhole, Change, HubAssumption
  <2>2. version'[u] = version[u] + 1 /\ \A x \in Users \ {u} : version'[x] = version[x]
    BY <1>1, <1>20 DEF HubTypes
  <2>3. \A x \in Users : version[x] <= changes + 1 /\ row[x].version <= version[x]
    BY <1>1 DEF HubIsWhole
  <2> QED
    BY <1>2, <2>1, <2>2, <2>3
<1>21. ASSUME NEW u, Edits(u)
       PROVE  WalkInv'
  <2>1. u \in Users /\ version' = [version EXCEPT ![u] = @ + 1] /\ Change
        /\ UNCHANGED <<hub, row, walk, failures>>
    BY <1>1, <1>21 DEF Edits, Edited, HubTypes, ToSet
  <2>2. HubIsWhole'
    BY <1>1, <1>20, <2>1 DEF HubIsWhole
  <2> QED
    BY <1>19, <1>20, <2>1, <2>2
<1>22. ASSUME NEW u \in Users, Joins(u)
       PROVE  WalkInv'
  <2>1. PICK i \in 1..(Len(hub) + 1) : hub' = InsertAt(hub, i, u)
    BY <1>22 DEF Joins
  <2>2. /\ u \notin ToSet(hub) /\ version' = [version EXCEPT ![u] = @ + 1] /\ Change
        /\ UNCHANGED <<row, walk, failures>>
    BY <1>22 DEF Joins, Edited
  <2>3. hub \in Seq(Users) /\ IsInjective(hub)
    BY <1>1 DEF HubTypes, HubIsWhole
  <2>4. IsInjective(hub')
    BY <2>1, <2>2, <2>3, InsertingShifts
  <2>5. HubIsWhole'
    BY <1>1, <1>20, <2>2, <2>4 DEF HubIsWhole
  <2> QED
    BY <1>19, <1>20, <2>2, <2>5
<1>23. ASSUME NEW u \in Users, Leaves(u)
       PROVE  WalkInv'
  <2>1. PICK i \in 1..Len(hub) : hub' = RemoveAt(hub, i)
    BY <1>23 DEF Leaves
  <2>2. UNCHANGED <<version, row, failures>> /\ Change
    BY <1>23 DEF Leaves
  <2>3. hub \in Seq(Users) /\ IsInjective(hub)
    BY <1>1 DEF HubTypes, HubIsWhole
  <2>4. IsInjective(hub')
    BY <2>1, <2>3, RemovingKeeps
  <2>5. changes \in 0..MaxChanges /\ changes < MaxChanges /\ changes' = changes + 1 /\ MaxChanges \in Nat
    BY <1>1, <2>2, HubAssumption DEF HubIsWhole, Change, HubAssumption
  <2>6. \A x \in Users : version[x] <= changes + 1 /\ row[x].version <= version[x]
    BY <1>1 DEF HubIsWhole
  <2>7. \A x \in Users : version'[x] <= changes' + 1 /\ row'[x].version <= version'[x]
    BY <1>2, <2>2, <2>5, <2>6
  <2>8. HubIsWhole'
    BY <1>1, <2>2, <2>4, <2>5, <2>7 DEF HubIsWhole
  <2>9. \A x \in Users : version'[x] \in Nat /\ version'[x] >= version[x]
    BY <1>2, <2>2
  <2>10. \A v \in Walks :
           /\ walk'[v].at = walk[v].at /\ walk'[v].page = walk[v].page /\ walk'[v].got = walk[v].got
           /\ walk'[v].queue = walk[v].queue /\ walk'[v].held = walk[v].held
           /\ walk'[v].there = walk[v].there
    BY <1>23, HubMovesDo, Zenon
  <2> QED
    BY <1>19, <2>8, <2>9, <2>10
<1>24. ASSUME UNCHANGED mirrorVars
       PROVE  WalkInv'
  <2>1. UNCHANGED <<hub, version, row, walk, changes, failures>>
    BY <1>24 DEF mirrorVars
  <2>2. HubIsWhole'
    BY <1>1, <2>1 DEF HubIsWhole
  <2> QED
    BY <1>2, <1>19, <2>1, <2>2
<1> QED
  BY <1>10, <1>11, <1>12, <1>14, <1>15, <1>16, <1>17, <1>18, <1>21, <1>22, <1>23, <1>24, Zenon
     DEF MirrorActs

-----------------------------------------------------------------------------
(* Nobody is missed.                                                        *)

LEMMA UsersOfJoined ==
  ASSUME NEW S, NEW a \in Seq(S), NEW b \in Seq(S)
  PROVE  /\ UsersOf(a) \subseteq UsersOf(a \o b)
         /\ \A i \in 1..Len(b) : b[i].user \in UsersOf(a \o b)
<1>1. /\ Len(a \o b) = Len(a) + Len(b) /\ Len(a) \in Nat /\ Len(b) \in Nat
      /\ \A k \in 1..Len(a) : (a \o b)[k] = a[k]
      /\ \A k \in 1..Len(b) : (a \o b)[Len(a) + k] = b[k]
  BY Joining
<1> DEFINE c == a \o b
<1> HIDE DEF c
<1>2. UsersOf(a) \subseteq UsersOf(c)
  <2>1. ASSUME NEW i \in 1..Len(a)
        PROVE  a[i].user \in UsersOf(c)
    <3>1. i \in 1..Len(c) /\ c[i] = a[i]
      BY <1>1 DEF c
    <3> QED
      BY <3>1 DEF UsersOf
  <2> QED
    BY <2>1 DEF UsersOf
<1>3. ASSUME NEW i \in 1..Len(b)
      PROVE  b[i].user \in UsersOf(c)
  <2>1. Len(a) + i \in 1..Len(c) /\ c[Len(a) + i] = b[i]
    BY <1>1 DEF c
  <2> QED
    BY <2>1 DEF UsersOf
<1> QED
  BY <1>2, <1>3 DEF c

LEMMA FirstOrLater ==
  ASSUME NEW S, NEW s \in Seq(S), s # <<>>
  PROVE  /\ UsersOf(s) \subseteq UsersOf(Tail(s)) \cup {Head(s).user}
         /\ ToSet(s) \subseteq ToSet(Tail(s)) \cup {Head(s)}
<1>1. Len(s) \in Nat /\ Len(s) >= 1 /\ Head(s) = s[1]
  OBVIOUS
<1> DEFINE t == Tail(s)
<1>2. Len(t) = Len(s) - 1 /\ DOMAIN t = 1..(Len(s) - 1) /\ DOMAIN s = 1..Len(s)
  BY <1>1
<1>3. \A i \in 1..(Len(s) - 1) : t[i] = s[i + 1]
  BY <1>1
<1> HIDE DEF t
<1>4. ASSUME NEW i \in 1..Len(s)
      PROVE  i = 1 \/ (i - 1 \in 1..Len(t) /\ i - 1 \in DOMAIN t /\ t[i - 1] = s[i])
  <2>1. CASE i # 1
    <3>1. i - 1 \in 1..(Len(s) - 1) /\ (i - 1) + 1 = i
      BY <1>1, <2>1
    <3> QED
      BY <1>2, <1>3, <3>1
  <2> QED
    BY <2>1
<1>5. UsersOf(s) \subseteq UsersOf(t) \cup {Head(s).user}
  BY <1>1, <1>4, Zenon DEF UsersOf
<1>6. ToSet(s) \subseteq ToSet(t) \cup {Head(s)}
  BY <1>1, <1>2, <1>4, Zenon DEF ToSet
<1> QED
  BY <1>5, <1>6 DEF t

LEMMA AppendedIsIn ==
  ASSUME NEW S, NEW s \in Seq(S), NEW e \in S
  PROVE  ToSet(s) \subseteq ToSet(Append(s, e)) /\ e \in ToSet(Append(s, e))
<1> DEFINE t == Append(s, e)
<1>1. /\ DOMAIN s = 1..Len(s) /\ DOMAIN t = 1..(Len(s) + 1) /\ Len(s) \in Nat
      /\ t[Len(s) + 1] = e
  OBVIOUS
<1>2. \A i \in 1..Len(s) : t[i] = s[i]
  OBVIOUS
<1> HIDE DEF t
<1>3. Len(s) + 1 \in DOMAIN t /\ \A i \in 1..Len(s) : i \in DOMAIN t
  BY <1>1
<1> QED
  BY <1>1, <1>2, <1>3, Zenon DEF ToSet, t

\* Whom the walk w is to find, and how far it has read.
Wanted(w) == IF w \in Refreshes THEN walk[w].there ELSE walk[w].there \cap Carded
Whole(w) == walk[w].clean /\ ~walk[w].shrunk
Limit(w) == Reach(walk[w].page - 1)

\* While nobody leaves, whoever was there is still to come or has been read.
Seen(w) ==
  /\ walk[w].at = "listing" /\ Whole(w) =>
       \A u \in Wanted(w) : \E i \in 1..Len(hub) :
          hub[i] = u /\ (i <= Limit(w) => u \in UsersOf(walk[w].got))
  /\ walk[w].at = "found" /\ Whole(w) => Wanted(w) \subseteq UsersOf(walk[w].got)

\* A refresh that has the mirror to itself is the only one.
Only(w) ==
  w \in Refreshes /\ walk[w].at # "idle" /\ walk[w].alone =>
    \A v \in Refreshes \ {w} : walk[v].at = "idle"

Mirrored(u) == row[u].mail /\ row[u].version >= floor[u]

\* Whoever was there is still to be written, still to be asked for, or in
\* the mirror.
Covered(w) ==
  walk[w].at \in {"writing", "hydrating"} /\ Whole(w) /\ walk[w].alone =>
    \A u \in walk[w].there :
      u \in UsersOf(walk[w].got) \/ u \in ToSet(walk[w].queue) \/ Mirrored(u)

MissesNobody == \A w \in Walks : Seen(w) /\ Only(w) /\ Covered(w)

LEMMA NobodyMissedAtFirst == DeskInit => MissesNobody
<1> SUFFICES ASSUME NEW w \in Walks, walk = [v \in Walks |-> Rest]
             PROVE  Seen(w) /\ Only(w) /\ Covered(w)
  BY DEF DeskInit, MirrorInit, MissesNobody
<1>1. walk[w].at = "idle"
  BY RestIs
<1> QED
  BY <1>1 DEF Seen, Only, Covered

LEMMA LoopsAreOfRefreshes ==
  ASSUME MirrorInv, NEW w \in Walks, walk[w].at \in {"writing", "hydrating"}
  PROVE  w \in Refreshes
  BY DEF MirrorInv, Keeps, Searching, Walks

(* A walk that is under way goes on: nobody else misses anybody, when the   *)
(* rows of a refresh that is alone stay.                                    *)
LEMMA OthersMissNobody ==
  ASSUME MirrorInv, MissesNobody, NEW w \in Walks, Alone(w), UNCHANGED <<hub, floor>>,
         w \in Refreshes => walk[w].at # "idle",
         UNCHANGED row \/ w \in Refreshes,
         Seen(w)', Only(w)', Covered(w)'
  PROVE  MissesNobody'
<1>1. ASSUME NEW v \in Walks, v # w
      PROVE  Seen(v)' /\ Only(v)' /\ Covered(v)'
  <2>1. /\ Seen(v) /\ Only(v) /\ Covered(v) /\ walk'[v] = walk[v]
        /\ \A x \in Walks \ {w} : walk'[x] = walk[x]
    BY <1>1 DEF MissesNobody, Alone
  <2>2. Seen(v)'
    BY <2>1 DEF Seen, Whole, Wanted, Limit, UsersOf
  <2>3. ASSUME v \in Refreshes, walk[v].at # "idle", walk[v].alone
        PROVE  w \notin Refreshes /\ \A x \in Refreshes \ {v} : walk[x].at = "idle"
    BY <1>1, <2>1, <2>3 DEF Only
  <2>4. Only(v)'
    <3> SUFFICES ASSUME v \in Refreshes, walk[v].at # "idle", walk[v].alone, NEW x \in Refreshes \ {v}
                 PROVE  walk'[x].at = "idle"
      BY <2>1 DEF Only
    <3>1. w \notin Refreshes /\ walk[x].at = "idle" /\ x \in Walks
      BY <2>3 DEF Walks
    <3> QED
      BY <2>1, <3>1
  <2>5. Covered(v)'
    <3> SUFFICES ASSUME walk[v].at \in {"writing", "hydrating"}, Whole(v), walk[v].alone,
                        NEW u \in walk[v].there
                 PROVE  (u \in UsersOf(walk[v].got) \/ u \in ToSet(walk[v].queue) \/ Mirrored(u))'
      BY <2>1 DEF Covered, Whole
    <3>1. v \in Refreshes /\ walk[v].at # "idle"
      BY LoopsAreOfRefreshes
    <3>2. row' = row /\ floor' = floor
      BY <2>3, <3>1
    <3>3. u \in UsersOf(walk[v].got) \/ u \in ToSet(walk[v].queue) \/ Mirrored(u)
      BY <2>1 DEF Covered
    <3> QED
      BY <2>1, <3>2, <3>3 DEF Mirrored, UsersOf, ToSet
  <2> QED
    BY <2>2, <2>4, <2>5
<1> QED
  BY <1>1 DEF MissesNobody

LEMMA RestMissesNobody ==
  ASSUME NEW w \in Walks, walk'[w].at \in {"idle", "failed"}, w \in Refreshes => walk'[w].at = "idle"
  PROVE  Seen(w)' /\ Only(w)' /\ Covered(w)'
  BY DEF Seen, Only, Covered

\* Of the page that is next a walk keeps everybody it is to find.
Picks(w, kept) ==
  \A u \in Wanted(w) : \A i \in 1..Len(PageAt(walk[w].page)) :
    PageAt(walk[w].page)[i].user = u => u \in UsersOf(kept)

\* Whoever was there is behind that page or has been read.
ReadOn(w, got) ==
  /\ \A u \in Wanted(w) : \E i \in 1..Len(hub) :
        hub[i] = u /\ (i <= Reach(walk[w].page) => u \in UsersOf(got))
  /\ IsLast(Len(PageAt(walk[w].page))) => Wanted(w) \subseteq UsersOf(got)

(* A page is read: whoever it holds has been read now.                      *)
LEMMA PagesAreRead ==
  ASSUME HubTypes, NEW w \in Walks, Holding(w), Seen(w), walk[w].at = "listing", Whole(w),
         NEW kept \in Seq(CurrentEntries), Picks(w, kept)
  PROVE  ReadOn(w, walk[w].got \o kept)
<1> DEFINE n == walk[w].page
           found == PageAt(walk[w].page)
           next == walk[w].got \o kept
<1>1. n \in Nat \ {0} /\ n - 1 \in Nat /\ walk[w].got \in Seq(CurrentEntries)
  BY DEF Holding
<1>2. /\ \A i \in 1..Len(hub) : Reach(n - 1) < i /\ i <= Reach(n) =>
           \E j \in 1..Len(found) : found[j] = Listed(hub[i])
      /\ IsLast(Len(found)) => Len(hub) < Reach(n)
  BY <1>1, PagesHold
<1>3. Reach(n - 1) \in Nat /\ Reach(n) \in Nat /\ Limit(w) = Reach(n - 1)
  BY <1>1, ReachIsNat DEF Limit
<1>4. UsersOf(walk[w].got) \subseteq UsersOf(next) /\ UsersOf(kept) \subseteq UsersOf(next)
  <2>1. /\ UsersOf(walk[w].got) \subseteq UsersOf(next)
        /\ \A i \in 1..Len(kept) : kept[i].user \in UsersOf(next)
    BY <1>1, UsersOfJoined
  <2> HIDE DEF next
  <2>2. UsersOf(kept) \subseteq UsersOf(next)
    BY <2>1 DEF UsersOf
  <2> QED
    BY <2>1, <2>2
<1> HIDE DEF n, found, next
<1>5. ASSUME NEW u \in Wanted(w)
      PROVE  \E i \in 1..Len(hub) : hub[i] = u /\ (i <= Reach(n) => u \in UsersOf(next))
  <2>1. PICK i \in 1..Len(hub) : hub[i] = u /\ (i <= Limit(w) => u \in UsersOf(walk[w].got))
    BY DEF Seen
  <2>2. CASE i <= Reach(n - 1)
    BY <1>3, <1>4, <2>1, <2>2
  <2>3. CASE Reach(n - 1) < i /\ i <= Reach(n)
    <3>1. PICK j \in 1..Len(found) : found[j] = Listed(hub[i])
      BY <1>2, <2>3
    <3>2. found[j].user = u
      BY <2>1, <3>1 DEF Listed
    <3>3. u \in UsersOf(next)
      BY <1>4, <3>2 DEF found, Picks
    <3> QED
      BY <2>1, <3>3
  <2>4. CASE ~(i <= Reach(n))
    BY <2>1, <2>4
  <2>5. i \in Nat
    OBVIOUS
  <2> QED
    BY <1>3, <2>2, <2>3, <2>4, <2>5
<1>6. ASSUME IsLast(Len(found)), NEW u \in Wanted(w)
      PROVE  u \in UsersOf(next)
  <2>1. PICK i \in 1..Len(hub) : hub[i] = u /\ (i <= Reach(n) => u \in UsersOf(next))
    BY <1>5
  <2>2. Len(hub) \in Nat /\ Len(hub) < Reach(n)
    BY <1>2, <1>6 DEF HubTypes
  <2>3. i <= Reach(n)
    BY <1>3, <2>2
  <2> QED
    BY <2>1, <2>3
<1> QED
  BY <1>5, <1>6 DEF ReadOn, n, found, next

LEMMA NobodyIsMissed ==
  ASSUME MirrorInv, WalkInv, MissesNobody, MirrorActs \/ UNCHANGED mirrorVars
  PROVE  MissesNobody'
<1>1. /\ HubTypes /\ RowTypes /\ HubIsWhole
      /\ \A w \in Walks : Holding(w) /\ InTurn(w)
  BY DEF MirrorInv, WalkInv
<1>2. \A w \in Walks : Seen(w) /\ Only(w) /\ Covered(w)
  BY DEF MissesNobody
<1>3. \A n \in Nat : Reach(n) \in Nat
  BY ReachIsNat
<1>4. \A w \in Refreshes : w \in Walks /\ w \notin Searches
  BY HubAssumption DEF HubAssumption, Walks
<1>10. ASSUME NEW w \in Walks, Begins(w)
       PROVE  MissesNobody'
  <2> DEFINE lone == w \in Refreshes /\ Running = {}
  <2>1. /\ UNCHANGED <<hub, version, row, changes, failures>> /\ walk[w].at = "idle"
        /\ floor' = (IF lone THEN version ELSE floor)
        /\ walk'[w].at = "listing" /\ walk'[w].there = ToSet(hub) /\ walk'[w].alone = lone
        /\ walk'[w].page = walk[w].page
    BY <1>10, BeginsDoes, Zenon
  <2>2. \A v \in Walks \ {w} :
              /\ walk'[v].at = walk[v].at /\ walk'[v].page = walk[v].page /\ walk'[v].got = walk[v].got
              /\ walk'[v].queue = walk[v].queue
              /\ walk'[v].there = walk[v].there /\ walk'[v].shrunk = walk[v].shrunk
              /\ walk'[v].clean = walk[v].clean
              /\ walk'[v].alone = walk[v].alone \/ walk'[v].alone = (walk[v].alone /\ walk[v].at = "idle")
              /\ w \in Refreshes => walk'[v].alone = (walk[v].alone /\ walk[v].at = "idle")
    BY <1>10, BeginsDoes, Zenon
  <2>3. lone => \A v \in Refreshes : walk[v].at = "idle"
    BY DEF Running
  <2> HIDE DEF lone
  <2>4. Seen(w)'
    <3>1. walk[w].page = 1 /\ Reach(1 - 1) = 0
      BY <1>1, <2>1, HubAssumption DEF InTurn, Reach, HubAssumption
    <3>2. Limit(w)' = 0
      BY <2>1, <3>1 DEF Limit
    <3>3. \A u \in ToSet(hub) : \E i \in 1..Len(hub) : hub[i] = u /\ ~(i <= 0)
      <4>1. DOMAIN hub = 1..Len(hub)
        BY <1>1 DEF HubTypes
      <4> QED
        BY <4>1 DEF ToSet
    <3>4. Wanted(w)' \subseteq ToSet(hub)
      BY <2>1 DEF Wanted
    <3>5. hub' = hub /\ walk'[w].at # "found"
      BY <2>1
    <3> QED
      BY <3>2, <3>3, <3>4, <3>5, Zenon DEF Seen
  <2>5. Covered(w)'
    BY <2>1 DEF Covered
  <2>6. Only(w)'
    <3> SUFFICES ASSUME lone, NEW v \in Refreshes \ {w}
                 PROVE  walk'[v].at = "idle"
      BY <2>1 DEF Only
    <3> QED
      BY <1>4, <2>2, <2>3
  <2>7. ASSUME NEW v \in Walks, v # w
        PROVE  Seen(v)' /\ Only(v)' /\ Covered(v)'
    <3>1. /\ walk'[v].at = walk[v].at /\ walk'[v].page = walk[v].page /\ walk'[v].got = walk[v].got
          /\ walk'[v].queue = walk[v].queue
          /\ walk'[v].there = walk[v].there /\ walk'[v].shrunk = walk[v].shrunk
          /\ walk'[v].clean = walk[v].clean
          /\ walk'[v].alone => walk[v].alone
          /\ w \in Refreshes /\ walk'[v].alone => walk[v].at = "idle"
      BY <2>2, <2>7
    <3>2. Seen(v)'
      BY <1>2, <2>1, <3>1 DEF Seen, Whole, Wanted, Limit, UsersOf
    <3>3. Only(v)'
      <4> SUFFICES ASSUME v \in Refreshes, walk[v].at # "idle", walk[v].alone, w \notin Refreshes,
                          NEW x \in Refreshes \ {v}
                   PROVE  walk'[x].at = "idle"
        BY <3>1 DEF Only
      <4>1. walk[x].at = "idle" /\ x \in Walks \ {w}
        BY <1>2, <1>4, <2>7 DEF Only
      <4> QED
        BY <2>2, <4>1
    <3>4. Covered(v)'
      <4> SUFFICES ASSUME walk[v].at \in {"writing", "hydrating"}, Whole(v), walk'[v].alone,
                          NEW u \in walk[v].there
                   PROVE  (u \in UsersOf(walk[v].got) \/ u \in ToSet(walk[v].queue) \/ Mirrored(u))'
        BY <3>1 DEF Covered, Whole
      <4>1. walk[v].alone /\ w \notin Refreshes
        BY <3>1
      <4>2. row' = row /\ floor' = floor
        BY <2>1, <4>1 DEF lone
      <4>3. u \in UsersOf(walk[v].got) \/ u \in ToSet(walk[v].queue) \/ Mirrored(u)
        BY <1>2, <4>1 DEF Covered
      <4> QED
        BY <3>1, <4>2, <4>3 DEF Mirrored, UsersOf, ToSet
    <3> QED
      BY <3>2, <3>3, <3>4
  <2> QED
    BY <2>4, <2>5, <2>6, <2>7 DEF MissesNobody
<1>11. ASSUME NEW w \in Walks, ListsPage(w)
       PROVE  MissesNobody'
  <2> DEFINE found == PageAt(walk[w].page)
  <2>1. /\ w \in Refreshes /\ walk[w].at = "listing" /\ Alone(w)
        /\ UNCHANGED <<hub, version, row, floor, changes, failures>>
        /\ walk'[w].got = walk[w].got \o found
        /\ walk'[w].there = walk[w].there /\ walk'[w].shrunk = walk[w].shrunk
        /\ walk'[w].alone = walk[w].alone /\ walk'[w].clean = walk[w].clean
    BY <1>11, ListsPageDoes, Zenon DEF SameStart
  <2>2. /\ IsLast(Len(found)) => walk'[w].at \in {"hydrating", "writing"}
        /\ ~IsLast(Len(found)) => walk'[w].page = walk[w].page + 1 /\ walk'[w].at = "listing"
    <3>1. /\ IsLast(Len(found)) => walk'[w].at = IF walk'[w].got = <<>> THEN "hydrating" ELSE "writing"
          /\ ~IsLast(Len(found)) => walk'[w].page = walk[w].page + 1 /\ walk'[w].at = "listing"
      BY <1>11, ListsPageDoes, Zenon
    <3> QED
      BY <3>1
  <2>3. found \in Seq(CurrentEntries) /\ walk[w].page \in Nat \ {0}
    BY <1>1, PagesHold DEF Holding
  <2>4. Whole(w) =>
          /\ \A u \in walk[w].there : \E i \in 1..Len(hub) :
               hub[i] = u /\ (i <= Reach(walk[w].page) => u \in UsersOf(walk'[w].got))
          /\ IsLast(Len(found)) => walk[w].there \subseteq UsersOf(walk'[w].got)
    <3>1. Wanted(w) = walk[w].there
      BY <2>1 DEF Wanted
    <3>2. Picks(w, found)
      BY DEF Picks, UsersOf
    <3> HIDE DEF found
    <3>3. Whole(w) => ReadOn(w, walk'[w].got)
      BY <1>1, <1>2, <2>1, <2>3, <3>2, PagesAreRead
    <3> QED
      BY <3>1, <3>3 DEF ReadOn, found
  <2> HIDE DEF found
  <2>5. Seen(w)'
    <3>1. CASE IsLast(Len(found))
      BY <2>2, <3>1 DEF Seen
    <3>2. CASE ~IsLast(Len(found))
      <4>1. walk'[w].page = walk[w].page + 1 /\ (walk[w].page + 1) - 1 = walk[w].page /\ walk'[w].at = "listing"
        BY <2>2, <2>3, <3>2
      <4>2. Limit(w)' = Reach(walk[w].page)
        BY <4>1 DEF Limit, Reach
      <4>3. Wanted(w)' = walk[w].there /\ Whole(w)' = Whole(w) /\ hub' = hub /\ walk'[w].at # "found"
        BY <2>1, <4>1 DEF Wanted, Whole
      <4> QED
        BY <2>4, <4>2, <4>3, Zenon DEF Seen
    <3> QED
      BY <3>1, <3>2
  <2>6. Covered(w)'
    <3>1. CASE IsLast(Len(found))
      BY <2>1, <2>4, <3>1 DEF Covered, Whole
    <3>2. CASE ~IsLast(Len(found))
      BY <2>2, <3>2 DEF Covered
    <3> QED
      BY <3>1, <3>2
  <2>7. Only(w)'
    BY <1>2, <1>4, <2>1 DEF Only, Alone
  <2> QED
    BY <2>1, <2>5, <2>6, <2>7, OthersMissNobody
<1>12. ASSUME NEW w \in Walks, SearchesPage(w)
       PROVE  MissesNobody'
  <2> DEFINE found == PageAt(walk[w].page)
             none == [Rest EXCEPT !.at = "failed", !.clean = walk[w].clean]
  <2>1. /\ w \in Searches /\ walk[w].at = "listing" /\ Alone(w)
        /\ UNCHANGED <<hub, version, row, floor, changes, failures>>
    BY <1>12, SearchesPageDoes, Zenon
  <2>2. w \notin Refreshes
    BY <1>4, <2>1
  <2>3. CASE walk'[w] = none
    <3>1. walk'[w].at = "failed"
      BY <2>3, RestIs DEF WalkFields
    <3> HIDE DEF none
    <3> QED
      BY <2>1, <2>2, <3>1, RestMissesNobody, OthersMissNobody
  <2>4. CASE /\ walk'[w].got = walk[w].got \o WithCard(found)
             /\ walk'[w].there = walk[w].there /\ walk'[w].shrunk = walk[w].shrunk
             /\ walk'[w].clean = walk[w].clean
             /\ IsLast(Len(found)) => walk'[w].page = 1 /\ walk'[w].at = "found"
             /\ ~IsLast(Len(found)) => walk'[w].page = walk[w].page + 1 /\ walk'[w].at = "listing"
    <3>1. found \in Seq(CurrentEntries) /\ walk[w].page \in Nat \ {0}
      BY <1>1, PagesHold DEF Holding
    <3>2. Wanted(w) = walk[w].there \cap Carded /\ Wanted(w)' = Wanted(w) /\ Whole(w)' = Whole(w)
      BY <2>2, <2>4 DEF Wanted, Whole
    <3> HIDE DEF found
    <3>3. WithCard(found) \in Seq(CurrentEntries)
      BY <3>1, FilterKeeps
    <3>4. Picks(w, WithCard(found))
      <4> SUFFICES ASSUME NEW u \in Wanted(w), NEW i \in 1..Len(found), found[i].user = u
                   PROVE  u \in UsersOf(WithCard(found))
        BY DEF Picks, found
      <4>1. HasCard(found[i])
        BY <3>2 DEF HasCard
      <4>2. PICK j \in 1..Len(WithCard(found)) : WithCard(found)[j] = found[i]
        BY <3>1, <4>1, FilterKeeps
      <4> QED
        BY <4>2 DEF UsersOf
    <3>5. Whole(w) =>
            /\ \A u \in Wanted(w) : \E i \in 1..Len(hub) :
                 hub[i] = u /\ (i <= Reach(walk[w].page) => u \in UsersOf(walk'[w].got))
            /\ IsLast(Len(found)) => Wanted(w) \subseteq UsersOf(walk'[w].got)
      <4>1. Whole(w) => ReadOn(w, walk'[w].got)
        BY <1>1, <1>2, <2>1, <2>4, <3>3, <3>4, PagesAreRead DEF found
      <4> QED
        BY <4>1 DEF ReadOn, found
    <3>6. Seen(w)'
      <4>1. CASE IsLast(Len(found))
        BY <2>4, <3>2, <3>5, <4>1 DEF Seen, found
      <4>2. CASE ~IsLast(Len(found))
        <5>1. /\ walk'[w].page = walk[w].page + 1 /\ (walk[w].page + 1) - 1 = walk[w].page
              /\ walk'[w].at = "listing" /\ walk'[w].at # "found"
          BY <2>4, <3>1, <4>2 DEF found
        <5>2. Limit(w)' = Reach(walk[w].page)
          BY <5>1 DEF Limit, Reach
        <5>3. hub' = hub
          BY <2>1
        <5> QED
          BY <3>2, <3>5, <5>1, <5>2, <5>3, Zenon DEF Seen
      <4> QED
        BY <4>1, <4>2
    <3>7. Covered(w)'
      <4>1. walk'[w].at \notin {"writing", "hydrating"}
        BY <2>4 DEF found
      <4> QED
        BY <4>1 DEF Covered
    <3>8. Only(w)'
      BY <2>2 DEF Only
    <3> QED
      BY <2>1, <2>2, <3>6, <3>7, <3>8, OthersMissNobody
  <2> HIDE DEF none, found
  <2>5. \/ walk'[w] = none
        \/ /\ walk'[w].got = walk[w].got \o WithCard(found)
           /\ walk'[w].there = walk[w].there /\ walk'[w].shrunk = walk[w].shrunk
           /\ walk'[w].clean = walk[w].clean
           /\ IsLast(Len(found)) => walk'[w].page = 1 /\ walk'[w].at = "found"
           /\ ~IsLast(Len(found)) => walk'[w].page = walk[w].page + 1 /\ walk'[w].at = "listing"
    BY <1>12, SearchesPageDoes, Zenon DEF none, found, SameStart
  <2> QED
    BY <2>3, <2>4, <2>5, Zenon DEF none, found
\* A walk comes to an end.
<1>13. ASSUME NEW w \in Walks, Alone(w), UNCHANGED <<hub, row, floor>>,
              walk'[w].at \in {"idle", "failed"}, w \in Refreshes => walk'[w].at = "idle"
       PROVE  MissesNobody'
  <2>1. Seen(w)' /\ Only(w)' /\ Covered(w)'
    BY <1>13, RestMissesNobody
  <2>2. ASSUME NEW v \in Walks, v # w
        PROVE  Seen(v)' /\ Only(v)' /\ Covered(v)'
    <3>1. /\ Seen(v) /\ Only(v) /\ Covered(v) /\ walk'[v] = walk[v]
          /\ \A x \in Walks \ {w} : walk'[x] = walk[x]
      BY <1>2, <1>13, <2>2 DEF Alone
    <3>2. Seen(v)'
      BY <1>13, <3>1 DEF Seen, Whole, Wanted, Limit, UsersOf
    <3>3. Covered(v)'
      BY <1>13, <3>1 DEF Covered, Whole, Mirrored, UsersOf, ToSet
    <3>4. Only(v)'
      <4> SUFFICES ASSUME v \in Refreshes, walk[v].at # "idle", walk[v].alone, NEW x \in Refreshes \ {v}
                   PROVE  walk'[x].at = "idle"
        BY <3>1 DEF Only
      <4>1. x \in Walks /\ walk[x].at = "idle"
        BY <1>4, <3>1 DEF Only
      <4> QED
        BY <1>13, <3>1, <4>1
    <3> QED
      BY <3>2, <3>3, <3>4
  <2> QED
    BY <2>1, <2>2 DEF MissesNobody
<1>14. ASSUME NEW w \in Walks, ListFails(w)
       PROVE  MissesNobody'
  <2> DEFINE none == [Rest EXCEPT !.at = "failed", !.clean = FALSE]
  <2>1. /\ Alone(w) /\ UNCHANGED <<hub, version, row, floor, changes>>
        /\ (w \in Searches /\ walk'[w] = none) \/ walk'[w] = Rest
    BY <1>14, ListFailsDoes, Zenon
  <2>2. none.at = "failed" /\ Rest.at = "idle"
    BY RestIs DEF WalkFields
  <2> HIDE DEF none
  <2>3. walk'[w].at \in {"idle", "failed"} /\ (w \in Refreshes => walk'[w].at = "idle")
    BY <1>4, <2>1, <2>2
  <2> QED
    BY <1>13, <2>1, <2>3
<1>15. ASSUME NEW w \in Walks, SearchEnds(w) \/ Cancelled(w) \/ Finishes(w)
       PROVE  MissesNobody'
  <2>1. Alone(w) /\ walk'[w] = Rest /\ UNCHANGED <<hub, row, floor>>
    BY <1>15, RestsDoes, Zenon
  <2>2. walk'[w].at = "idle"
    BY <2>1, RestIs
  <2> QED
    BY <1>13, <2>1, <2>2
\* A refresh in its loops goes on.
<1>6. ASSUME NEW w \in Walks, walk[w].at \in {"writing", "hydrating"}, Alone(w),
             walk'[w].at \in {"writing", "hydrating"}, walk'[w].alone = walk[w].alone,
             UNCHANGED <<hub, floor>>, Covered(w)'
      PROVE  MissesNobody'
  <2>1. w \in Refreshes /\ walk[w].at # "idle"
    BY <1>6, LoopsAreOfRefreshes
  <2>2. Seen(w)'
    BY <1>6 DEF Seen
  <2>3. Only(w)'
    BY <1>2, <1>4, <1>6, <2>1 DEF Only, Alone
  <2> QED
    BY <1>6, <2>1, <2>2, <2>3, OthersMissNobody
\* A recent row with the e-mail is written over whatever was there.
<1>7. ASSUME NEW e \in RecentEntries, row' = [row EXCEPT ![e.user] = RowOf(e)], UNCHANGED floor
      PROVE  /\ \A u \in Users \ {e.user} : Mirrored(u)' = Mirrored(u)
             /\ e.mail => Mirrored(e.user)'
  <2>1. e.user \in Users /\ e.version >= floor[e.user]
    BY DEF RecentEntries
  <2>2. row'[e.user] = RowOf(e) /\ \A u \in Users \ {e.user} : row'[u] = row[u]
    BY <1>1, <1>7, <2>1 DEF RowTypes
  <2>3. RowOf(e).mail = e.mail /\ RowOf(e).version = e.version
    BY DEF RowOf
  <2>4. \A u \in Users \ {e.user} : Mirrored(u)' = Mirrored(u)
    BY <1>7, <2>2 DEF Mirrored
  <2>5. e.mail => Mirrored(e.user)'
    BY <1>7, <2>1, <2>2, <2>3 DEF Mirrored
  <2> QED
    BY <2>4, <2>5
<1>16. ASSUME NEW w \in Walks, Upserts(w) \/ UpsertFails(w)
       PROVE  MissesNobody'
  <2> DEFINE e == Head(walk[w].got)
  <2>1. /\ walk[w].at = "writing" /\ Alone(w)
        /\ UNCHANGED <<hub, version, floor, changes>>
        /\ walk'[w].got = Tail(walk[w].got)
        /\ walk'[w].there = walk[w].there /\ walk'[w].shrunk = walk[w].shrunk
        /\ walk'[w].alone = walk[w].alone
        /\ walk'[w].at = (IF walk'[w].got = <<>> THEN "hydrating" ELSE "writing")
    BY <1>16, LoopsDo, Zenon DEF SameStart
  <2>2. \/ /\ row' = [row EXCEPT ![e.user] = RowOf(e)] /\ walk'[w].clean = walk[w].clean
           /\ walk'[w].queue = IF e.mail THEN walk[w].queue ELSE Append(walk[w].queue, e.user)
        \/ UNCHANGED row /\ walk'[w].clean = FALSE /\ walk'[w].queue = walk[w].queue
    BY <1>16, LoopsDo, Zenon
  <2>3. /\ w \in Refreshes /\ walk[w].got \in Seq(RecentEntries) /\ walk[w].got # <<>>
        /\ walk[w].queue \in Seq(Users) /\ walk[w].there \subseteq Users
    BY <1>1, <2>1, LoopsAreOfRefreshes DEF MirrorInv, Keeps, Refreshing, Holding
  <2>4. e \in RecentEntries /\ e.user \in Users
    BY <2>3 DEF RecentEntries
  <2>5. UsersOf(walk[w].got) \subseteq UsersOf(walk'[w].got) \cup {e.user}
    BY <2>1, <2>3, FirstOrLater
  <2>6. walk'[w].at \in {"writing", "hydrating"}
    BY <2>1
  <2> HIDE DEF e
  <2>7. Covered(w)'
    <3> SUFFICES ASSUME Whole(w)', walk[w].alone, NEW u \in walk[w].there
                 PROVE  (u \in UsersOf(walk[w].got) \/ u \in ToSet(walk[w].queue) \/ Mirrored(u))'
      BY <2>1 DEF Covered
    <3>1. walk'[w].clean /\ ~walk'[w].shrunk
      BY DEF Whole
    <3>2. /\ row' = [row EXCEPT ![e.user] = RowOf(e)]
          /\ walk'[w].queue = (IF e.mail THEN walk[w].queue ELSE Append(walk[w].queue, e.user))
          /\ Whole(w)
      BY <2>1, <2>2, <3>1 DEF Whole
    <3>3. u \in UsersOf(walk[w].got) \/ u \in ToSet(walk[w].queue) \/ Mirrored(u)
      BY <1>2, <2>1, <3>2 DEF Covered
    <3>4. ToSet(walk[w].queue) \subseteq ToSet(walk'[w].queue)
      BY <2>3, <2>4, <3>2, AppendedIsIn
    <3>5. CASE u = e.user
      <4>1. CASE e.mail
        BY <1>7, <2>1, <2>4, <3>2, <3>5, <4>1
      <4>2. CASE ~e.mail
        <5>1. e.user \in ToSet(walk'[w].queue)
          BY <2>3, <2>4, <3>2, <4>2, AppendedIsIn
        <5> QED
          BY <3>5, <5>1
      <4> QED
        BY <4>1, <4>2
    <3>6. CASE u # e.user
      <4>1. u \in UsersOf(walk[w].got) => u \in UsersOf(walk'[w].got)
        BY <2>5, <3>6
      <4>2. Mirrored(u)' = Mirrored(u)
        BY <1>7, <2>1, <2>3, <2>4, <3>2, <3>6
      <4>3. UsersOf(walk[w].got)' = UsersOf(walk'[w].got)
        BY DEF UsersOf
      <4>4. ToSet(walk[w].queue)' = ToSet(walk'[w].queue)
        BY DEF ToSet
      <4> QED
        BY <3>3, <3>4, <4>1, <4>2, <4>3, <4>4
    <3> QED
      BY <3>5, <3>6
  <2> QED
    BY <1>6, <2>1, <2>6, <2>7
<1>17. ASSUME NEW w \in Walks, Fetches(w)
       PROVE  MissesNobody'
  <2>1. /\ walk[w].at = "hydrating" /\ Alone(w)
        /\ UNCHANGED <<hub, version, row, floor, changes, failures>>
        /\ walk'[w].at = "hydrating" /\ walk'[w].got = walk[w].got
        /\ walk'[w].queue = walk[w].queue /\ walk'[w].clean = walk[w].clean
        /\ walk'[w].there = walk[w].there /\ walk'[w].shrunk = walk[w].shrunk
        /\ walk'[w].alone = walk[w].alone
    BY <1>17, FetchesDoes, Zenon DEF SameStart
  <2>2. Covered(w)'
    <3>1. Covered(w) /\ (Whole(w)' <=> Whole(w)) /\ \A u : Mirrored(u)' = Mirrored(u)
      BY <1>2, <2>1 DEF Whole, Mirrored
    <3>2. UsersOf(walk[w].got)' = UsersOf(walk[w].got) /\ ToSet(walk[w].queue)' = ToSet(walk[w].queue)
      BY <2>1 DEF UsersOf, ToSet
    <3> QED
      BY <2>1, <3>1, <3>2, Zenon DEF Covered
  <2> QED
    BY <1>6, <2>1, <2>2
<1>18. ASSUME NEW w \in Walks, HydrateFails(w) \/ Hydrates(w)
       PROVE  MissesNobody'
  <2> DEFINE e == Head(walk[w].held)
  <2>1. /\ walk[w].at = "hydrating" /\ walk[w].queue # <<>> /\ Alone(w)
        /\ UNCHANGED <<hub, version, floor, changes>>
        /\ walk'[w].at = "hydrating"
        /\ walk'[w].got = walk[w].got /\ walk'[w].queue = Tail(walk[w].queue)
        /\ walk'[w].there = walk[w].there /\ walk'[w].shrunk = walk[w].shrunk
        /\ walk'[w].alone = walk[w].alone
    BY <1>18, HydrationsDo, Zenon DEF SameStart
  <2>2. \/ /\ walk[w].held # <<>> /\ row' = [row EXCEPT ![e.user] = RowOf(e)]
           /\ walk'[w].clean = (walk[w].clean /\ TRUE)
        \/ UNCHANGED row /\ walk'[w].clean = FALSE
    BY <1>18, HydrationsDo, Zenon
  <2>3. /\ w \in Refreshes /\ walk[w].held \in Seq(RecentEntries)
        /\ walk[w].queue \in Seq(Users) /\ walk[w].there \subseteq Users
        /\ walk[w].got = <<>>
    BY <1>1, <2>1, LoopsAreOfRefreshes DEF MirrorInv, Keeps, Refreshing, Holding, InTurn
  <2>4. walk[w].held # <<>> => e \in RecentEntries /\ e.user = Head(walk[w].queue) /\ e.mail
    BY <1>1, <2>3 DEF InTurn
  <2>5. ToSet(walk[w].queue) \subseteq ToSet(walk'[w].queue) \cup {Head(walk[w].queue)}
    BY <2>1, <2>3, FirstOrLater
  <2> HIDE DEF e
  <2>6. Covered(w)'
    <3> SUFFICES ASSUME Whole(w)', walk[w].alone, NEW u \in walk[w].there
                 PROVE  (u \in UsersOf(walk[w].got) \/ u \in ToSet(walk[w].queue) \/ Mirrored(u))'
      BY <2>1 DEF Covered
    <3>1. walk'[w].clean /\ ~walk'[w].shrunk
      BY DEF Whole
    <3>2. /\ walk[w].held # <<>> /\ row' = [row EXCEPT ![e.user] = RowOf(e)] /\ Whole(w)
      BY <2>1, <2>2, <3>1 DEF Whole
    <3>3. u \in UsersOf(walk[w].got) \/ u \in ToSet(walk[w].queue) \/ Mirrored(u)
      BY <1>2, <2>1, <3>2 DEF Covered
    <3>4. UsersOf(walk[w].got) = {}
      BY <2>3 DEF UsersOf
    <3>5. CASE u = e.user
      BY <1>7, <2>1, <2>4, <3>2, <3>5
    <3>6. CASE u # e.user
      <4>1. Mirrored(u)' = Mirrored(u)
        BY <1>7, <2>1, <2>3, <2>4, <3>2, <3>6
      <4>2. u \in ToSet(walk[w].queue) => u \in ToSet(walk'[w].queue)
        BY <2>4, <2>5, <3>2, <3>6
      <4>3. ToSet(walk[w].queue)' = ToSet(walk'[w].queue)
        BY DEF ToSet
      <4> QED
        BY <3>3, <3>4, <4>1, <4>2, <4>3
    <3> QED
      BY <3>5, <3>6
  <2>7. walk'[w].at \in {"writing", "hydrating"} /\ walk[w].at \in {"writing", "hydrating"}
    BY <2>1
  <2> QED
    BY <1>6, <2>1, <2>6, <2>7
\* The hub.
<1>8. ASSUME UNCHANGED <<row, floor>>,
             \A v \in Walks :
               /\ walk'[v].at = walk[v].at /\ walk'[v].page = walk[v].page /\ walk'[v].got = walk[v].got
               /\ walk'[v].queue = walk[v].queue /\ walk'[v].there = walk[v].there
               /\ walk'[v].clean = walk[v].clean /\ walk'[v].alone = walk[v].alone
               /\ walk[v].shrunk => walk'[v].shrunk,
             \/ \A v \in Walks : walk[v].at = "listing" => walk'[v].shrunk
             \/ \A k \in 1..Len(hub) : \E j \in 1..Len(hub') : hub'[j] = hub[k] /\ k <= j
      PROVE  MissesNobody'
  <2>1. ASSUME NEW v \in Walks
        PROVE  Seen(v)' /\ Only(v)' /\ Covered(v)'
    <3>1. Seen(v) /\ Only(v) /\ Covered(v)
      BY <1>2
    <3>2. Only(v)'
      BY <1>4, <1>8, <3>1 DEF Only
    <3>3. Whole(v)' => Whole(v)
      BY <1>8 DEF Whole
    <3>4. Covered(v)'
      BY <1>8, <3>1, <3>3 DEF Covered, Mirrored, UsersOf, ToSet
    <3>5. /\ Wanted(v)' = Wanted(v) /\ Limit(v)' = Limit(v)
          /\ UsersOf(walk[v].got)' = UsersOf(walk[v].got)
      <4>1. Wanted(v)' = Wanted(v)
        BY <1>8 DEF Wanted
      <4>2. walk'[v].page = walk[v].page /\ walk'[v].got = walk[v].got
        BY <1>8
      <4> QED
        BY <4>1, <4>2 DEF Limit, Reach, UsersOf
    <3>6. walk[v].at = "found" /\ Whole(v)' => Wanted(v) \subseteq UsersOf(walk[v].got)
      BY <3>1, <3>3 DEF Seen
    <3>7. ASSUME walk[v].at = "listing", Whole(v)', NEW u \in Wanted(v)
          PROVE  \E j \in 1..Len(hub') :
                   hub'[j] = u /\ (j <= Limit(v) => u \in UsersOf(walk[v].got))
      <4>1. \A k \in 1..Len(hub) : \E j \in 1..Len(hub') : hub'[j] = hub[k] /\ k <= j
        BY <1>8, <3>7 DEF Whole
      <4>2. PICK k \in 1..Len(hub) : hub[k] = u /\ (k <= Limit(v) => u \in UsersOf(walk[v].got))
        BY <3>1, <3>3, <3>7 DEF Seen
      <4>3. PICK j \in 1..Len(hub') : hub'[j] = hub[k] /\ k <= j
        BY <4>1
      <4>4. Limit(v) \in Nat
        <5>1. walk[v].page - 1 \in Nat
          BY <1>1 DEF Holding
        <5> QED
          BY <1>3, <5>1 DEF Limit
      <4>5. j <= Limit(v) => k <= Limit(v)
        BY <4>3, <4>4
      <4> QED
        BY <4>2, <4>3, <4>5
    <3>8. walk'[v].at = walk[v].at
      BY <1>8
    <3>9. Seen(v)'
      BY <3>5, <3>6, <3>7, <3>8, Zenon DEF Seen
    <3> QED
      BY <3>2, <3>4, <3>9
  <2> QED
    BY <2>1 DEF MissesNobody
<1>21. ASSUME UNCHANGED <<hub, row, walk, floor>>
       PROVE  MissesNobody'
  <2>1. \A k \in 1..Len(hub) : hub'[k] = hub[k] /\ k <= k /\ k \in 1..Len(hub')
    BY <1>21
  <2> QED
    BY <1>8, <1>21, <2>1
<1>22. ASSUME NEW u, Edits(u)
       PROVE  MissesNobody'
  BY <1>21, <1>22 DEF Edits
<1>23. ASSUME NEW u \in Users, Joins(u) \/ Leaves(u)
       PROVE  MissesNobody'
  <2>1. /\ UNCHANGED <<row, floor>>
        /\ \A v \in Walks :
             /\ walk'[v].at = walk[v].at /\ walk'[v].page = walk[v].page /\ walk'[v].got = walk[v].got
             /\ walk'[v].queue = walk[v].queue /\ walk'[v].there = walk[v].there
             /\ walk'[v].clean = walk[v].clean /\ walk'[v].alone = walk[v].alone
             /\ \/ Joins(u) /\ walk'[v].shrunk = walk[v].shrunk
                \/ Leaves(u) /\ walk'[v].shrunk = (walk[v].shrunk \/ walk[v].at = "listing")
    BY <1>23, HubMovesDo, Zenon
  <2>2. CASE Joins(u)
    <3>1. PICK i \in 1..(Len(hub) + 1) : hub' = InsertAt(hub, i, u)
      BY <2>2 DEF Joins
    <3>2. u \notin ToSet(hub) /\ hub \in Seq(Users) /\ IsInjective(hub)
      BY <1>1, <2>2 DEF Joins, HubTypes, HubIsWhole
    <3>3. \A k \in 1..Len(hub) : \E j \in 1..Len(hub') : hub'[j] = hub[k] /\ k <= j
      BY <3>1, <3>2, InsertingShifts
    <3>4. UNCHANGED walk
      BY <2>2 DEF Joins
    <3> QED
      BY <1>8, <2>1, <3>3, <3>4
  <2>3. CASE Leaves(u)
    <3>1. \A v \in Walks : walk'[v].shrunk = (walk[v].shrunk \/ walk[v].at = "listing")
      <4>1. \A v \in Walks : DOMAIN walk[v] = WalkFields
        BY WalksAre
      <4>2. walk' = [v \in Walks |-> [walk[v] EXCEPT !.shrunk = @ \/ walk[v].at = "listing"]]
        BY <2>3 DEF Leaves
      <4> QED
        BY <4>1, <4>2 DEF WalkFields
    <3>2. \A v \in Walks : /\ walk[v].shrunk => walk'[v].shrunk
                           /\ walk[v].at = "listing" => walk'[v].shrunk
      BY <3>1
    <3> QED
      BY <1>8, <2>1, <3>2
  <2> QED
    BY <1>23, <2>2, <2>3
<1>24. ASSUME UNCHANGED mirrorVars
       PROVE  MissesNobody'
  BY <1>21, <1>24 DEF mirrorVars
<1> QED
  BY <1>10, <1>11, <1>12, <1>14, <1>15, <1>16, <1>17, <1>18, <1>22, <1>23, <1>24, Zenon
     DEF MirrorActs

\* A refresh that had the mirror to itself, lost no call and saw nobody leave
\* while it listed ends with everybody who was there in the mirror, as recent
\* as its start and with the e-mail; a search under the same terms has found
\* every user who carries a card.  For any directory, any page size and any
\* number of refreshes and searches that come and go meanwhile.
THEOREM NobodyIsLeftOut == DeskSpec => WalksAreWhole
<1> DEFINE All == \A w \in Walks : (walk[w].clean /\ ~walk[w].shrunk) =>
                     /\ (Finishes(w) /\ walk[w].alone) =>
                          \A u \in walk[w].there : row[u].mail /\ row[u].version >= floor[u]
                     /\ (walk[w].at = "found") =>
                          walk[w].there \cap Carded \subseteq UsersOf(walk[w].got)
           AllInv == MirrorInv /\ WalkInv /\ MissesNobody
<1>1. DeskInit => AllInv
  BY MirrorStarts, WalksStart, NobodyMissedAtFirst
<1>2. AllInv /\ [DeskNext]_deskVars => MirrorActs \/ UNCHANGED mirrorVars
  BY MirrorProjection, Zenon DEF MirrorInv
<1>3. AllInv /\ [DeskNext]_deskVars => AllInv'
  BY <1>2, MirrorSteps, WalksStep, NobodyIsMissed, Zenon
<1>4. AllInv => All
  <2> SUFFICES ASSUME AllInv, NEW w \in Walks, walk[w].clean, ~walk[w].shrunk
               PROVE  /\ (Finishes(w) /\ walk[w].alone) =>
                           \A u \in walk[w].there : row[u].mail /\ row[u].version >= floor[u]
                      /\ (walk[w].at = "found") =>
                           walk[w].there \cap Carded \subseteq UsersOf(walk[w].got)
    BY Zenon
  <2>1. Seen(w) /\ Covered(w) /\ InTurn(w) /\ Whole(w)
    BY DEF MissesNobody, WalkInv, Whole
  <2>2. ASSUME Finishes(w), walk[w].alone, NEW u \in walk[w].there
        PROVE  row[u].mail /\ row[u].version >= floor[u]
    <3>1. walk[w].at = "hydrating" /\ walk[w].queue = <<>> /\ walk[w].got = <<>>
      BY <2>1, <2>2 DEF Finishes, InTurn
    <3>2. UsersOf(walk[w].got) = {} /\ ToSet(walk[w].queue) = {}
      BY <3>1 DEF UsersOf, ToSet
    <3> QED
      BY <2>1, <2>2, <3>1, <3>2 DEF Covered, Mirrored
  <2>3. ASSUME walk[w].at = "found"
        PROVE  walk[w].there \cap Carded \subseteq UsersOf(walk[w].got)
    BY <2>1, <2>3 DEF Seen, Wanted
  <2> QED
    BY <2>2, <2>3
<1> QED
  BY <1>1, <1>3, <1>4, PTL DEF DeskSpec, WalksAreWhole

-----------------------------------------------------------------------------
(* The types.                                                               *)

\* Nothing is later than now or newer than the table, within the bounds.
CacheBounds ==
  /\ now <= MaxNow /\ replaced \in Seq(0..MaxNow) /\ Len(replaced) <= MaxWrites
  /\ shown \in 0..Current /\ entry.body <= Current
  /\ announced \subseteq [at : 0..now, version : 1..Current]
  /\ browser \in [Readers -> [body : 0..Current, until : 0..now + MaxAge]]
  /\ \A r \in Readers : reader[r].body <= Current /\ reader[r].since <= now

LEMMA BoundsAtFirst == DeskInit => CacheBounds /\ owing \subseteq Writers
<1> SUFFICES ASSUME CacheInit
             PROVE  CacheBounds /\ owing \subseteq Writers
  BY DEF DeskInit
<1>1. Len(replaced) = 0 /\ replaced \in Seq(0..MaxNow) /\ owing = {}
  BY DEF CacheInit
<1>2. \A r \in Readers : reader[r].body = 0 /\ reader[r].since = 0
  BY DEF CacheInit, Away
<1>3. browser \in [Readers -> [body : 0..Current, until : 0..now + MaxAge]]
  <2>1. 0 \in 0..Current /\ 0 \in 0..now + MaxAge
    BY <1>1, PageAssumption DEF CacheInit, Current, PageAssumption
  <2> QED
    BY <2>1 DEF CacheInit, Nothing
<1> QED
  BY <1>1, <1>2, <1>3, PageAssumption DEF CacheInit, CacheBounds, Current, PageAssumption

LEMMA BoundsStay ==
  ASSUME CacheInv, CacheBounds, CacheActs \/ UNCHANGED cacheVars
  PROVE  CacheBounds'
<1>1. /\ now \in Nat /\ replaced \in Seq(Nat) /\ MaxNow \in Nat /\ MaxWrites \in Nat
      /\ entry.body \in Nat /\ entry.body <= Current /\ shown \in 0..Current
      /\ now <= MaxNow /\ replaced \in Seq(0..MaxNow) /\ Len(replaced) <= MaxWrites
      /\ Current \in Nat /\ Len(replaced) \in Nat /\ Current >= 1 /\ MaxAge \in Nat
      /\ announced \subseteq [at : 0..now, version : 1..Current]
      /\ browser \in [Readers -> [body : 0..Current, until : 0..now + MaxAge]]
  BY PageAssumption DEF CacheInv, CacheTypes, CacheBounds, PageAssumption, Current
<1>2. reader \in [Readers -> [at : {"away", "missed", "rendering"}, body : Nat, since : Nat]]
  BY DEF CacheInv, CacheTypes
<1>3. \A r \in Readers : /\ reader[r].body \in Nat /\ reader[r].since \in Nat
                         /\ reader[r].body <= Current /\ reader[r].since <= now
  BY <1>2 DEF CacheBounds
\* The table and the clock stay.
<1>4. ASSUME UNCHANGED <<now, replaced>>, entry'.body <= Current, shown' \in 0..Current,
             announced' \subseteq [at : 0..now, version : 1..Current],
             browser' \in [Readers -> [body : 0..Current, until : 0..now + MaxAge]],
             \A r \in Readers : reader'[r].body <= Current /\ reader'[r].since <= now
      PROVE  CacheBounds'
  <2>1. Current' = Current
    BY <1>4 DEF Current
  <2> QED
    BY <1>1, <1>4, <2>1 DEF CacheBounds
<1>5. CASE TimePasses
  <2>1. /\ now < MaxNow /\ now' = now + 1 /\ shown' = 0 /\ UNCHANGED <<replaced, announced, entry, reader>>
        /\ browser' = [r \in Readers |-> IF now' < browser[r].until THEN browser[r] ELSE Nothing]
    BY <1>5 DEF TimePasses, Quietly
  <2>2. Current' = Current
    BY <2>1 DEF Current
  <2>3. now' <= MaxNow /\ \A r \in Readers : reader'[r].body <= Current /\ reader'[r].since <= now'
    BY <1>1, <1>3, <2>1
  <2>4. announced' \subseteq [at : 0..now', version : 1..Current']
    <3>1. \A k : k \in 0..now => k \in 0..now'
      BY <1>1, <2>1
    <3> QED
      BY <1>1, <2>1, <2>2, <3>1
  <2>5. browser' \in [Readers -> [body : 0..Current', until : 0..now' + MaxAge]]
    <3>1. \A k : k \in 0..now + MaxAge => k \in 0..now' + MaxAge
      BY <1>1, <2>1
    <3>2. 0 \in 0..Current /\ 0 \in 0..now' + MaxAge
      BY <1>1, <2>1
    <3> QED
      BY <1>1, <2>1, <2>2, <3>1, <3>2 DEF Nothing
  <2> QED
    BY <1>1, <2>1, <2>2, <2>3, <2>4, <2>5 DEF CacheBounds
<1>6. CASE Writes
  <2>1. /\ Len(replaced) < MaxWrites /\ replaced' = Append(replaced, now) /\ shown' = 0
        /\ UNCHANGED <<now, announced, entry, browser, reader>>
    BY <1>6 DEF Writes, Quietly
  <2>2. now \in 0..MaxNow
    BY <1>1
  <2>3. replaced' \in Seq(0..MaxNow) /\ Len(replaced') = Len(replaced) + 1
    BY <1>1, <2>1, <2>2
  <2>4. Current' = Current + 1
    BY <1>1, <2>3 DEF Current
  <2>5. Len(replaced') <= MaxWrites /\ entry'.body <= Current' /\ shown' \in 0..Current'
    BY <1>1, <2>1, <2>3, <2>4
  <2>6. ASSUME NEW r \in Readers
        PROVE  reader'[r].body <= Current' /\ reader'[r].since <= now'
    <3>1. reader' = reader /\ now' = now
      BY <2>1
    <3>2. reader[r].body \in Nat /\ reader[r].body <= Current /\ reader[r].since <= now /\ Current \in Nat
      BY <1>1, <1>3
    <3>3. reader[r].body <= Current + 1
      BY <3>2
    <3> QED
      BY <2>4, <3>1, <3>2, <3>3, Zenon
  <2>7. \A k : (k \in 0..Current => k \in 0..Current') /\ (k \in 1..Current => k \in 1..Current')
    BY <1>1, <2>4
  <2>8. announced' \subseteq [at : 0..now', version : 1..Current']
    BY <1>1, <2>1, <2>7
  <2>9. browser' \in [Readers -> [body : 0..Current', until : 0..now' + MaxAge]]
    BY <1>1, <2>1, <2>7
  <2> QED
    BY <1>1, <2>1, <2>3, <2>5, <2>6, <2>8, <2>9 DEF CacheBounds
<1>7. CASE Invalidate
  <2>1. [at |-> now, version |-> Current] \in [at : 0..now, version : 1..Current]
    BY <1>1
  <2>2. announced' \subseteq [at : 0..now, version : 1..Current]
    BY <1>1, <1>7, <2>1 DEF Invalidate
  <2> QED
    BY <1>1, <1>3, <1>4, <1>7, <2>2 DEF Invalidate, Quietly
<1>8. CASE UNCHANGED cacheVars
  BY <1>1, <1>3, <1>4, <1>8 DEF cacheVars
<1>9. ASSUME NEW r \in Readers,
             ShowsAgain(r) \/ Hits(r) \/ Misses(r) \/ ReadsTable(r) \/ ReadFails(r) \/ Stores(r)
      PROVE  CacheBounds'
  <2>1. UNCHANGED <<now, replaced, announced>>
    BY <1>9 DEF ShowsAgain, Hits, Misses, ReadsTable, ReadFails, Stores
  <2>6. reader[r].body \in 0..Current /\ entry.body \in 0..Current /\ now + MaxAge \in 0..now + MaxAge
    BY <1>1, <1>3
  <2>7. browser[r].body \in 0..Current
    BY <1>1
  <2>2. entry'.body <= Current /\ shown' \in 0..Current
    BY <1>1, <1>3, <1>9, <2>6, <2>7
    DEF ShowsAgain, Hits, Sent, Misses, ReadsTable, ReadFails, Stores, Quietly, Stored
  <2>8. browser' \in [Readers -> [body : 0..Current, until : 0..now + MaxAge]]
    <3>1. \A b \in 0..Current :
            [body |-> b, until |-> now + MaxAge] \in [body : 0..Current, until : 0..now + MaxAge]
      BY <2>6
    <3>2. browser' = browser \/ Sent(r, entry.body) \/ Sent(r, reader[r].body)
      BY <1>9 DEF ShowsAgain, Hits, Misses, ReadsTable, ReadFails, Stores
    <3> QED
      BY <1>1, <2>6, <3>1, <3>2 DEF Sent
  <2>3. \A x \in Readers \ {r} : reader'[x] = reader[x]
    BY <1>2, <1>9 DEF ShowsAgain, Hits, Misses, ReadsTable, ReadFails, Stores
  <2>4. reader'[r].body <= Current /\ reader'[r].since <= now
    <3>1. CASE ShowsAgain(r) \/ Hits(r)
      BY <1>3, <3>1 DEF ShowsAgain, Hits
    <3>2. CASE Misses(r)
      <4>1. reader'[r] = [reader[r] EXCEPT !.at = "missed"]
        BY <1>2, <3>2 DEF Misses
      <4> QED
        BY <1>2, <1>3, <4>1
    <3>3. CASE ReadsTable(r)
      <4>1. reader'[r] = [at |-> "rendering", body |-> Current, since |-> now]
        BY <1>2, <3>3 DEF ReadsTable
      <4> QED
        BY <1>1, <4>1
    <3>4. CASE ReadFails(r) \/ Stores(r)
      <4>1. reader'[r] = Away
        BY <1>2, <3>4 DEF ReadFails, Stores
      <4> QED
        BY <1>1, <4>1 DEF Away
    <3> QED
      BY <1>9, <3>1, <3>2, <3>3, <3>4
  <2>5. \A x \in Readers : reader'[x].body <= Current /\ reader'[x].since <= now
    BY <1>3, <2>3, <2>4
  <2> QED
    BY <1>1, <1>4, <2>1, <2>2, <2>5, <2>8
<1> QED
  BY <1>5, <1>6, <1>7, <1>8, <1>9, Zenon DEF CacheActs

(* Only who has written owes an announcement.                               *)
LEMMA OwingStays == owing \subseteq Writers /\ [DeskNext]_deskVars => (owing \subseteq Writers)'
<1> SUFFICES ASSUME owing \subseteq Writers, [DeskNext]_deskVars
             PROVE  owing' \subseteq Writers
  OBVIOUS
<1>1. MirrorStep \/ UNCHANGED deskVars => UNCHANGED owing
  BY Zenon DEF MirrorStep, MirrorAlone, deskVars, cacheVars
<1>2. EnrolStep => UNCHANGED owing
  BY Zenon DEF EnrolStep, EnrolRound, EnrolAlone, TableGrows, LoopWrites, cacheVars
<1>3. OverrideStep => UNCHANGED owing
  BY Zenon DEF OverrideStep, cacheVars
<1>4. ASSUME CacheStep
      PROVE  UNCHANGED owing \/ \E w \in Writers : owing' = owing \cup {w} \/ owing' = owing \ {w}
  BY <1>4, Zenon DEF CacheStep, TimePasses, LoopWrites, StaffWrites, Invalidates, ShowsAgain,
     Hits, Misses, ReadsTable, ReadFails, Stores
<1>5. owing' = owing \/ \E w \in Writers : owing' = owing \cup {w} \/ owing' = owing \ {w}
  BY <1>1, <1>2, <1>3, <1>4, Zenon DEF DeskNext
<1> QED
  BY <1>5

LEMMA CacheTypesOK == CacheInv /\ CacheBounds /\ owing \subseteq Writers => CacheTypeOK
<1> SUFFICES ASSUME CacheInv, CacheBounds, owing \subseteq Writers
             PROVE  CacheTypeOK
  OBVIOUS
<1>1. /\ now \in Nat /\ replaced \in Seq(Nat) /\ MaxNow \in Nat /\ ver \in Nat
      /\ entry \in [body : Nat, ver : Nat, expires : Nat]
      /\ entry.ver <= ver
      /\ reader \in [Readers -> [at : {"away", "missed", "rendering"}, body : Nat, since : Nat]]
  BY PageAssumption DEF CacheInv, CacheTypes, PageAssumption
<1>2. Len(replaced) \in Nat /\ Current \in Nat
  BY <1>1 DEF Current
<1>3. entry \in [body : 0..Current, ver : 0..ver, expires : Nat]
  <2>1. entry.body \in 0..Current /\ entry.ver \in 0..ver /\ entry.expires \in Nat
    BY <1>1, <1>2 DEF CacheBounds
  <2> QED
    BY <1>1, <2>1
<1>4. reader \in [Readers -> [at : {"away", "missed", "rendering"}, body : 0..Current, since : 0..now]]
  <2>1. ASSUME NEW r \in Readers
        PROVE  reader[r] \in [at : {"away", "missed", "rendering"}, body : 0..Current, since : 0..now]
    <3>1. reader[r] \in [at : {"away", "missed", "rendering"}, body : Nat, since : Nat]
      BY <1>1
    <3>2. reader[r].body \in 0..Current /\ reader[r].since \in 0..now
      BY <1>1, <1>2, <3>1 DEF CacheBounds
    <3> QED
      BY <3>1, <3>2
  <2> QED
    BY <1>1, <2>1
<1>5. ASSUME NEW r \in Readers, reader[r].at = "rendering"
      PROVE  reader[r].body \in 1..Current
  <2>1. r \in Rendering
    BY <1>5 DEF Rendering
  <2>2. reader[r].body \in 1..Current
    BY <2>1 DEF CacheInv, Rendered
  <2> QED
    BY <1>1, <1>2, <2>2
<1> QED
  BY <1>1, <1>2, <1>3, <1>4, <1>5 DEF CacheTypeOK, CacheBounds

OverrideCounts == astray \in BOOLEAN /\ edits \in 0..MaxEdits

LEMMA CountsAtFirst == DeskInit => OverrideCounts
<1> SUFFICES ASSUME NEW m \in Mixes, OverrideInit(MaxEdits - m.edits)
             PROVE  OverrideCounts
  BY DEF DeskInit
<1>1. m.edits \in 0..MaxEdits /\ MaxEdits \in Nat
  BY MixAssumption, OverrideAssumption DEF MixAssumption, OverrideAssumption
<1>2. astray = FALSE /\ edits = MaxEdits - m.edits
  BY DEF OverrideInit
<1>3. edits \in 0..MaxEdits
  BY <1>1, <1>2
<1>4. astray \in BOOLEAN
  BY <1>2
<1> QED
  BY <1>3, <1>4, Zenon DEF OverrideCounts

LEMMA CountsStay == OverrideCounts /\ (OverrideActs \/ UNCHANGED overrideVars) => OverrideCounts'
<1> SUFFICES ASSUME OverrideCounts, OverrideActs \/ UNCHANGED overrideVars
             PROVE  OverrideCounts'
  OBVIOUS
<1>1. astray' \in BOOLEAN
  BY Zenon DEF OverrideCounts, OverrideActs, overrideVars, Changes, Marshals, Saves, SaveFails, Reloads
<1>2. edits' = edits \/ (edits < MaxEdits /\ edits' = edits + 1)
  BY Zenon DEF OverrideActs, overrideVars, Changes, Marshals, Saves, SaveFails, Reloads
<1>3. edits' \in 0..MaxEdits
  <2>1. edits \in 0..MaxEdits /\ MaxEdits \in Nat
    BY OverrideAssumption, Zenon DEF OverrideCounts, OverrideAssumption
  <2> QED
    BY <1>2, <2>1
<1> QED
  BY <1>1, <1>3, Zenon DEF OverrideCounts

LEMMA MirrorTypesOK == MirrorInv /\ WalkInv => MirrorTypeOK
<1> SUFFICES ASSUME MirrorInv, WalkInv
             PROVE  MirrorTypeOK
  OBVIOUS
<1>1. /\ HubTypes /\ RowTypes /\ HubIsWhole
      /\ \A w \in Walks : Holding(w) /\ InTurn(w)
  BY DEF MirrorInv, WalkInv
<1>2. \A u \in Users : version[u] \in Versions /\ floor[u] \in Versions /\ row[u].version \in Versions
  <2>1. changes \in Nat /\ MaxChanges \in Nat /\ changes <= MaxChanges
    BY <1>1, HubAssumption DEF HubIsWhole, HubAssumption
  <2> QED
    BY <1>1, <2>1 DEF HubTypes, RowTypes, HubIsWhole, Versions
<1>3. \A e \in CurrentEntries : e \in Entries
  <2>1. ASSUME NEW e \in CurrentEntries
        PROVE  e \in Entries
    <3>1. e \in [user : Users, version : Nat, mail : BOOLEAN] /\ e.version <= version[e.user]
      BY DEF CurrentEntries
    <3>2. version[e.user] \in Versions
      BY <1>2, <3>1
    <3>3. e.version \in Versions
      BY <3>1, <3>2, HubAssumption DEF Versions, HubAssumption
    <3> QED
      BY <3>1, <3>3 DEF Entries
  <2> QED
    BY <2>1
<1>4. row \in [Users -> [version : Versions, mail : BOOLEAN]]
  <2>1. ASSUME NEW u \in Users
        PROVE  row[u] \in [version : Versions, mail : BOOLEAN]
    <3>1. row[u] \in [version : Nat, mail : BOOLEAN]
      BY <1>1 DEF RowTypes
    <3> QED
      BY <1>2, <3>1
  <2> QED
    BY <1>1, <2>1 DEF RowTypes
<1>5. ASSUME NEW w \in Walks
      PROVE  /\ walk[w].got \in Seq(Entries) /\ walk[w].held \in Seq(Entries)
             /\ walk[w].queue \in Seq(Users)
             /\ walk[w].at \in {"idle", "listing", "writing", "hydrating", "found", "failed"}
             /\ walk[w].at = "writing" => walk[w].got # <<>>
             /\ walk[w].held # <<>> => Head(walk[w].held).user = Head(walk[w].queue)
  <2>1. Holding(w) /\ InTurn(w)
    BY <1>1
  <2>2. walk[w].got \in Seq(Entries) /\ walk[w].held \in Seq(Entries)
    BY <1>3, <2>1 DEF Holding
  <2> QED
    BY <2>1, <2>2, Zenon DEF Holding, InTurn
<1>6. version \in [Users -> Versions] /\ floor \in [Users -> Versions]
  BY <1>1, <1>2 DEF HubTypes
<1> QED
  BY <1>1, <1>4, <1>5, <1>6 DEF MirrorTypeOK, HubTypes, HubIsWhole

\* The variables of the four parts have their types, within the bounds a mix
\* sets: nobody is listed twice, no copy is newer than its record, and the
\* record a refresh holds is that of the next user in its queue.
THEOREM TypesOK == DeskSpec => []DeskTypeOK
<1> DEFINE AllInv == /\ MirrorInv /\ WalkInv /\ EnrolInv
                     /\ CacheInv /\ CacheBounds /\ owing \subseteq Writers
                     /\ OverrideInv /\ OverrideCounts
<1>1. DeskInit => AllInv
  BY MirrorStarts, WalksStart, EnrolStarts, CacheStarts, BoundsAtFirst, OverridesStart, CountsAtFirst, Zenon
<1>2. ASSUME AllInv, [DeskNext]_deskVars
      PROVE  AllInv'
  <2>1. MirrorActs \/ UNCHANGED mirrorVars
    BY <1>2, MirrorProjection, Zenon DEF MirrorInv
  <2>2. MirrorInv' /\ WalkInv'
    BY <1>2, <2>1, MirrorSteps, WalksStep, Zenon
  <2>3. EnrolInv'
    BY <1>2, EnrolProjection, EnrolsStep, Zenon
  <2>4. CacheInv' /\ CacheBounds'
    BY <1>2, CacheProjection, CacheSteps, BoundsStay, Zenon
  <2>5. (owing \subseteq Writers)'
    BY <1>2, OwingStays, Zenon
  <2>6. OverrideInv' /\ OverrideCounts'
    BY <1>2, OverrideProjection, OverridesStep, CountsStay, Zenon
  <2> QED
    BY <2>2, <2>3, <2>4, <2>5, <2>6, Zenon
<1>3. AllInv => DeskTypeOK
  <2>1. OverrideInv /\ OverrideCounts => OverrideTypeOK
    BY Zenon DEF OverrideInv, OverrideTypes, MapTypes, OverrideCounts, OverrideTypeOK
  <2>2. EnrolInv => EnrolTypeOK
    BY Zenon DEF EnrolInv
  <2> QED
    BY <2>1, <2>2, MirrorTypesOK, CacheTypesOK, Zenon DEF DeskTypeOK
<1> QED
  BY <1>1, <1>2, <1>3, PTL DEF DeskSpec
=============================================================================

----------------------------- MODULE Enrollment -----------------------------
(* Binding a card to a user of UA-Hub at a reader (/ui/members/new).        *)
(*                                                                          *)
(* A panel in the browser of the staff starts an enrolment session at the   *)
(* hub, polls it until a card is tapped, and replaces itself by what each   *)
(* poll answers; a Cancel button ends it.  The handler of a poll asks the   *)
(* hub three times (session, owner of the card, binding) and writes the row *)
(* of the members' table.  A panel sends one poll at a time, but a          *)
(* cancellation may be under way beside it; an answer that comes after the  *)
(* panel was replaced is dropped (htmx 2.0: its target has left the page).  *)
EXTENDS Naturals, FiniteSets

CONSTANTS
  Panels,        \* the panels the staff has open
  Enrols,        \* Enrols[p]: the user whom panel p enrols
  Cards,         \* the cards
  Nobody,        \* no user, no card
  MaxPolls,      \* maxEnrollmentPolls (120 in the code)
  MaxSessions,   \* bound: sessions started at the hub
  MaxTroubles    \* bound: failed calls, acts of the hub's admin, closed pages

ASSUME EnrolAssumption ==
  /\ MaxPolls \in Nat /\ MaxSessions \in Nat /\ MaxTroubles \in Nat
  /\ DOMAIN Enrols = Panels
  /\ \A p \in Panels : Enrols[p] # Nobody

VARIABLES
  holder,    \* holder[c]: whom the hub has bound card c to
  session,   \* session[s]: a session of the hub, the card tapped, who started it
  panel,     \* panel[p]: what the browser shows, and the poll it sends next
  poll,      \* poll[s]: the poll of session s under way
  cancel,    \* cancel[s]: the cancellation of session s under way
  unwatched, \* history: sessions a failed call or a closed page has left alone
  troubles

enrolVars == <<holder, session, panel, poll, cancel, unwatched, troubles>>

Sessions == 1..MaxSessions
People == {Enrols[p] : p \in Panels}
Holders == People \cup {Nobody}
Counts == 0..(MaxPolls + 1)

NoPoll == [at |-> "none", n |-> 0]

EnrolInit(troubled, over) ==
  /\ holder \in [Cards -> Holders]
  /\ session = [s \in Sessions |-> [state |-> IF s <= over THEN "closed" ELSE "unused",
                                     card |-> Nobody, by |-> Nobody]]
  /\ panel = [p \in Panels |-> [shows |-> "picker", session |-> 0, n |-> 0]]
  /\ poll = [s \in Sessions |-> NoPoll]
  /\ cancel = [s \in Sessions |-> "none"]
  /\ unwatched = {}
  /\ troubles = troubled

Troubles == troubles < MaxTroubles /\ troubles' = troubles + 1
Smooth == UNCHANGED troubles

\* Whom session s enrols, and the card it has.
User(s) == Enrols[session[s].by]
Card(s) == session[s].card

\* Whether a panel in a browser polls session s.
Shown(s) == \E p \in Panels : panel[p].shows = "polling" /\ panel[p].session = s

-----------------------------------------------------------------------------
(* Starting a session.                                                      *)

\* The hub opens its next session, for panel p.
Opens(s, p) ==
  /\ session[s].state = "unused"
  /\ \A t \in Sessions : t < s => session[t].state # "unused"
  /\ session' = [session EXCEPT ![s] = [state |-> "open", card |-> Nobody, by |-> p]]

\* The reader picker is shown at first, after a cancellation, and with the
\* message of a failure.
CanStart(p) == panel[p].shows \in {"picker", "failed"}

\* The mistake of handing the count on as it came.
PollingUncounted(s, n) == [shows |-> "polling", session |-> s, n |-> n]

\* EnrollmentPollingFragment: the panel polls session s next, with a count
\* one up from that of the poll that was answered.
Polling(s, n) == [shows |-> "polling", session |-> s, n |-> n + 1]

\* handleMembersNewEnrollStart.
Starts(p) ==
  /\ CanStart(p)
  /\ \E s \in Sessions : Opens(s, p) /\ panel' = [panel EXCEPT ![p] = Polling(s, 0)]
  /\ Smooth /\ UNCHANGED <<holder, poll, cancel, unwatched>>

\* The call fails, with or without a session opened.
StartFails(p) ==
  /\ CanStart(p) /\ Troubles
  /\ panel' = [panel EXCEPT ![p].shows = "failed"]
  /\ \/ UNCHANGED <<session, unwatched>>
     \/ \E s \in Sessions : Opens(s, p) /\ unwatched' = unwatched \cup {s}
  /\ UNCHANGED <<holder, poll, cancel>>

-----------------------------------------------------------------------------
(* A poll.                                                                  *)

\* The browser sends the next poll of session s.
Polls(s) ==
  /\ poll[s].at = "none"
  /\ \E p \in Panels : /\ panel[p].shows = "polling" /\ panel[p].session = s
                       /\ poll' = [poll EXCEPT ![s] = [at |-> "asking", n |-> panel[p].n]]
  /\ Smooth /\ UNCHANGED <<holder, session, panel, cancel, unwatched>>

\* DeleteNFCEnrollmentSession: an error is ignored, or only logged.
Deletes(s) ==
  \/ /\ session' = [session EXCEPT ![s].state = "closed"]
     /\ Smooth /\ UNCHANGED unwatched
  \/ /\ Troubles
     /\ unwatched' = unwatched \cup {s}
     /\ UNCHANGED session

Goes(s, to) == poll' = [poll EXCEPT ![s].at = to]

\* Whether the poll is past the cap.
TooMany(n) == n > MaxPolls

\* The mistake of giving up without telling the hub.
TimesOutSilently(s) ==
  /\ poll[s].at = "asking" /\ TooMany(poll[s].n)
  /\ Goes(s, "failed")
  /\ Smooth /\ UNCHANGED <<holder, session, panel, cancel, unwatched>>

\* The session is deleted and the panel told that nobody tapped.
TimesOut(s) ==
  /\ poll[s].at = "asking" /\ TooMany(poll[s].n)
  /\ Deletes(s) /\ Goes(s, "failed")
  /\ UNCHANGED <<holder, panel, cancel>>

Asks(s) == poll[s].at = "asking" /\ ~TooMany(poll[s].n)

\* GetNFCEnrollmentStatus has no card (of a session the hub has closed,
\* that is one of two answers).
StillWaits(s) ==
  /\ Asks(s) /\ session[s].state # "tapped"
  /\ Goes(s, "polling")
  /\ Smooth /\ UNCHANGED <<holder, session, panel, cancel, unwatched>>

\* It fails: always a possibility, and the other answer for a closed session.
StatusFails(s) ==
  /\ Asks(s)
  /\ \/ session[s].state = "closed" /\ Smooth /\ UNCHANGED unwatched
     \/ Troubles /\ unwatched' = unwatched \cup {s}
  /\ Goes(s, "failed")
  /\ UNCHANGED <<holder, session, panel, cancel>>

Tapped(s) ==
  /\ Asks(s) /\ session[s].state = "tapped"
  /\ Goes(s, "checking")
  /\ Smooth /\ UNCHANGED <<holder, session, panel, cancel, unwatched>>

BoundElsewhere(s) == holder[Card(s)] \notin {Nobody, User(s)}

\* FetchNFCCardByToken names another user.
Collides(s) ==
  /\ poll[s].at = "checking" /\ BoundElsewhere(s)
  /\ Deletes(s) /\ Goes(s, "failed")
  /\ UNCHANGED <<holder, panel, cancel>>

\* It names this user or nobody, or it fails, which is no reason to stop.
NoCollision(s) ==
  /\ poll[s].at = "checking"
  /\ \/ ~BoundElsewhere(s) /\ Smooth
     \/ Troubles
  /\ Goes(s, "binding")
  /\ UNCHANGED <<holder, session, panel, cancel, unwatched>>

\* The mistake of assigning with force_add.
AcceptsForced(s) == TRUE

\* AssignNFCCard without force_add: the hub refuses a card bound elsewhere.
Accepts(s) == ~BoundElsewhere(s)

Assigns(s) ==
  /\ poll[s].at = "binding" /\ Accepts(s)
  /\ holder' = [holder EXCEPT ![Card(s)] = User(s)]
  /\ Goes(s, "filling")
  /\ Smooth /\ UNCHANGED <<session, panel, cancel, unwatched>>

AssignFails(s) ==
  /\ poll[s].at = "binding"
  /\ \/ ~Accepts(s) /\ Smooth
     \/ Troubles
  /\ Goes(s, "failed")
  /\ UNCHANGED <<holder, session, panel, cancel, unwatched>>

\* backfillMemberRow: the row is written, or something on the way fails.
Backfills(s) ==
  /\ poll[s].at = "filling"
  /\ Goes(s, "filled")
  /\ Smooth /\ UNCHANGED <<holder, session, panel, cancel, unwatched>>

BackfillFails(s) ==
  /\ poll[s].at = "filling" /\ Troubles
  /\ Goes(s, "filled")
  /\ UNCHANGED <<holder, session, panel, cancel, unwatched>>

\* The cache of the fragments is invalidated, and the panel told.
Completes(s) ==
  /\ poll[s].at = "filled"
  /\ Goes(s, "done")
  /\ Smooth /\ UNCHANGED <<holder, session, panel, cancel, unwatched>>

\* The panel of the session after the answer.
Replaced(s, p) ==
  IF poll[s].at = "polling" THEN Polling(s, poll[s].n)
  ELSE [panel[p] EXCEPT !.shows = poll[s].at]

\* The answer arrives and replaces the panel, unless something else has.  A
\* cancellation sent from the panel it replaces will find no place to show.
PollShows(s) ==
  /\ poll[s].at \in {"polling", "failed", "done"}
  /\ poll' = [poll EXCEPT ![s] = NoPoll]
  /\ panel' = [p \in Panels |-> IF p = session[s].by /\ Shown(s) THEN Replaced(s, p) ELSE panel[p]]
  /\ cancel' = [cancel EXCEPT ![s] = IF @ = "deleting" THEN "deleting late"
                                     ELSE IF @ = "answered" THEN "none" ELSE @]
  /\ Smooth /\ UNCHANGED <<holder, session, unwatched>>

-----------------------------------------------------------------------------
(* Cancel.                                                                  *)

Cancels(s) ==
  /\ Shown(s) /\ cancel[s] = "none"
  /\ cancel' = [cancel EXCEPT ![s] = "deleting"]
  /\ Smooth /\ UNCHANGED <<holder, session, panel, poll, unwatched>>

\* handleMembersNewEnrollCancel: a failure is only logged.
CancelHandled(s) ==
  /\ cancel[s] \in {"deleting", "deleting late"}
  /\ Deletes(s)
  /\ cancel' = [cancel EXCEPT ![s] = IF @ = "deleting" THEN "answered" ELSE "none"]
  /\ UNCHANGED <<holder, panel, poll>>

\* The picker replaces the panel the cancellation was sent from.
CancelShows(s) ==
  /\ cancel[s] = "answered"
  /\ cancel' = [cancel EXCEPT ![s] = "none"]
  /\ panel' = [p \in Panels |-> IF p = session[s].by /\ Shown(s)
                                  THEN [panel[p] EXCEPT !.shows = "picker"] ELSE panel[p]]
  /\ Smooth /\ UNCHANGED <<holder, session, poll, unwatched>>

\* The page is closed, or goes to sleep: nobody polls any more.
ClosesPage(p) ==
  /\ panel[p].shows = "polling" /\ Troubles
  /\ panel' = [panel EXCEPT ![p].shows = "gone"]
  /\ unwatched' = unwatched \cup {panel[p].session}
  /\ UNCHANGED <<holder, session, poll, cancel>>

-----------------------------------------------------------------------------
(* The hub.                                                                 *)

\* A card is tapped at a reader that is enrolling: the session has it.
Taps(s, c) ==
  /\ session[s].state = "open"
  /\ session' = [session EXCEPT ![s].state = "tapped", ![s].card = c]
  /\ Smooth /\ UNCHANGED <<holder, panel, poll, cancel, unwatched>>

\* The reader gives up by itself.
GivesUpReading(s) ==
  /\ session[s].state = "open"
  /\ session' = [session EXCEPT ![s].state = "closed"]
  /\ Smooth /\ UNCHANGED <<holder, panel, poll, cancel, unwatched>>

\* Somebody binds a free card, or frees one, in the admin pages of the hub.
Admin(c) ==
  /\ Troubles
  /\ \E u \in Holders : holder' = [holder EXCEPT ![c] = u]
  /\ holder[c] = Nobody \/ holder'[c] = Nobody
  /\ UNCHANGED <<session, panel, poll, cancel, unwatched>>

\* What the handlers of session s and the browser that polls it do next, the
\* steps apart that reach beyond the enrolment (Assigns, Backfills, Completes).
Round(s) ==
  \/ Polls(s) \/ TimesOut(s) \/ StillWaits(s) \/ StatusFails(s) \/ Tapped(s)
  \/ Collides(s) \/ NoCollision(s) \/ AssignFails(s) \/ BackfillFails(s)
  \/ PollShows(s)

-----------------------------------------------------------------------------
(* Properties.                                                              *)

\* The types of the variables; a poll that goes on after the tap has a card.
EnrolTypeOK ==
  /\ holder \in [Cards -> Holders]
  /\ session \in [Sessions -> [state : {"unused", "open", "tapped", "closed"},
                               card : Cards \cup {Nobody}, by : Panels \cup {Nobody}]]
  /\ panel \in [Panels -> [shows : {"picker", "polling", "failed", "done", "gone"},
                           session : Sessions \cup {0}, n : Counts]]
  /\ poll \in [Sessions -> [at : {"none", "asking", "checking", "binding", "filling", "filled",
                                  "polling", "failed", "done"}, n : Counts]]
  /\ cancel \in [Sessions -> {"none", "deleting", "deleting late", "answered"}]
  /\ unwatched \subseteq Sessions
  /\ \A s \in Sessions :
       /\ poll[s].at # "none" => session[s].by \in Panels
       /\ poll[s].at \in {"checking", "binding", "filling"} => Card(s) \in Cards

\* The bridge never takes a card from the user the hub has bound it to,
\* whatever the admins, a second panel and failing lookups do between the
\* check of the owner and the binding.
CardsStay ==
  [][\A c \in Cards : (holder[c] # Nobody /\ holder'[c] # holder[c]) => holder'[c] = Nobody]_enrolVars

\* A reader is left waiting for a card only if a panel or a request under way
\* still concerns its session, a call about it failed, or the page was
\* closed: neither the cap on the polls, a collision nor a cancellation that
\* lost its place on the page forgets one.
ReadersAreFreed ==
  \A s \in Sessions : session[s].state = "open" =>
    s \in unwatched \/ Shown(s) \/ poll[s].at # "none" \/ cancel[s] # "none"

\* No panel spins for ever, tapped or not, cancelled or not: every poll it
\* sends carries a higher count.
SpinnersEnd == \A p \in Panels : panel[p].shows = "polling" ~> panel[p].shows # "polling"
=============================================================================

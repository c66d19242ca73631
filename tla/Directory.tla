------------------------------- MODULE Directory -------------------------------
(***************************************************************************)
(* The two loops that copy the customers of Redpoint into the directory,   *)
(* page by page, and the row of sync_state they share.                     *)
(*                                                                         *)
(*   walk   mirror.Walker.Walk, started by POST /admin/mirror/resync; it   *)
(*          takes up the cursor of a walk that did not end                 *)
(*   load   api.Server.bulkLoadCustomers, run by the scheduler and by      *)
(*          POST /directory/sync; it always begins at the top              *)
(*                                                                         *)
(* Each loop keeps its cursor to itself and writes it to sync_state after  *)
(* every page; nothing but the status in that row keeps them apart.        *)
(*                                                                         *)
(* Customers are numbered in the order of Redpoint's cursor, and a page    *)
(* holds one of them: the cursor after a page is the customer it held, 0   *)
(* the top.  What a row holds is left out (Membership has the badge), and  *)
(* so are the pause between pages, the totals and the texts of errors.     *)
(***************************************************************************)
EXTENDS Integers, FiniteSets

CONSTANTS
  MaxCustomers,             \* bound: customers of Redpoint
  Walks,                    \* goroutines a POST /admin/mirror/resync starts
  Loads,                    \* goroutines a POST /directory/sync starts
  Scheduled,                \* the directory-syncer
  MaxEvents                 \* bound: joins, lapses, failures, ends of the process

ASSUME BoundsAssumption == MaxCustomers \in Nat /\ MaxEvents \in Nat
ASSUME ThreadsAssumption == Scheduled \notin Walks /\ Walks \cap Loads = {}

Customers == 1 .. MaxCustomers
AllLoads  == Loads \cup {Scheduled}
Threads   == Walks \cup AllLoads

VARIABLES
  active,                   \* the customers Redpoint would list
  listed,                   \* the customers with a row in the directory
  sync,                     \* the row of sync_state
  th,                       \* the loops
  events,
  owedAt, wholeAt           \* history: of the loop that wrote sync.cursor

vars == <<active, listed, sync, th, events, owedAt, wholeAt>>

Phases  == {"idle", "begin", "start", "fetch", "copy", "progress", "mark", "final"}
Started == {"none", "recent", "old"}    \* started_at, by the stale window

(* A loop.  Of its history: owed, the customers active ever since it began  *)
(* and not yet copied; whole, that it began at the top, or took up the      *)
(* cursor of a walk that did and had not ended.                             *)
Thread == [at : Phases, cursor : Customers \cup {0}, page : Customers \cup {0},
           more : BOOLEAN, started : Started, owed : SUBSET Customers,
           whole : BOOLEAN]
Idle == [at |-> "idle", cursor |-> 0, page |-> 0, more |-> FALSE,
         started |-> "none", owed |-> {}, whole |-> TRUE]

SyncState == [status : {"idle", "running", "complete", "error"},
              cursor : Customers \cup {0}, started : Started]

TypeOK ==
  /\ active \in SUBSET Customers /\ listed \in SUBSET Customers
  /\ sync \in SyncState
  /\ th \in [Threads -> Thread]
  /\ events \in Nat
  /\ owedAt \in SUBSET Customers /\ wholeAt \in BOOLEAN

Init ==
  /\ active \in SUBSET Customers
  /\ listed = {}
  /\ sync = [status |-> "idle", cursor |-> 0, started |-> "none"]
  /\ th = [t \in Threads |-> Idle]
  /\ events = 0
  /\ owedAt = {} /\ wholeAt = TRUE

Happens == events < MaxEvents /\ events' = events + 1

At(t, phase) == th[t].at = phase
Goes(t, r)   == th' = [th EXCEPT ![t] = r]

(* UpdateSyncState writes every column; what the cursor then stands for.    *)
UpdateSyncState(status, cursor, started, owed, whole) ==
  /\ sync' = [status |-> status, cursor |-> cursor, started |-> started]
  /\ owedAt' = owed /\ wholeAt' = whole

NoWrite == UNCHANGED <<sync, owedAt, wholeAt>>

-----------------------------------------------------------------------------
(* Redpoint: a customer joins, or lapses and is owed nothing any more.      *)
Change(c) ==
  /\ Happens
  /\ active' = IF c \in active THEN active \ {c} ELSE active \cup {c}
  /\ owedAt' = owedAt \ {c}
  /\ th' = [t \in Threads |-> [th[t] EXCEPT !.owed = @ \ {c}]]
  /\ UNCHANGED <<listed, sync, wholeAt>>

(* Half an hour passes.                                                     *)
Aged(s) == IF s = "recent" THEN "old" ELSE s
WindowPasses ==
  /\ sync' = [sync EXCEPT !.started = Aged(@)]
  /\ th' = [t \in Threads |-> [th[t] EXCEPT !.started = Aged(@)]]
  /\ UNCHANGED <<active, listed, events, owedAt, wholeAt>>

-----------------------------------------------------------------------------
(* What starts them.                                                        *)

(* Refused only while a walk is known to have started of late.              *)
PostResync(w) ==
  /\ At(w, "idle") /\ ~(sync.status = "running" /\ sync.started = "recent")
  /\ Goes(w, [Idle EXCEPT !.at = "begin"])
  /\ UNCHANGED <<active, listed, events>> /\ NoWrite

(* Refused while the status says running, unless the status cannot be read: *)
(* that error is not looked at.                                             *)
PostDirectorySync(l) ==
  /\ At(l, "idle")
  /\ (sync.status # "running" /\ UNCHANGED events) \/ Happens
  /\ Goes(l, [Idle EXCEPT !.at = "begin"])
  /\ UNCHANGED <<active, listed>> /\ NoWrite

(* The scheduler does not look.                                             *)
Tick ==
  /\ At(Scheduled, "idle")
  /\ Goes(Scheduled, [Idle EXCEPT !.at = "begin"])
  /\ UNCHANGED <<active, listed, events>> /\ NoWrite

-----------------------------------------------------------------------------
(* Both loops: a page of active customers after the cursor, then its rows.  *)

Beyond(t) == {c \in active : c > th[t].cursor}


(* The page is the first of them, or empty; more says whether one is left.  *)
First(S) == IF S = {} THEN {0} ELSE {c \in S : \A d \in S : c <= d}

Fetched(t, page, more) ==
  /\ At(t, "fetch")
  /\ Goes(t, [th[t] EXCEPT !.at = "copy", !.page = page, !.more = more])
  /\ UNCHANGED <<active, listed, events>> /\ NoWrite

\* The last page goes unnoticed.
FetchMissesLast(t) ==
  \E page \in First(Beyond(t)) :
    Fetched(t, page, Cardinality(Beyond(t) \ {page}) > 1)

Fetch(t) ==
  \E page \in First(Beyond(t)) : Fetched(t, page, Beyond(t) \ {page} # {})

(* The batch is committed; only then does the cursor move.  A load that has *)
(* seen its last page keeps no progress of it.                              *)
Copy(t) ==
  /\ At(t, "copy")
  /\ listed' = listed \cup ({th[t].page} \ {0})
  /\ Goes(t, [th[t] EXCEPT
                !.at = IF t \in Walks \/ th[t].more THEN "progress" ELSE "mark",
                !.cursor = th[t].page, !.page = 0,
                !.owed = @ \ {th[t].page}])
  /\ UNCHANGED <<active, events>> /\ NoWrite

AfterProgress(t) == [th[t] EXCEPT !.at = IF th[t].more THEN "fetch" ELSE "mark"]

\* The page that fails is not tried again.
FailsPastPage(t) ==
  /\ Happens /\ th[t].at \in {"fetch", "copy"}
  /\ Goes(t, Idle)
  /\ \/ NoWrite
     \/ IF t \in Walks
        THEN /\ sync' = [sync EXCEPT !.status = "error", !.cursor = th[t].page]
             /\ wholeAt' = (wholeAt /\ sync.status # "complete") /\ UNCHANGED owedAt
        ELSE UpdateSyncState("error", 0, "none", {}, TRUE)
  /\ UNCHANGED <<active, listed>>

(* A page fails to arrive, to parse, or to be written: status error.  That  *)
(* write is not looked at.  A walk leaves its cursor, a load clears it; the *)
(* cursor may be that of a walk which has ended by then.                    *)
Fails(t) ==
  /\ Happens /\ th[t].at \in {"fetch", "copy"}
  /\ Goes(t, Idle)
  /\ \/ NoWrite
     \/ IF t \in Walks
        THEN /\ sync' = [sync EXCEPT !.status = "error"]
             /\ wholeAt' = (wholeAt /\ sync.status # "complete") /\ UNCHANGED owedAt
        ELSE UpdateSyncState("error", 0, "none", {}, TRUE)
  /\ UNCHANGED <<active, listed>>

-----------------------------------------------------------------------------
(* The walk.                                                                *)

CanResume == sync.cursor # 0 /\ sync.status # "complete"

WalkBegin(w) ==
  /\ At(w, "begin")
  /\ Goes(w, IF CanResume
             THEN [Idle EXCEPT !.at = "fetch", !.cursor = sync.cursor,
                               !.started = sync.started,
                               !.owed = owedAt, !.whole = wholeAt]
             ELSE [Idle EXCEPT !.at = "start"])
  /\ UNCHANGED <<active, listed, events>> /\ NoWrite

(* StartSync.  The walk itself does not learn the time it stamps.           *)
WalkStart(w) ==
  /\ At(w, "start")
  /\ UpdateSyncState("running", 0, "recent", active, TRUE)
  /\ Goes(w, [Idle EXCEPT !.at = "fetch", !.owed = active])
  /\ UNCHANGED <<active, listed, events>>

(* So after its first page a fresh walk clears started_at.                  *)
WalkProgress(w) ==
  /\ At(w, "progress")
  /\ UpdateSyncState("running", th[w].cursor, th[w].started, th[w].owed, th[w].whole)
  /\ Goes(w, AfterProgress(w))
  /\ UNCHANGED <<active, listed, events>>

(* MarkSyncComplete touches the status only: the cursor stays, but who took *)
(* it up now would begin another walk, and owe it everybody.                *)
WalkMark(w) ==
  /\ At(w, "mark")
  /\ sync' = [sync EXCEPT !.status = "complete"]
  /\ owedAt' = active
  /\ Goes(w, [th[w] EXCEPT !.at = "final"])
  /\ UNCHANGED <<active, listed, events, wholeAt>>

WalkFinal(w) ==
  /\ At(w, "final")
  /\ UpdateSyncState("complete", 0, th[w].started, {}, TRUE)
  /\ Goes(w, Idle)
  /\ UNCHANGED <<active, listed, events>>

(* The state cannot be read or written: the walk ends, except that progress *)
(* it could not keep does not stop it.                                      *)
WalkWriteFails(w) ==
  /\ Happens /\ th[w].at \in {"begin", "start", "progress", "mark", "final"}
  /\ Goes(w, IF At(w, "progress") THEN AfterProgress(w) ELSE Idle)
  /\ UNCHANGED <<active, listed>> /\ NoWrite

-----------------------------------------------------------------------------
(* The load.  Of its writes to sync_state none is looked at: each may fail. *)

Written(write) == (write /\ UNCHANGED events) \/ (Happens /\ NoWrite)

LoadBegin(l) ==
  /\ At(l, "begin")
  /\ Written(UpdateSyncState("running", 0, "recent", {}, TRUE))
  /\ Goes(l, [Idle EXCEPT !.at = "fetch", !.owed = active])
  /\ UNCHANGED <<active, listed>>

(* A load writes no badges: to a walk that takes up its cursor everybody is *)
(* still owed.                                                              *)
LoadProgress(l) ==
  /\ At(l, "progress")
  /\ Written(UpdateSyncState("running", th[l].cursor, "none", active, FALSE))
  /\ Goes(l, AfterProgress(l))
  /\ UNCHANGED <<active, listed>>

\* The status is left at running.
LoadEndStaysRunning(l) ==
  /\ At(l, "mark")
  /\ Written(UpdateSyncState("running", 0, "none", {}, TRUE))
  /\ Goes(l, Idle)
  /\ UNCHANGED <<active, listed>>

LoadEnd(l) ==
  /\ At(l, "mark")
  /\ Written(UpdateSyncState("complete", 0, "none", {}, TRUE))
  /\ Goes(l, Idle)
  /\ UNCHANGED <<active, listed>>

(* The process ends, in whatever way, and starts again: the rows stay.      *)
Crash ==
  /\ Happens
  /\ th' = [t \in Threads |-> Idle]
  /\ UNCHANGED <<active, listed>> /\ NoWrite

-----------------------------------------------------------------------------
PageStep(t) == Fetch(t) \/ Copy(t)
WalkStep(w) ==
  PageStep(w) \/ WalkBegin(w) \/ WalkStart(w) \/ WalkProgress(w) \/ WalkMark(w) \/ WalkFinal(w)
LoadStep(l) == PageStep(l) \/ LoadBegin(l) \/ LoadProgress(l) \/ LoadEnd(l)

Next ==
  \/ \E c \in Customers : Change(c)
  \/ WindowPasses \/ Tick \/ Crash
  \/ \E w \in Walks : PostResync(w) \/ WalkStep(w) \/ WalkWriteFails(w)
  \/ \E l \in Loads : PostDirectorySync(l)
  \/ \E l \in AllLoads : LoadStep(l)
  \/ \E t \in Threads : Fails(t)

(* The scheduler runs the load again and again, and a load goes on.  Nobody *)
(* has to press a button, and no walk has to end.                           *)
Fairness == WF_vars(Tick \/ LoadStep(Scheduled))

Spec == Init /\ [][Next]_vars /\ Fairness

-----------------------------------------------------------------------------
(* Properties.                                                              *)

(* A loop that is about to declare itself complete has copied every         *)
(* customer that was active from its beginning on: whoever lapses, joins or *)
(* fails meanwhile, whatever other loops write to the row they share, and   *)
(* however often a walk was cut off and taken up again (walk.go:215-224);   *)
(* of walks, those whose cursor goes back to a walk and not to one that had *)
(* ended when an overlapping one failed.                                    *)
CompleteIsWhole ==
  \A t \in Threads : th[t].at \in {"mark", "final"} /\ th[t].whole => th[t].owed = {}

(* The status never says running for good: POST /directory/sync, which is   *)
(* refused as long as it does, opens again after every crash and failure.   *)
LockOpens == []<>(sync.status # "running")

(* Who stays active gets a row in the directory.                            *)
EverybodyListed == \A c \in Customers : <>[](c \in active) => <>(c \in listed)
=============================================================================

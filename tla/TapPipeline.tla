----------------------------- MODULE TapPipeline -----------------------------
(***************************************************************************)
(* The life of a door tap, from the access log of the UA-Hub to a row of   *)
(* the checkins table and a check-in in Redpoint.                          *)
(*                                                                         *)
(* Three deliverers feed the same check-in handler and run concurrently:   *)
(*   "ws"      the read loop of the WebSocket (unifi.Client.readLoop);     *)
(*   "poller"  the REST tap poller (unifi.Client.StartEventPoller);        *)
(*   Backfills the goroutines a reconnect starts (app.makeReconnect-       *)
(*             Backfill).                                                  *)
(* Each of them handles its events one at a time, so a deliverer is a      *)
(* thread with a program counter; the Redpoint write of an allowed tap is  *)
(* a goroutine of its own.  What the poller knows (cursor, maxLogID) is in *)
(* memory and dies with the process; rows and check-ins do not.            *)
(*                                                                         *)
(* Time is counted in ticks.  A log entry is named by its `_id`, which the *)
(* hub assigns in increasing order.  The decision of the handler (member   *)
(* lookup, door policy, recheck) is a choice here: Breaker and Membership   *)
(* model what the recheck does.  members.last_checkin and the Stats        *)
(* counters, which no handler reads back, are left out.                    *)
(***************************************************************************)
EXTENDS Integers, FiniteSets

CONSTANTS
  MaxTaps,        \* bound: entries the hub ever logs
  MaxTime,        \* bound: last tick
  MaxCrashes,     \* bound: crashes of the bridge
  MaxFailures,    \* bound: failed INSERTs
  Lookback,       \* ticks the poller looks back behind its cursor (30 s)
  Freshness,      \* pollFreshnessWindow (45 s)
  Overlap,        \* ticks a reconnect backfill looks back (5 s)
  DayLength,      \* ticks from one midnight to the next
  Backfills,      \* bound: backfill goroutines alive at a time
  WebSocket,      \* the hub's WebSocket: "emits" taps (older firmware), stays
                  \* "silent" about them, or cannot be reached ("down")
  ShadowMode, CheckinRecordingLive

ASSUME BoundsAssumption ==
  /\ MaxTaps \in Nat \ {0}
  /\ MaxTime \in Nat /\ MaxCrashes \in Nat /\ MaxFailures \in Nat
ASSUME WindowAssumption ==
  /\ Lookback \in Nat /\ Freshness \in Nat /\ Overlap \in Nat
  /\ DayLength \in Nat \ {0}
ASSUME DelivererAssumption == "ws" \notin Backfills /\ "poller" \notin Backfills
ASSUME ModeAssumption ==
  /\ WebSocket \in {"emits", "silent", "down"}
  /\ ShadowMode \in BOOLEAN /\ CheckinRecordingLive \in BOOLEAN

VARIABLES
  (* The UA-Hub. *)
  clock,
  logged,         \* entries 1..logged are in the log
  ts,             \* ts[k]: when entry k was published
  isNfc,          \* isNfc[k]: an NFC tap with a credential (not a PIN code)
  frames,         \* entries in flight on the WebSocket
  (* The process: lost in a crash. *)
  up,
  bootedAt,
  wsUp,           \* the WebSocket is connected
  wsDropped,      \* reconnectCount > 0
  lastEventAt,    \* 0: no event yet
  cursor, maxLogID,
  pollBatch,      \* entries of the last fetch still to be looked at
  bf,             \* bf[b]: the backfill goroutine b
  th,             \* th[d]: the handler call deliverer d is in
  asyncs,         \* asyncs[k]: recordInRedpoint goroutines not yet run
  (* Durable. *)
  keyedRows,      \* keyedRows[k]: rows of checkins with unifi_log_id k
  bareRows,       \* bareRows[k]: rows for tap k with an empty unifi_log_id
  checkins,       \* checkins[k]: createCheckIn calls made for tap k
  (* History. *)
  seen,           \* entries this process's poller has dispatched
  opened,         \* opened[k]: unlock commands sent for tap k
  lives,          \* lives[k]: processes alive while tap k was fresh
  framed,         \* taps ever emitted on the WebSocket
  failed,         \* taps one of whose INSERTs failed
  crashes

hubVars     == <<logged, ts, isNfc, framed>>
connVars    == <<wsUp, wsDropped>>
pollVars    == <<cursor, maxLogID, pollBatch, seen>>
rowVars     == <<keyedRows, bareRows, failed>>
processVars == <<up, bootedAt, lives, crashes>>
vars == <<clock, hubVars, frames, processVars, connVars, lastEventAt, pollVars,
          bf, th, asyncs, rowVars, checkins, opened>>

Taps       == 1 .. MaxTaps
Deliverers == {"ws", "poller"} \cup Backfills

Idle       == [pc |-> "idle", tap |-> 0, live |-> FALSE]
Call(k, l) == [pc |-> "decide", tap |-> k, live |-> l]
FreeSlot   == [phase |-> "free", since |-> 0, batch |-> {}]

Phases == {"idle", "decide", "recheck", "unlock", "record", "deny"}
Calls  == [pc : Phases, tap : 0 .. MaxTaps, live : BOOLEAN]
Slots  == [phase : {"free", "fetch", "replay"}, since : Int, batch : SUBSET Taps]

\* Midnight of the day t lies in (app.startOfTodayLocal).
StartOfToday(t) == t - (t % DayLength)

\* A restarted poller forgets the day so far.
PollerStartNow(t) == t
\* The cursor a process that boots at t gives its poller.
PollerStart(t) == StartOfToday(t)

\* The taps that are at most Freshness old.
Fresh(k) == clock - ts[k] <= Freshness

\* What FetchAccessLogsSince returns.
FetchSince(since) == {k \in 1 .. logged : ts[k] >= since}

\* Events are dispatched oldest first.  Timestamps have a resolution of one
\* second and the order of the hub's answer is kept within it, so any of the
\* oldest entries may come next.
Oldest(batch) == {k \in batch : \A j \in batch : ts[k] <= ts[j]}

Init ==
  /\ clock = 1
  /\ logged = 0
  /\ ts = [k \in Taps |-> 0]
  /\ isNfc = [k \in Taps |-> FALSE]
  /\ frames = {}
  /\ up = TRUE
  /\ bootedAt = clock
  /\ wsUp = FALSE
  /\ wsDropped = FALSE
  /\ lastEventAt = 0
  /\ cursor = PollerStart(clock)
  /\ maxLogID = 0
  /\ pollBatch = {}
  /\ bf = [b \in Backfills |-> FreeSlot]
  /\ th = [d \in Deliverers |-> Idle]
  /\ asyncs = [k \in Taps |-> 0]
  /\ keyedRows = [k \in Taps |-> 0]
  /\ bareRows = [k \in Taps |-> 0]
  /\ checkins = [k \in Taps |-> 0]
  /\ seen = {}
  /\ opened = [k \in Taps |-> 0]
  /\ lives = [k \in Taps |-> 0]
  /\ framed = {}
  /\ failed = {}
  /\ crashes = 0
-----------------------------------------------------------------------------
(***************************************************************************)
(* The hub.                                                                *)
(***************************************************************************)
Tick ==
  /\ clock < MaxTime
  /\ clock' = clock + 1
  /\ UNCHANGED <<hubVars, frames, processVars, connVars, lastEventAt, pollVars,
                 bf, th, asyncs, rowVars, checkins, opened>>

\* Somebody holds a card to a reader or enters a PIN code.  The hub numbers
\* its entries in the order of their timestamps and shows them at once.
HubLog(nfc) ==
  LET k == logged + 1 IN
  /\ logged < MaxTaps
  /\ logged' = k
  /\ ts' = [ts EXCEPT ![k] = clock]
  /\ isNfc' = [isNfc EXCEPT ![k] = nfc]
  /\ lives' = [lives EXCEPT ![k] = IF up THEN 1 ELSE 0]
  /\ IF WebSocket = "emits" /\ wsUp
     THEN frames' = frames \cup {k} /\ framed' = framed \cup {k}
     ELSE UNCHANGED <<frames, framed>>
  /\ UNCHANGED <<clock, up, bootedAt, crashes, connVars, lastEventAt, pollVars,
                 bf, th, asyncs, rowVars, checkins, opened>>
-----------------------------------------------------------------------------
(***************************************************************************)
(* The WebSocket.                                                          *)
(***************************************************************************)
\* connectLoop has dialled.  On a reconnect the callback starts a backfill
\* from just before the last event, unless there has been none.
WsConnect ==
  /\ up /\ ~wsUp /\ WebSocket # "down"
  /\ wsUp' = TRUE
  /\ IF wsDropped /\ lastEventAt # 0
     THEN \E b \in Backfills :
            /\ bf[b].phase = "free"
            /\ bf' = [bf EXCEPT ![b] = [phase |-> "fetch",
                                        since |-> lastEventAt - Overlap,
                                        batch |-> {}]]
     ELSE UNCHANGED bf
  /\ UNCHANGED <<clock, hubVars, frames, processVars, wsDropped, lastEventAt,
                 pollVars, th, asyncs, rowVars, checkins, opened>>

\* readLoop returns; the frames in flight are lost with the connection.
WsDrop ==
  /\ wsUp
  /\ th["ws"] = Idle
  /\ wsUp' = FALSE
  /\ wsDropped' = TRUE
  /\ frames' = {}
  /\ UNCHANGED <<clock, hubVars, processVars, lastEventAt, pollVars,
                 bf, th, asyncs, rowVars, checkins, opened>>

\* handleMessage: the event carries no log id and is live whatever its age.
WsDeliver(k) ==
  /\ th["ws"] = Idle
  /\ k \in Oldest(frames)
  /\ frames' = frames \ {k}
  /\ lastEventAt' = clock
  /\ th' = [th EXCEPT !["ws"] = Call(k, TRUE)]
  /\ UNCHANGED <<clock, hubVars, processVars, connVars, pollVars,
                 bf, asyncs, rowVars, checkins, opened>>
-----------------------------------------------------------------------------
(***************************************************************************)
(* The poller.                                                             *)
(***************************************************************************)
\* The poller asks only for what is newer than its cursor.
PollWindowNoLookback == FetchSince(cursor + 1)
PollWindow == FetchSince(cursor - Lookback)

\* A fetch that fails (the hub does not answer within its 15 seconds) moves
\* no mark and is no step: the next tick asks again for the same window.
PollFetch ==
  /\ up /\ pollBatch = {} /\ th["poller"] = Idle
  /\ pollBatch' = PollWindow
  /\ UNCHANGED <<clock, hubVars, frames, processVars, connVars, lastEventAt,
                 cursor, maxLogID, seen, bf, th, asyncs, rowVars, checkins, opened>>

\* The high-water mark is not looked at.
AlreadyDispatchedNever(k) == FALSE
AlreadyDispatched(k) == k <= maxLogID

PollSkip(k) ==
  /\ th["poller"] = Idle
  /\ k \in Oldest(pollBatch)
  /\ AlreadyDispatched(k)
  /\ pollBatch' = pollBatch \ {k}
  /\ UNCHANGED <<clock, hubVars, frames, processVars, connVars, lastEventAt,
                 cursor, maxLogID, seen, bf, th, asyncs, rowVars, checkins, opened>>

\* Both marks advance before the handler is called.
PollDispatch(k) ==
  /\ th["poller"] = Idle
  /\ k \in Oldest(pollBatch)
  /\ ~AlreadyDispatched(k)
  /\ pollBatch' = pollBatch \ {k}
  /\ maxLogID' = k
  /\ cursor' = IF ts[k] > cursor THEN ts[k] ELSE cursor
  /\ lastEventAt' = clock
  /\ seen' = seen \cup {k}
  /\ th' = [th EXCEPT !["poller"] = Call(k, Fresh(k))]
  /\ UNCHANGED <<clock, hubVars, frames, processVars, connVars,
                 bf, asyncs, rowVars, checkins, opened>>
-----------------------------------------------------------------------------
(***************************************************************************)
(* A reconnect backfill.                                                   *)
(***************************************************************************)
BackfillFetch(b) ==
  /\ bf[b].phase = "fetch"
  /\ bf' = [bf EXCEPT ![b].phase = "replay", ![b].batch = FetchSince(bf[b].since)]
  /\ UNCHANGED <<clock, hubVars, frames, processVars, connVars, lastEventAt,
                 pollVars, th, asyncs, rowVars, checkins, opened>>

BackfillDispatch(b, k) ==
  /\ bf[b].phase = "replay" /\ th[b] = Idle
  /\ k \in Oldest(bf[b].batch)
  /\ bf' = [bf EXCEPT ![b].batch = @ \ {k}]
  /\ th' = [th EXCEPT ![b] = Call(k, FALSE)]
  /\ UNCHANGED <<clock, hubVars, frames, processVars, connVars, lastEventAt,
                 pollVars, asyncs, rowVars, checkins, opened>>

\* The fetch failed, or every event has been replayed.
BackfillEnd(b) ==
  /\ \/ bf[b].phase = "fetch"
     \/ bf[b].phase = "replay" /\ bf[b].batch = {} /\ th[b] = Idle
  /\ bf' = [bf EXCEPT ![b] = FreeSlot]
  /\ UNCHANGED <<clock, hubVars, frames, processVars, connVars, lastEventAt,
                 pollVars, th, asyncs, rowVars, checkins, opened>>
-----------------------------------------------------------------------------
(***************************************************************************)
(* The handler, HandleEvent, on the thread of deliverer d.                 *)
(***************************************************************************)
Goto(d, pc) ==
  /\ th' = [th EXCEPT ![d].pc = pc]
  /\ UNCHANGED <<clock, hubVars, frames, processVars, connVars, lastEventAt,
                 pollVars, bf, asyncs, rowVars, checkins, opened>>

\* Not an NFC tap: nothing is recorded.
Ignore(d) ==
  /\ th[d].pc = "decide"
  /\ ~isNfc[th[d].tap]
  /\ th' = [th EXCEPT ![d] = Idle]
  /\ UNCHANGED <<clock, hubVars, frames, processVars, connVars, lastEventAt,
                 pollVars, bf, asyncs, rowVars, checkins, opened>>

\* Lookup and policy: an error or a miss ("deny"), a denial that is worth a
\* recheck, or an approval.
Decide(d) ==
  /\ th[d].pc = "decide"
  /\ isNfc[th[d].tap]
  /\ \E pc \in {"deny", "recheck", "unlock"} : Goto(d, pc)

\* RecheckDeniedTap has returned and the policy was evaluated again.
Recheck(d) ==
  /\ th[d].pc = "recheck"
  /\ \E pc \in {"deny", "unlock"} : Goto(d, pc)

\* The handler does not look at ViaPoller.
MayUnlockIgnoringPoller(d) == th[d].live /\ ~ShadowMode
\* A tap that the hub has decided itself is never unlocked a second time.
MayUnlock(d) == th[d].live /\ d # "poller" /\ ~ShadowMode

\* No door id, or no unlock of ours is due.
UnlockSkipped(d) ==
  /\ th[d].pc = "unlock"
  /\ Goto(d, "record")

UnlockDone(d) ==
  /\ th[d].pc = "unlock" /\ MayUnlock(d)
  /\ opened' = [opened EXCEPT ![th[d].tap] = @ + 1]
  /\ th' = [th EXCEPT ![d].pc = "record"]
  /\ UNCHANGED <<clock, hubVars, frames, processVars, connVars, lastEventAt,
                 pollVars, bf, asyncs, rowVars, checkins>>

\* The tap of a member whose door did not open leaves no row.
UnlockFailed(d) ==
  /\ th[d].pc = "unlock" /\ MayUnlock(d)
  /\ th' = [th EXCEPT ![d] = Idle]
  /\ UNCHANGED <<clock, hubVars, frames, processVars, connVars, lastEventAt,
                 pollVars, bf, asyncs, rowVars, checkins, opened>>

\* RecordCheckIn: INSERT OR IGNORE under the unique index on unifi_log_id,
\* which a row without a log id is not subject to.
Insert(d) ==
  LET k == th[d].tap IN
  IF d = "ws"
  THEN /\ bareRows' = [bareRows EXCEPT ![k] = @ + 1]
       /\ UNCHANGED <<keyedRows, failed>>
  ELSE /\ keyedRows' = [keyedRows EXCEPT ![k] = IF @ = 0 THEN 1 ELSE @]
       /\ UNCHANGED <<bareRows, failed>>

InsertFailed(d) ==
  /\ Cardinality(failed) < MaxFailures
  /\ failed' = failed \cup {th[d].tap}
  /\ UNCHANGED <<keyedRows, bareRows>>

\* A row for a denial, an unknown card, or a lookup or policy error.
RecordDenied(d) ==
  /\ th[d].pc = "deny"
  /\ Insert(d) \/ InsertFailed(d)
  /\ th' = [th EXCEPT ![d] = Idle]
  /\ UNCHANGED <<clock, hubVars, frames, processVars, connVars, lastEventAt,
                 pollVars, bf, asyncs, checkins, opened>>

\* Whether an allowed event is also recorded in Redpoint.
Pushes(d) == CheckinRecordingLive /\ th[d].live

\* The outcome of the INSERT (new row, ignored, failed) does not matter for
\* the write to Redpoint.
RecordAllowed(d) ==
  /\ th[d].pc = "record"
  /\ Insert(d) \/ InsertFailed(d)
  /\ asyncs' = [asyncs EXCEPT ![th[d].tap] = IF Pushes(d) THEN @ + 1 ELSE @]
  /\ th' = [th EXCEPT ![d] = Idle]
  /\ UNCHANGED <<clock, hubVars, frames, processVars, connVars, lastEventAt,
                 pollVars, bf, checkins, opened>>

\* A write whose start was not counted finishes.
RecordInRedpointUncounted(k) ==
  /\ opened[k] > 0
  /\ asyncs' = [asyncs EXCEPT ![k] = @ - 1]
  /\ checkins' = [checkins EXCEPT ![k] = @ + 1]
  /\ UNCHANGED <<clock, hubVars, frames, processVars, connVars, lastEventAt,
                 pollVars, bf, th, rowVars, opened>>

\* recordInRedpoint: one createCheckIn call (the client repeats a request it
\* got no answer to; the repeats count as the one call), its answer is only logged
\* (MarkRedpointRecorded is called with row id 0 and changes no row).
RecordInRedpoint(k) ==
  /\ asyncs[k] > 0
  /\ asyncs' = [asyncs EXCEPT ![k] = @ - 1]
  /\ checkins' = [checkins EXCEPT ![k] = @ + 1]
  /\ UNCHANGED <<clock, hubVars, frames, processVars, connVars, lastEventAt,
                 pollVars, bf, th, rowVars, opened>>
-----------------------------------------------------------------------------
(***************************************************************************)
(* The process.                                                            *)
(***************************************************************************)
Crash ==
  /\ up /\ crashes < MaxCrashes
  /\ crashes' = crashes + 1
  /\ up' = FALSE
  /\ wsUp' = FALSE
  /\ wsDropped' = FALSE
  /\ lastEventAt' = 0
  /\ frames' = {}
  /\ pollBatch' = {}
  /\ maxLogID' = 0
  /\ seen' = {}
  /\ bf' = [b \in Backfills |-> FreeSlot]
  /\ th' = [d \in Deliverers |-> Idle]
  /\ asyncs' = [k \in Taps |-> 0]
  /\ UNCHANGED <<clock, hubVars, bootedAt, lives, cursor, rowVars, checkins, opened>>

Boot ==
  /\ ~up
  /\ up' = TRUE
  /\ bootedAt' = clock
  /\ cursor' = PollerStart(clock)
  /\ lives' = [k \in Taps |-> IF k <= logged /\ Fresh(k) THEN lives[k] + 1 ELSE lives[k]]
  /\ UNCHANGED <<clock, hubVars, frames, crashes, connVars, lastEventAt, maxLogID,
                 pollBatch, seen, bf, th, asyncs, rowVars, checkins, opened>>

PollBatch == \E k \in Taps : PollSkip(k) \/ PollDispatch(k)
Poll      == PollFetch \/ PollBatch

Backfill(b) ==
  \/ BackfillFetch(b)
  \/ BackfillEnd(b)
  \/ \E k \in Taps : BackfillDispatch(b, k)

Handle(d) ==
  \/ Ignore(d) \/ Decide(d) \/ Recheck(d)
  \/ UnlockSkipped(d) \/ UnlockDone(d) \/ UnlockFailed(d)
  \/ RecordDenied(d) \/ RecordAllowed(d)

Next ==
  \/ Tick
  \/ \E nfc \in BOOLEAN : HubLog(nfc)
  \/ WsConnect \/ WsDrop
  \/ \E k \in Taps : WsDeliver(k)
  \/ Poll
  \/ \E b \in Backfills : Backfill(b)
  \/ \E d \in Deliverers : Handle(d)
  \/ \E k \in Taps : RecordInRedpoint(k)
  \/ Crash \/ Boot

\* The poller goes through what it has fetched, a handler call is bounded by
\* its contexts, and the service manager restarts the bridge (deploy/).  The
\* hub and the WebSocket owe nothing, not even the answer to a fetch.
Fairness ==
  /\ WF_vars(Boot)
  /\ WF_vars(PollBatch)
  /\ WF_vars(Handle("poller"))

Spec == Init /\ [][Next]_vars /\ Fairness
-----------------------------------------------------------------------------
TypeOK ==
  /\ clock \in Nat /\ logged \in 0 .. MaxTaps /\ crashes \in Nat
  /\ ts \in [Taps -> Nat] /\ isNfc \in [Taps -> BOOLEAN]
  /\ frames \subseteq Taps /\ framed \subseteq Taps /\ failed \subseteq 0 .. MaxTaps
  /\ up \in BOOLEAN /\ wsUp \in BOOLEAN /\ wsDropped \in BOOLEAN
  /\ bootedAt \in Nat /\ lastEventAt \in Nat /\ cursor \in Int
  /\ maxLogID \in 0 .. MaxTaps
  /\ pollBatch \subseteq Taps /\ seen \subseteq Taps
  /\ bf \in [Backfills -> Slots] /\ th \in [Deliverers -> Calls]
  /\ asyncs \in [Taps -> Nat] /\ checkins \in [Taps -> Nat]
  /\ keyedRows \in [Taps -> Nat] /\ bareRows \in [Taps -> Nat]
  /\ opened \in [Taps -> Nat] /\ lives \in [Taps -> Nat]

\* The entries the poller of this process answers for.
InScope(k) == k <= logged /\ ts[k] >= PollerStart(bootedAt) - Lookback

\* An entry that is passed over because a later id of the same second came
\* first in the hub's answer.
Overtaken(k) == \E j \in seen : j > k /\ ts[j] = ts[k]

\* The high-water mark never swallows a tap: an entry at or below maxLogID
\* has been dispatched by this process, unless an entry of the same second
\* with a higher id overtook it (client.go, pollOnce: the `continue` at
\* idN <= *maxLogID, the cursor and its lookback).
NoSilentSkip ==
  up => \A k \in Taps : InScope(k) /\ k <= maxLogID => k \in seen \/ Overtaken(k)

\* The number of createCheckIn calls for a tap is bounded: one for each
\* process that was alive while the tap was fresh, and one if it was also
\* delivered on the WebSocket.  Lookback windows, replays of the day at boot
\* and reconnect backfills add none.
CheckinsBounded ==
  \A k \in Taps : checkins[k] <= lives[k] + (IF k \in framed THEN 1 ELSE 0)

\* The bridge opens the door at most once for a tap, and only for a tap that
\* the WebSocket delivered: the poller and the backfill see the same tap
\* after the hub has decided it.
OpenedOnce ==
  \A k \in Taps : opened[k] <= (IF k \in framed THEN 1 ELSE 0)

\* Provided the hub goes on answering the poller's fetches now and then,
\* every NFC tap ends up in the checkins table, whatever crashes happen while
\* it is being handled, unless its INSERT failed, an entry of the same second
\* overtook it, or the process was restarted on a later day.
Recorded(k) == keyedRows[k] + bareRows[k] > 0
Excused(k)  == k \in failed \/ Overtaken(k) \/ ts[k] < StartOfToday(bootedAt) - Lookback
FetchesSucceed == WF_vars(PollFetch)
EveryTapRecorded ==
  FetchesSucceed =>
    \A k \in Taps : (k <= logged /\ isNfc[k]) ~> (Recorded(k) \/ Excused(k))

-----------------------------------------------------------------------------
(***************************************************************************)
(* Inductive invariants, proved in TapPipeline_proofs.                     *)
(***************************************************************************)
\* Log ids and timestamps grow together, and nothing refers to an entry
\* that is not in the log.
LogInv ==
  /\ \A j, k \in Taps : j < k /\ k <= logged => ts[j] <= ts[k]
  /\ \A k \in Taps : k <= logged => ts[k] <= clock
  /\ pollBatch \subseteq 1 .. logged /\ seen \subseteq 1 .. logged
  /\ framed \subseteq 1 .. logged /\ frames \subseteq framed
  /\ \A b \in Backfills : bf[b].batch \subseteq 1 .. logged
  /\ \A d \in Deliverers : th[d].tap <= logged

\* The marks of the poller, and what its batch leaves out.
MarkInv ==
  /\ ~up => maxLogID = 0 /\ pollBatch = {} /\ seen = {}
  /\ \A k \in seen : k <= maxLogID
  /\ maxLogID # 0 => maxLogID \in seen
  /\ up => \/ cursor = PollerStart(bootedAt)
           \/ maxLogID # 0 /\ cursor = ts[maxLogID]
  /\ maxLogID # 0 => ts[maxLogID] <= cursor
  /\ \A m \in pollBatch, k \in Taps :
       InScope(k) /\ k < m /\ k \notin pollBatch => k <= maxLogID

\* createCheckIn calls for k made, started, or still to be started by a
\* handler call.
Pending(d, k) == IF th[d].pc # "idle" /\ th[d].tap = k /\ th[d].live THEN 1 ELSE 0
Claims(k) == checkins[k] + asyncs[k] + Pending("poller", k) + Pending("ws", k)
             + (IF k \in frames THEN 1 ELSE 0)
Allowance(k) == lives[k] + (IF k \in framed THEN 1 ELSE 0)

\* A fresh tap that the living process has not dispatched leaves room for
\* the one call this process may still make.
ClaimInv ==
  /\ \A k \in Taps : Claims(k) <= Allowance(k)
  /\ \A k \in Taps : up /\ k <= logged /\ k \notin seen /\ Fresh(k) => Claims(k) + 1 <= Allowance(k)
  /\ \A k \in Taps : k > logged => Claims(k) = 0
  /\ \A b \in Backfills : ~th[b].live

\* Unlock commands sent for k, or still possible on the WebSocket's thread.
OpenClaims(k) ==
  opened[k] + (IF th["ws"].pc \in {"decide", "recheck", "unlock"} /\ th["ws"].tap = k THEN 1 ELSE 0)
            + (IF k \in frames THEN 1 ELSE 0)
OpenInv ==
  /\ \A k \in Taps : OpenClaims(k) <= (IF k \in framed THEN 1 ELSE 0)
  /\ \A b \in Backfills : ~th[b].live
=============================================================================

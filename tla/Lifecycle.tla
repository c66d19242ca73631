------------------------------ MODULE Lifecycle ------------------------------
(***************************************************************************)
(* The process of the bridge, from its boot to its last breath, and what   *)
(* that does to the work in flight: the background runs and their rows of  *)
(* the jobs table, and the taps that are being answered.                   *)
(*                                                                         *)
(* A run of a sync is started in one of three ways:                        *)
(*   Loops    by a scheduler (jobs.Loop, statusync.runLoop), under the     *)
(*            context of the background group;                             *)
(*   Posted   by a request that does the work itself, under the request's  *)
(*            context (/cache/sync, /ua-hub/sync, /ingest/unifi);          *)
(*   Started  by a request that hands the work to the background group     *)
(*            (/status-sync, /directory/sync).                             *)
(* Each brackets its work with a row of jobs: "running" first, the verdict *)
(* last.  Nothing else relates a row to the run it stands for, so the      *)
(* properties are about the rows that tell the truth.                      *)
(*                                                                         *)
(* A shutdown goes through phases, each with a deadline of its own:        *)
(*   run -> http -> ws -> drain -> group -> closing -> down                *)
(* A job id holds the millisecond of its start: `clock`.  created_at, by   *)
(* which ActiveJob orders rows, only holds the second: of two runs of one  *)
(* second it may take either.  The intervals and back-offs of the loops    *)
(* are left out: a loop may fire once its clock has moved.  The work       *)
(* itself, its guards against a second run and what it writes are in       *)
(* Binding, Membership, Directory and HubUsers.                            *)
(*                                                                         *)
(* A load reports through the one row of sync_state, which every load and  *)
(* every walk of the mirror writes, and nobody looks at the error of a     *)
(* write or of the read: each may fail at any time, and does when the      *)
(* context of the work is done.                                            *)
(***************************************************************************)
EXTENDS Naturals, FiniteSets

CONSTANTS
  Loops, Posted, Started,
  Types, TypeOf,     \* the job type of each run
  Loads,             \* types whose verdict is read back from sync_state
  Supervised,        \* loops that a supervisor restarts after a panic
  Mirror,            \* the walks of the mirror, which share sync_state
  Pushes, Polls,     \* taps the WebSocket pushes, taps the poller fetches
  MaxClock,          \* bound: last millisecond
  PerSecond,         \* milliseconds of a second
  MaxFaults,         \* bound: crashes, panics, failed writes, abandoned requests
  MaxRuns,           \* bound: runs of a sync
  Mixes              \* bound: the combinations of runs, walks and taps that occur

Requests == Posted \cup Started
Runners  == Loops \cup Requests
Taps     == Pushes \cup Polls
Stamps   == 1 .. MaxClock
Rows     == Types \X Stamps

ASSUME RunnerAssumption ==
  /\ Loops \cap Requests = {} /\ Posted \cap Started = {}
  /\ TypeOf \in [Runners -> Types] /\ Loads \subseteq Types
  /\ Supervised \subseteq Loops
  /\ \A r \in Posted : TypeOf[r] \notin Loads
ASSUME TapAssumption == Pushes \cap Polls = {}
ASSUME ClockAssumption == MaxClock \in Nat \ {0} /\ PerSecond \in Nat \ {0}
                          /\ MaxFaults \in Nat /\ MaxRuns \in Nat 

VARIABLES
  phase,
  clock,
  (* Durable. *)
  jobs,      \* jobs[row]: its status, "none" while there is no such row
  syncState, \* the status in the one row of sync_state
  (* The process: lost when it ends. *)
  pc,        \* pc[r]: how far run r is
  at,        \* at[r]: the millisecond in the id of r's row
  outcome,   \* outcome[r]: how its work ended
  verdict,   \* verdict[r]: how it is reported to have ended
  gone,      \* requests whose client has given up
  staff,     \* the row an unstick request is about to fail
  socket,    \* the WebSocket's loop
  polling,   \* the poller's goroutine lives
  tap,       \* tap[t]: how far the answer to tap t is
  drained,   \* the Redpoint writes were drained before their deadline
  settled,   \* the background group was empty before its deadline
  (* History. *)
  shared,    \* rows whose id a second run took
  truth,     \* truth[row]: how the last of them ended
  stranded,  \* rows whose run ended without a word
  cleared,   \* rows that were running when an operator set out to fail them
  muddled,   \* rows of loads that did not read what they had written
  late,      \* work its drain could not wait for
  faults, begun,
  mix

rowVars  == <<jobs, syncState>>
runVars  == <<pc, at, outcome, verdict, gone>>
histVars == <<shared, truth, stranded, cleared, muddled>>
tapVars  == <<socket, polling, tap>>
stopVars == <<drained, settled>>
bounds   == <<faults, begun, mix>>
ghosts   == <<histVars, late, bounds>>
vars == <<phase, clock, rowVars, runVars, staff, tapVars, stopVars, ghosts>>

Statuses == {"none", "running", "completed", "failed"}
Closed   == {"completed", "failed"}
Phases   == {"run", "http", "ws", "drain", "group", "closing", "down"}

Up        == phase # "down"
Cancelled == phase \in {"group", "closing"}
RowOf(r)  == <<TypeOf[r], at[r]>>
Alive(r)  == pc[r] \in {"work", "verify", "finish"}

(* The statements order rows by created_at, the second. *)
Second(row) == row[2] \div PerSecond

Init ==
  /\ phase = "run"
  /\ clock = 1
  /\ jobs = [row \in Rows |-> "none"]
  /\ syncState = "idle"
  /\ pc = [r \in Runners |-> "idle"]
  /\ at = [r \in Runners |-> 0]
  /\ outcome = [r \in Runners |-> "none"]
  /\ verdict = [r \in Runners |-> "none"]
  /\ gone = {}
  /\ staff = {}
  /\ socket = "waiting"
  /\ polling = TRUE
  /\ tap = [t \in Taps |-> "none"]
  /\ drained = FALSE
  /\ settled = FALSE
  /\ shared = {}
  /\ truth = [row \in Rows |-> "none"]
  /\ stranded = {}
  /\ cleared = {}
  /\ muddled = {}
  /\ late = {}
  /\ faults = 0 /\ begun = 0
  /\ mix \in Mixes

Fault   == faults < MaxFaults /\ faults' = faults + 1
Another == begun < MaxRuns /\ begun' = begun + 1

Tick ==
  /\ clock < MaxClock
  /\ clock' = clock + 1
  /\ UNCHANGED <<phase, rowVars, runVars, staff, tapVars, stopVars, ghosts>>

(***************************************************************************)
(* Runs.                                                                   *)
(***************************************************************************)

Goto(r, from, to) ==
  /\ pc[r] = from
  /\ pc' = [pc EXCEPT ![r] = to]
  /\ UNCHANGED <<phase, clock, staff, tapVars, stopVars>>

(* The timer of a loop fires.  The context may be cancelled before the run *)
(* begins; it then begins all the same.                                    *)
Wake(r) ==
  /\ Another
  /\ r \in mix
  /\ Up /\ ~Cancelled /\ at[r] < clock
  /\ Goto(r, "idle", "start")
  /\ UNCHANGED <<rowVars, at, outcome, verdict, gone, histVars, late, faults, mix>>

LoopExit(r) ==
  /\ Cancelled
  /\ Goto(r, "idle", "dead")
  /\ UNCHANGED <<rowVars, at, outcome, verdict, gone, ghosts>>

(* A request for a sync.  What it checks first (a run in progress) is in   *)
(* the modules of the work it starts.                                      *)
Post(r) ==
  /\ Another
  /\ r \in mix
  /\ phase = "run" /\ at[r] < clock
  /\ Goto(r, "idle", "start")
  /\ UNCHANGED <<rowVars, at, outcome, verdict, gone, histVars, late, faults, mix>>

(* The browser gives up: the request's context is cancelled. *)
Leave(r) ==
  /\ Fault
  /\ pc[r] = "start" \/ (r \in Posted /\ pc[r] = "work")
  /\ r \notin gone
  /\ gone' = gone \cup {r}
  /\ UNCHANGED <<phase, clock, rowVars, pc, at, outcome, verdict, staff, tapVars,
                 stopVars, histVars, late, begun, mix>>

(* The rows that say "running" of those of the given runs that do run. *)
Running(S) == {row \in Rows : jobs[row] = "running"
                              /\ \E r \in S : Alive(r) /\ RowOf(r) = row}

(* The context of the work: the request's or the group's. *)
ContextDone(r) == IF r \in Posted THEN r \in gone ELSE Cancelled

IsLoad(r) == TypeOf[r] \in Loads

(* UpdateSyncState.  A load that has written how it ended and has not yet  *)
(* read it back will read this instead.                                    *)
WriteState(status, writers) ==
  /\ syncState' = status
  /\ muddled' = muddled \cup Running({q \in Runners \ writers : pc[q] = "verify"})

LoadWrites(r, status) == ~ContextDone(r) /\ WriteState(status, {r})

(* jobs.Start detaches its context, startSyncJob does not. *)
MayInsert(r) ==
  /\ r \in Loops \/ r \notin gone
  /\ jobs[<<TypeOf[r], clock>>] = "none"

Taken(row) == jobs[row] # "none" \/ \E q \in Runners : Alive(q) /\ RowOf(q) = row

(* The work begins whether or not the row was inserted: an error (a taken  *)
(* id, an abandoned request, a busy database) is only logged.  A load      *)
(* begins by writing sync_state, or fails to.                              *)
Begin(r, inserted) ==
  LET row == <<TypeOf[r], clock>> IN
  /\ IF inserted THEN MayInsert(r) /\ UNCHANGED faults
     ELSE IF MayInsert(r) THEN Fault ELSE UNCHANGED faults
  /\ Goto(r, "start", "work")
  /\ jobs' = IF inserted THEN [jobs EXCEPT ![row] = "running"] ELSE jobs
  /\ \/ IsLoad(r) /\ LoadWrites(r, "running")
     \/ UNCHANGED <<syncState, muddled>>
  /\ at' = [at EXCEPT ![r] = clock]
  /\ gone' = IF r \in Started THEN gone \ {r} ELSE gone
  /\ shared' = IF Taken(row) THEN shared \cup {row} ELSE shared
  /\ late' = IF r \in Started /\ phase = "closing" THEN late \cup {r} ELSE late
  /\ UNCHANGED <<outcome, verdict, truth, stranded, cleared, begun, mix>>

(* The work of a run that is not a load ends with a result or an error. *)
End(r, o) ==
  /\ ~IsLoad(r)
  /\ Goto(r, "work", "finish")
  /\ outcome' = [outcome EXCEPT ![r] = o]
  /\ verdict' = [verdict EXCEPT ![r] = o]
  /\ UNCHANGED <<rowVars, at, gone, ghosts>>

\* A failed page ends the load like the last one does.
LoadEndAlways(o) == "complete"
LoadEnd(o) == IF o = "ok" THEN "complete" ELSE "error"

Muddle(r) == muddled' = muddled \cup Running({r})

(* bulkLoadCustomers: a page has been kept, and there are more. *)
Page(r) ==
  /\ IsLoad(r) /\ pc[r] = "work"
  /\ LoadWrites(r, "running")
  /\ UNCHANGED <<phase, clock, jobs, runVars, staff, tapVars, stopVars, shared, truth,
                 stranded, cleared, late, bounds>>

(* bulkLoadCustomers writes how it ended, or fails to. *)
EndLoad(r, o) ==
  /\ IsLoad(r)
  /\ Goto(r, "work", "verify")
  /\ outcome' = [outcome EXCEPT ![r] = o]
  /\ \/ LoadWrites(r, LoadEnd(o))
     \/ UNCHANGED syncState /\ Muddle(r)
  /\ UNCHANGED <<jobs, at, verdict, gone, shared, truth, stranded, cleared, late, bounds>>

(* RunDirectorySync reads it back; a failed read counts as success. *)
ReadBack(r) ==
  /\ Goto(r, "verify", "finish")
  /\ \/ /\ ~ContextDone(r)
        /\ verdict' = [verdict EXCEPT ![r] = IF syncState = "error" THEN "error" ELSE "ok"]
        /\ UNCHANGED muddled
     \/ verdict' = [verdict EXCEPT ![r] = "ok"] /\ Muddle(r)
  /\ UNCHANGED <<rowVars, at, outcome, gone, shared, truth, stranded, cleared, late, bounds>>

(* A walk of the mirror writes the same row as it starts, keeps a page,    *)
(* ends or fails.                                                          *)
Walk(status) ==
  /\ Up /\ Mirror \in mix
  /\ WriteState(status, {})
  /\ UNCHANGED <<phase, clock, jobs, runVars, staff, tapVars, stopVars, shared, truth,
                 stranded, cleared, late, bounds>>

Forget(r) ==
  /\ outcome' = [outcome EXCEPT ![r] = "none"]
  /\ verdict' = [verdict EXCEPT ![r] = "none"]
  /\ gone' = gone \ {r}
  /\ UNCHANGED at

\* The verdict is written under the context of the request.
CloseUnlessGone(r, s) ==
  [row \in Rows |-> IF row = RowOf(r) /\ jobs[row] # "none" /\ r \notin gone
                    THEN s ELSE jobs[row]]
Close(r, s) ==
  [row \in Rows |-> IF row = RowOf(r) /\ jobs[row] # "none" THEN s ELSE jobs[row]]

(* CompleteJob and FailJob look at nothing but the id, under a context of  *)
(* their own.                                                              *)
Finish(r) ==
  /\ Goto(r, "finish", "idle")
  /\ Forget(r)
  /\ jobs' = Close(r, IF verdict[r] = "ok" THEN "completed" ELSE "failed")
  /\ truth' = [row \in Rows |-> IF row = RowOf(r) /\ jobs[row] # "none"
                                  THEN outcome[r] ELSE truth[row]]
  /\ UNCHANGED <<syncState, shared, stranded, cleared, muddled, late, bounds>>

(* The write fails (5 s, a busy database) and nobody tries again. *)
FinishLost(r) ==
  /\ Fault
  /\ Goto(r, "finish", "idle")
  /\ Forget(r)
  /\ stranded' = stranded \cup Running({r})
  /\ UNCHANGED <<rowVars, shared, truth, cleared, muddled, late, begun, mix>>

(* A panic in the work is recovered by the group or the server, and nobody *)
(* closes the row.  Only the status loop has a supervisor.                 *)
Panic(r) ==
  /\ Fault
  /\ Goto(r, "work", IF r \in Loops \ Supervised THEN "dead" ELSE "idle")
  /\ Forget(r)
  /\ stranded' = stranded \cup Running({r})
  /\ UNCHANGED <<rowVars, shared, truth, cleared, muddled, late, begun, mix>>

(***************************************************************************)
(* The operator's way out: fail the latest running row of a type.          *)
(***************************************************************************)

ActiveJobs(type) ==
  LET running == {row \in Rows : row[1] = type /\ jobs[row] = "running"} IN
  {row \in running : \A other \in running : Second(other) <= Second(row)}

Unstick(row) ==
  /\ phase = "run" /\ staff = {}
  /\ row \in ActiveJobs(row[1])
  /\ staff' = {row}
  /\ cleared' = cleared \cup {r \in {row} : jobs[r] = "running"}
  /\ UNCHANGED <<phase, clock, rowVars, runVars, tapVars, stopVars, shared, truth,
                 stranded, muddled, late, bounds>>

FailJob ==
  /\ staff # {}
  /\ jobs' = [row \in Rows |-> IF row \in staff THEN "failed" ELSE jobs[row]]
  /\ staff' = {}
  /\ UNCHANGED <<phase, clock, syncState, runVars, tapVars, stopVars, ghosts>>

FailJobLost ==
  /\ staff # {}
  /\ Fault
  /\ staff' = {}
  /\ UNCHANGED <<phase, clock, rowVars, runVars, tapVars, stopVars, histVars, late,
                 begun, mix>>

(***************************************************************************)
(* Taps: whoever delivers one answers it, and the Redpoint write of an     *)
(* allowed one is a goroutine the handler counts.                          *)
(***************************************************************************)

tapUnchanged == UNCHANGED <<phase, clock, rowVars, runVars, staff, stopVars,
                            histVars>>

(* connectLoop.  It looks whether the client was closed before it dials,   *)
(* not after; the socket only moves where the mix has taps to push.        *)
Connection(from, to) ==
  /\ Pushes \cap mix # {}
  /\ socket \in from /\ socket' = to
  /\ tapUnchanged /\ UNCHANGED <<polling, tap, late, bounds>>

SocketClosed == phase \in {"drain", "group", "closing"}

Dial       == Up /\ ~SocketClosed /\ Connection({"waiting"}, "dialing")
DialFails  == Connection({"dialing"}, "waiting")
Connected  == Connection({"dialing"}, "open")
SocketLost == (\A u \in Pushes : tap[u] # "answering")
              /\ Connection({"open", "closed"}, "waiting")
LoopEnds   == SocketClosed /\ Connection({"waiting"}, "gone")

(* readLoop answers what it reads.  From a connection that was closed      *)
(* under it, it still reads the frames that had come in.                   *)
Push(t) ==
  /\ t \in mix
  /\ socket \in {"open", "closed"}
  /\ tap[t] = "none" /\ \A u \in Pushes : tap[u] # "answering"
  /\ tap' = [tap EXCEPT ![t] = "answering"]
  /\ late' = IF SocketClosed THEN late \cup {t} ELSE late
  /\ tapUnchanged /\ UNCHANGED <<socket, polling, bounds>>

(* A fetch needs the group's context; the batch it brought does not. *)
Fetch(t) ==
  /\ t \in mix
  /\ polling /\ Up /\ ~Cancelled
  /\ tap[t] = "none"
  /\ tap' = [tap EXCEPT ![t] = "fetched"]
  /\ tapUnchanged /\ UNCHANGED <<socket, polling, late, bounds>>

Dispatch(t) ==
  /\ tap[t] = "fetched" /\ \A u \in Polls : tap[u] # "answering"
  /\ tap' = [tap EXCEPT ![t] = "answering"]
  /\ tapUnchanged /\ UNCHANGED <<socket, polling, late, bounds>>

Answered(t) ==
  /\ tap[t] = "answering"
  /\ tap' = [tap EXCEPT ![t] = "done"]
  /\ tapUnchanged /\ UNCHANGED <<socket, polling, late, bounds>>

PollerExit ==
  /\ polling /\ Cancelled
  /\ \A t \in Polls : tap[t] \notin {"fetched", "answering"}
  /\ polling' = FALSE
  /\ tapUnchanged /\ UNCHANGED <<socket, tap, late, bounds>>

(* asyncWG.Add, then the goroutine. *)
WriteAsync(t) ==
  /\ tap[t] = "answering"
  /\ tap' = [tap EXCEPT ![t] = "writing"]
  /\ tapUnchanged /\ UNCHANGED <<socket, polling, late, bounds>>

(* Answered or given up: the call has a deadline of its own. *)
WriteEnds(t) ==
  /\ tap[t] = "writing"
  /\ tap' = [tap EXCEPT ![t] = "done"]
  /\ tapUnchanged /\ UNCHANGED <<socket, polling, late, bounds>>

(***************************************************************************)
(* The shutdown.                                                           *)
(***************************************************************************)

Advance(from, to) ==
  /\ phase = from
  /\ phase' = to
  /\ UNCHANGED <<clock, rowVars, runVars, staff, polling, tap, histVars, bounds>>

(* SIGTERM, or a listener that failed. *)
Signal == Advance("run", "http") /\ UNCHANGED <<socket, stopVars, late>>

RequestsDone ==
  /\ staff = {}
  /\ \A r \in Posted : pc[r] = "idle"
  /\ \A r \in Started : pc[r] # "start"

HttpDrained ==
  RequestsDone /\ Advance("http", "ws") /\ UNCHANGED <<socket, stopVars, late>>
\* The servers are given all the time they need.
HttpTimeoutNever == FALSE
HttpTimeout ==
  ~RequestsDone /\ Advance("http", "ws") /\ UNCHANGED <<socket, stopVars, late>>

CloseSocket ==
  /\ Advance("ws", "drain")
  /\ socket' = IF socket = "open" THEN "closed" ELSE socket
  /\ UNCHANGED <<stopVars, late>>

\* The drain waits for the answers, not for the writes they left behind.
WritesDoneAnswered == \A t \in Taps : tap[t] # "answering"
WritesDone == \A t \in Taps : tap[t] # "writing"

DrainDone ==
  /\ WritesDone
  /\ Advance("drain", "group")
  /\ late' = late \cup {t \in Pushes : tap[t] = "answering"}
  /\ drained' = TRUE /\ UNCHANGED <<socket, settled>>
DrainTimeout ==
  ~WritesDone /\ Advance("drain", "group") /\ UNCHANGED <<socket, stopVars, late>>

(* bg.Group counts what it was given: the loops, the poller, the runs that *)
(* requests handed over.                                                   *)
GroupEmpty ==
  /\ \A r \in Loops : pc[r] = "dead"
  /\ \A r \in Started : ~Alive(r)
  /\ ~polling

GroupDone ==
  /\ GroupEmpty
  /\ Advance("group", "closing")
  /\ settled' = TRUE /\ UNCHANGED <<socket, drained, late>>
GroupTimeout ==
  ~GroupEmpty /\ Advance("group", "closing") /\ UNCHANGED <<socket, stopVars, late>>

(* The end of the process, wherever it is. *)
Die ==
  /\ phase' = "down"
  /\ pc' = [r \in Runners |-> "idle"]
  /\ staff' = {}
  /\ gone' = {}
  /\ socket' = "gone"
  /\ polling' = FALSE
  /\ tap' = [t \in Taps |-> IF tap[t] \in {"none", "done"} THEN tap[t] ELSE "cut"]
  /\ drained' = FALSE /\ settled' = FALSE
  /\ late' = {}
  /\ stranded' = stranded \cup Running(Runners)
  /\ outcome' = [r \in Runners |-> "none"]
  /\ verdict' = [r \in Runners |-> "none"]
  /\ UNCHANGED <<clock, rowVars, at, shared, truth, cleared, muddled, begun, mix>>

Exit  == phase = "closing" /\ Die /\ UNCHANGED faults
Crash == Up /\ phase # "closing" /\ Fault /\ Die

Boot ==
  /\ phase = "down" /\ clock < MaxClock
  /\ phase' = "run"
  /\ clock' = clock + 1
  /\ socket' = "waiting"
  /\ polling' = TRUE
  /\ UNCHANGED <<rowVars, runVars, staff, tap, stopVars, ghosts>>

Shutdown ==
  \/ HttpDrained \/ HttpTimeout
  \/ CloseSocket
  \/ DrainDone \/ DrainTimeout
  \/ GroupDone \/ GroupTimeout
  \/ Exit

Next ==
  \/ Tick
  \/ \E r \in Loops : Wake(r)
  \/ \E r \in Loops : LoopExit(r)
  \/ \E r \in Requests : Post(r)
  \/ \E r \in Requests : Leave(r)
  \/ \E r \in Runners : \E inserted \in BOOLEAN : Begin(r, inserted)
  \/ \E r \in Runners : \E o \in {"ok", "error"} : End(r, o)
  \/ \E r \in Runners : \E o \in {"ok", "error"} : EndLoad(r, o)
  \/ \E r \in Runners : Page(r)
  \/ \E r \in Runners : ReadBack(r)
  \/ \E status \in {"running", "complete", "error"} : Walk(status)
  \/ \E r \in Runners : Finish(r)
  \/ \E r \in Runners : FinishLost(r)
  \/ \E r \in Runners : Panic(r)
  \/ \E row \in Rows : Unstick(row)
  \/ FailJob
  \/ FailJobLost
  \/ Dial \/ DialFails \/ Connected \/ SocketLost \/ LoopEnds
  \/ \E t \in Pushes : Push(t)
  \/ \E t \in Polls : Fetch(t)
  \/ \E t \in Polls : Dispatch(t)
  \/ \E t \in Taps : Answered(t)
  \/ \E t \in Taps : WriteAsync(t)
  \/ \E t \in Taps : WriteEnds(t)
  \/ PollerExit
  \/ Signal
  \/ Shutdown
  \/ Crash
  \/ Boot

(* The shutdown runs by itself; nothing else is promised to make progress: *)
(* the work of a run may hang on a server for as long as it likes.         *)
Fairness == WF_vars(Shutdown)

Spec == Init /\ [][Next]_vars /\ Fairness

TypeOK ==
  /\ phase \in Phases
  /\ clock \in Stamps
  /\ jobs \in [Rows -> Statuses]
  /\ syncState \in {"idle", "running", "complete", "error"}
  /\ pc \in [Runners -> {"idle", "start", "work", "verify", "finish", "dead"}]
  /\ at \in [Runners -> 0 .. MaxClock]
  /\ outcome \in [Runners -> {"none", "ok", "error"}]
  /\ verdict \in [Runners -> {"none", "ok", "error"}]
  /\ gone \subseteq Requests
  /\ staff \subseteq Rows
  /\ socket \in {"waiting", "dialing", "open", "closed", "gone"}
  /\ polling \in BOOLEAN
  /\ tap \in [Taps -> {"none", "fetched", "answering", "writing", "done", "cut"}]
  /\ drained \in BOOLEAN /\ settled \in BOOLEAN
  /\ shared \subseteq Rows
  /\ truth \in [Rows -> {"none", "ok", "error"}]
  /\ stranded \subseteq Rows
  /\ cleared \subseteq Rows /\ muddled \subseteq Rows
  /\ late \subseteq Started \cup Taps
  /\ faults \in 0 .. MaxFaults /\ mix \in Mixes /\ begun \in 0 .. MaxRuns

(* A row that says "running" is the row of a run that is under way, or of  *)
(* one that ended without a word (a dead process, a panic, a lost write):  *)
(* an abandoned request leaves none behind (jobs.Finish, finishSyncJob).   *)
RunningIsTrue ==
  \A row \in Rows : jobs[row] = "running" =>
    \/ \E r \in Runners : Alive(r) /\ RowOf(r) = row
    \/ row \in stranded

(* The verdict in a row is that of the run that took its id, unless two    *)
(* runs took it, an operator cleared it, or it is a load that did not read *)
(* back what it wrote: a load or a walk wrote sync_state in between, or    *)
(* its write or its read failed (RunDirectorySync).  Loads that overlap    *)
(* otherwise do not take each other's verdict.                             *)
VerdictIsTheRuns ==
  \A row \in Rows :
    (jobs[row] \in Closed /\ row \notin shared \cup cleared \cup muddled)
      => truth[row] = IF jobs[row] = "completed" THEN "ok" ELSE "error"

(* What a row has been closed with stays, unless two runs share it or an   *)
(* operator set out to clear it while it ran: a run closes its own row only *)
(* (CompleteJob, FailJob), and the operator's button asks ActiveJob first   *)
(* (handleSyncUnstick).                                                    *)
VerdictsStay ==
  [][\A row \in Rows :
       (jobs[row] \in Closed /\ jobs'[row] # jobs[row])
         => row \in shared \cup cleared]_vars

(* A drain that was complete leaves no Redpoint write of a pushed tap      *)
(* behind but of those whose answer was not over when it was, or that came *)
(* in after the socket was closed (App.shutdown, steps 2 and 3).           *)
DrainIsComplete ==
  (Cancelled /\ drained) =>
    \A t \in Pushes : tap[t] \in {"answering", "writing"} => t \in late

(* A group that was empty before its deadline has nothing left that the    *)
(* process could cut off, but what requests handed to it afterwards.       *)
GroupIsComplete ==
  (phase = "closing" /\ settled) =>
    /\ \A r \in Loops \cup Started : Alive(r) => r \in late
    /\ \A t \in Polls : tap[t] \notin {"fetched", "answering"}

(* What an ordered shutdown promises of the two drains that ended in time: *)
(* of the writes of pushed taps, and of the background group.               *)
DrainsAreComplete == DrainIsComplete /\ GroupIsComplete

(* A shutdown ends, whatever hangs (the deadlines of App.shutdown). *)
StopsInTime == phase = "http" ~> phase = "down"
=============================================================================

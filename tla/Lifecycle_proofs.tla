--------------------------- MODULE Lifecycle_proofs ---------------------------
(***************************************************************************)
(* What Lifecycle promises, for any number of runs, job types, taps and    *)
(* milliseconds, and any number of crashes, panics and lost writes.        *)
(*                                                                         *)
(* Rows of the jobs table follow from three facts about a run under way    *)
(* (RowInv): runs whose ids collide are in `shared`, a row that is closed  *)
(* under its run was cleared by hand or shared, and an operator only goes  *)
(* after rows in `cleared`.  A verdict is that of its run because whoever  *)
(* writes sync_state puts the rows of the loads about to read it back in   *)
(* `muddled`: the others read what they wrote (LoadInv).                   *)
(* The shutdown stands on ShutInv: the drains happen in their phases, and  *)
(* what ended with the group stays ended.                                  *)
(*                                                                         *)
(* The last section is about the watchdog of Schedules.                    *)
(***************************************************************************)
EXTENDS Lifecycle, Schedules, WellFoundedInduction, TLAPS

Excused == shared \cup cleared \cup muddled

RowInv ==
  /\ \A r \in Runners : Alive(r) => at[r] \in Stamps
  /\ \A q, r \in Runners :
       (q # r /\ Alive(q) /\ Alive(r) /\ RowOf(q) = RowOf(r)) => RowOf(r) \in shared
  /\ \A r \in Runners :
       (Alive(r) /\ jobs[RowOf(r)] \in Closed) => RowOf(r) \in shared \cup cleared
  /\ staff \subseteq cleared

Counts(r) == Alive(r) /\ jobs[RowOf(r)] = "running" /\ RowOf(r) \notin Excused

LoadInv ==
  /\ \A r \in Runners :
       (pc[r] = "verify" /\ Counts(r)) =>
         /\ outcome[r] \in {"ok", "error"}
         /\ syncState = "error" <=> outcome[r] = "error"
  /\ \A r \in Runners :
       (pc[r] = "finish" /\ Counts(r)) =>
         /\ outcome[r] \in {"ok", "error"}
         /\ verdict[r] = outcome[r]

ShutInv ==
  /\ ~polling => \A t \in Polls : tap[t] \notin {"fetched", "answering"}
  /\ drained => /\ Cancelled
                /\ \A t \in Pushes : tap[t] \in {"answering", "writing"} => t \in late
  /\ settled => /\ phase = "closing"
                /\ ~polling
                /\ \A r \in Loops : pc[r] = "dead"
                /\ \A r \in Started : Alive(r) => r \in late

IInv == TypeOK /\ RowInv /\ RunningIsTrue /\ LoadInv /\ VerdictIsTheRuns /\ ShutInv

(***************************************************************************)
(* Types.                                                                  *)
(***************************************************************************)

LEMMA RowIsRow ==
  ASSUME NEW r \in Runners, at[r] \in Stamps PROVE RowOf(r) \in Rows
BY RunnerAssumption DEF RunnerAssumption, RowOf, Rows

LEMMA BeginRowIsRow ==
  ASSUME TypeOK, NEW r \in Runners PROVE <<TypeOf[r], clock>> \in Rows
BY RunnerAssumption DEF RunnerAssumption, Rows, TypeOK

LEMMA ClockIsStamp ==
  ASSUME TypeOK, clock < MaxClock PROVE clock + 1 \in Stamps
BY ClockAssumption DEF ClockAssumption, Stamps, TypeOK

LEMMA FaultCounted ==
  ASSUME TypeOK, Fault PROVE faults' \in 0 .. MaxFaults
BY ClockAssumption DEF ClockAssumption, Fault, TypeOK

LEMMA AnotherCounted ==
  ASSUME TypeOK, Another PROVE begun' \in 0 .. MaxRuns
BY ClockAssumption DEF ClockAssumption, Another, TypeOK

LEMMA InitTypes == Init => TypeOK
<1> SUFFICES ASSUME Init PROVE TypeOK OBVIOUS
<1>1. clock \in Stamps /\ 0 \in 0 .. MaxClock /\ 0 \in 0 .. MaxFaults /\ 0 \in 0 .. MaxRuns
  BY ClockAssumption DEF ClockAssumption, Init, Stamps
<1> QED BY <1>1 DEF Init, TypeOK, Phases, Statuses

(* Actions that leave the tables and the runs alone, as far as the rows    *)
(* are concerned.                                                          *)
Quiet ==
  \/ Tick
  \/ \E r \in Requests : Leave(r)
  \/ Dial \/ DialFails \/ Connected \/ SocketLost \/ LoopEnds
  \/ \E t \in Pushes : Push(t)
  \/ \E t \in Polls : Fetch(t)
  \/ \E t \in Polls : Dispatch(t)
  \/ \E t \in Taps : Answered(t)
  \/ \E t \in Taps : WriteAsync(t)
  \/ \E t \in Taps : WriteEnds(t)
  \/ PollerExit
  \/ Signal
  \/ HttpDrained \/ HttpTimeout
  \/ CloseSocket
  \/ DrainDone \/ DrainTimeout
  \/ GroupDone \/ GroupTimeout
  \/ Boot

(* Actions that only decide whether a run will begin. *)
Arrival ==
  \/ \E r \in Loops : Wake(r) \/ LoopExit(r)
  \/ \E r \in Requests : Post(r)

Work ==
  \/ \E r \in Runners : \E inserted \in BOOLEAN : Begin(r, inserted)
  \/ \E r \in Runners : \E o \in {"ok", "error"} : End(r, o)
  \/ \E r \in Runners : \E o \in {"ok", "error"} : EndLoad(r, o)
  \/ \E r \in Runners : Page(r)
  \/ \E r \in Runners : ReadBack(r)
  \/ \E status \in {"running", "complete", "error"} : Walk(status)
  \/ \E r \in Runners : Finish(r)
  \/ \E r \in Runners : FinishLost(r)
  \/ \E r \in Runners : Panic(r)

Operator ==
  \/ \E row \in Rows : Unstick(row)
  \/ FailJob
  \/ FailJobLost

Ending == Exit \/ Crash

LEMMA NextCases == Next => Quiet \/ Arrival \/ Work \/ Operator \/ Ending
BY DEF Next, Shutdown, Quiet, Arrival, Work, Operator, Ending

LEMMA QuietTypes ==
  ASSUME TypeOK, Quiet PROVE TypeOK'
<1>1. CASE Tick
  BY <1>1, ClockIsStamp DEF TypeOK, Tick, rowVars, runVars, tapVars, stopVars, ghosts, histVars, bounds
<1>2. ASSUME NEW r \in Requests, Leave(r) PROVE TypeOK'
  BY <1>2, FaultCounted DEF TypeOK, Leave, rowVars, tapVars, stopVars, histVars
<1>3. CASE Dial \/ DialFails \/ Connected \/ SocketLost \/ LoopEnds
  BY <1>3 DEF TypeOK, Dial, DialFails, Connected, SocketLost, LoopEnds, Connection, tapUnchanged,
              rowVars, runVars, stopVars, histVars, bounds
<1>4. ASSUME NEW t \in Taps,
             (t \in Pushes /\ Push(t)) \/ (t \in Polls /\ (Fetch(t) \/ Dispatch(t)))
             \/ Answered(t) \/ WriteAsync(t) \/ WriteEnds(t)
      PROVE TypeOK'
  BY <1>4 DEF TypeOK, Push, Fetch, Dispatch, Answered, WriteAsync, WriteEnds, tapUnchanged,
              rowVars, runVars, stopVars, histVars, bounds, Taps
<1>5. CASE PollerExit
  BY <1>5 DEF TypeOK, PollerExit, tapUnchanged, rowVars, runVars, stopVars, histVars, bounds
<1>6. CASE Signal \/ HttpDrained \/ HttpTimeout \/ CloseSocket \/ DrainTimeout \/ GroupTimeout
  BY <1>6 DEF TypeOK, Signal, HttpDrained, HttpTimeout, CloseSocket, DrainTimeout, GroupTimeout,
              Advance, Phases, rowVars, runVars, stopVars, histVars, bounds
<1>7. CASE DrainDone \/ GroupDone
  BY <1>7 DEF TypeOK, DrainDone, GroupDone, Advance, Phases, rowVars, runVars, histVars, bounds, Taps
<1>8. CASE Boot
  BY <1>8, ClockIsStamp DEF TypeOK, Boot, Phases, rowVars, runVars, stopVars, ghosts, histVars, bounds
<1> QED BY <1>1, <1>2, <1>3, <1>4, <1>5, <1>6, <1>7, <1>8 DEF Quiet, Taps

LEMMA ArrivalTypes ==
  ASSUME TypeOK, Arrival PROVE TypeOK'
BY AnotherCounted
DEF TypeOK, Arrival, Wake, LoopExit, Post, Goto, Runners, Requests, rowVars, tapVars, stopVars,
    histVars, ghosts, bounds

LEMMA WorkTypes ==
  ASSUME TypeOK, Work PROVE TypeOK'
<1>1. ASSUME NEW r \in Runners, NEW inserted \in BOOLEAN, Begin(r, inserted) PROVE TypeOK'
  <2> DEFINE row == <<TypeOf[r], clock>>
  <2>1. row \in Rows BY BeginRowIsRow
  <2>2. /\ phase' = phase /\ clock' = clock /\ staff' = staff
        /\ UNCHANGED <<tapVars, stopVars>>
        /\ pc' = [pc EXCEPT ![r] = "work"]
    BY <1>1 DEF Begin, Goto
  <2>3. jobs' \in [Rows -> Statuses] BY <1>1, <2>1 DEF Begin, TypeOK, Statuses
  <2>4. faults' \in 0 .. MaxFaults BY <1>1, FaultCounted DEF Begin, TypeOK
  <2>5. at' \in [Runners -> 0 .. MaxClock] /\ gone' \subseteq Requests
        /\ syncState' \in {"idle", "running", "complete", "error"}
    BY <1>1, ClockAssumption DEF Begin, LoadWrites, WriteState, TypeOK, Stamps, ClockAssumption
  <2>6. shared' \subseteq Rows BY <1>1, <2>1 DEF Begin, TypeOK
  <2>7. muddled' \subseteq Rows BY <1>1 DEF Begin, LoadWrites, WriteState, TypeOK, Running
  <2>8. late' \subseteq Started \cup Taps BY <1>1 DEF Begin, TypeOK
  <2>9. UNCHANGED <<outcome, verdict, truth, stranded, cleared, begun, mix>> BY <1>1 DEF Begin
  <2> QED BY <2>2, <2>3, <2>4, <2>5, <2>6, <2>7, <2>8, <2>9 DEF TypeOK, tapVars, stopVars
<1>2. ASSUME NEW r \in Runners, NEW o \in {"ok", "error"}, End(r, o) PROVE TypeOK'
  BY <1>2 DEF TypeOK, End, Goto, rowVars, tapVars, stopVars, ghosts, histVars, bounds
<1>3. ASSUME NEW r \in Runners, NEW o \in {"ok", "error"}, EndLoad(r, o) PROVE TypeOK'
  <2>1. syncState' \in {"idle", "running", "complete", "error"} /\ muddled' \subseteq Rows
    BY <1>3 DEF TypeOK, EndLoad, LoadWrites, WriteState, LoadEnd, Muddle, Running
  <2> QED BY <1>3, <2>1 DEF TypeOK, EndLoad, Goto, tapVars, stopVars, bounds
<1>4. ASSUME NEW r \in Runners, ReadBack(r) PROVE TypeOK'
  BY <1>4 DEF TypeOK, ReadBack, Muddle, Goto, Running, rowVars, tapVars, stopVars, bounds
<1>7. ASSUME NEW status \in {"running", "complete", "error"},
             Walk(status) \/ (status = "running" /\ \E r \in Runners : Page(r))
      PROVE TypeOK'
  BY <1>7 DEF TypeOK, Walk, Page, LoadWrites, WriteState, Running, runVars, tapVars, stopVars, bounds
<1>5. ASSUME NEW r \in Runners, Finish(r) PROVE TypeOK'
  BY <1>5 DEF TypeOK, Finish, Forget, Close, Goto, Statuses, tapVars, stopVars, bounds
<1>6. ASSUME NEW r \in Runners, FinishLost(r) \/ Panic(r) PROVE TypeOK'
  BY <1>6, FaultCounted DEF TypeOK, FinishLost, Panic, Forget, Goto, Running, rowVars, tapVars, stopVars
<1> QED BY <1>1, <1>2, <1>3, <1>4, <1>5, <1>6, <1>7 DEF Work

LEMMA OperatorTypes ==
  ASSUME TypeOK, Operator PROVE TypeOK'
<1>1. ASSUME NEW row \in Rows, Unstick(row) PROVE TypeOK'
  BY <1>1 DEF TypeOK, Unstick, rowVars, runVars, tapVars, stopVars, bounds
<1>2. CASE FailJob
  BY <1>2 DEF TypeOK, FailJob, Statuses, runVars, tapVars, stopVars, ghosts, histVars, bounds
<1>3. CASE FailJobLost
  BY <1>3, FaultCounted DEF TypeOK, FailJobLost, rowVars, runVars, tapVars, stopVars, histVars
<1> QED BY <1>1, <1>2, <1>3 DEF Operator

LEMMA EndingTypes ==
  ASSUME TypeOK, Ending PROVE TypeOK'
<1>1. Die /\ faults' \in 0 .. MaxFaults
  BY FaultCounted DEF Ending, Exit, Crash, TypeOK
<1> QED BY <1>1 DEF TypeOK, Die, Phases, Running, rowVars

LEMMA StutterTypes == ASSUME TypeOK, UNCHANGED vars PROVE TypeOK'
BY DEF TypeOK, vars, rowVars, runVars, tapVars, stopVars, ghosts, histVars, bounds

LEMMA NextTypes == ASSUME TypeOK, [Next]_vars PROVE TypeOK'
BY NextCases, QuietTypes, ArrivalTypes, WorkTypes, OperatorTypes, EndingTypes, StutterTypes

(* For any number of runs, taps and milliseconds, every variable keeps its *)
(* type.                                                                   *)
THEOREM TypeCorrect == Spec => []TypeOK
BY InitTypes, NextTypes, PTL DEF Spec

(***************************************************************************)
(* Rows.                                                                   *)
(***************************************************************************)

RunVars == <<jobs, syncState, at, outcome, verdict, staff, histVars>>

RowsInv == RowInv /\ RunningIsTrue /\ LoadInv /\ VerdictIsTheRuns

LEMMA InitRows == Init => RowsInv
BY DEF Init, RowsInv, RowInv, RunningIsTrue, LoadInv, VerdictIsTheRuns, Alive, Counts, Closed

(* A run that is not under way may come and go: nothing is said of it.     *)
LEMMA SameRuns ==
  ASSUME RowsInv, UNCHANGED RunVars,
         \A r \in Runners : pc[r] = pc'[r] \/ (~Alive(r) /\ ~Alive(r)')
  PROVE  RowsInv'
<1>1. \A r \in Runners : /\ Alive(r)' <=> Alive(r)
                         /\ RowOf(r)' = RowOf(r)
                         /\ pc'[r] \in {"work", "verify", "finish"} => pc'[r] = pc[r]
  BY DEF Alive, RunVars, RowOf
<1>2. RowInv' BY <1>1 DEF RowsInv, RowInv, RunVars, histVars
<1>3. RunningIsTrue' BY <1>1 DEF RowsInv, RunningIsTrue, RunVars, histVars
<1>4. VerdictIsTheRuns' BY DEF RowsInv, VerdictIsTheRuns, RunVars, histVars
<1>5. \A r \in Runners : Counts(r)' => Counts(r)
  BY <1>1 DEF Counts, Excused, RunVars, histVars
<1>6. LoadInv' BY <1>1, <1>5 DEF RowsInv, LoadInv, RunVars
<1> QED BY <1>2, <1>3, <1>4, <1>6 DEF RowsInv

LEMMA QuietRows ==
  ASSUME RowsInv, Quiet PROVE RowsInv'
<1>1. UNCHANGED RunVars /\ pc' = pc
  BY DEF Quiet, Tick, Leave, Dial, DialFails, Connected, SocketLost, LoopEnds, Connection, Push,
         Fetch, Dispatch, Answered, WriteAsync, WriteEnds, PollerExit, tapUnchanged, Signal,
         HttpDrained, HttpTimeout, CloseSocket, DrainDone, DrainTimeout, GroupDone, GroupTimeout,
         Advance, Boot, RunVars, rowVars, runVars, ghosts, histVars
<1> QED BY <1>1, SameRuns

LEMMA ArrivalRows ==
  ASSUME TypeOK, RowsInv, Arrival PROVE RowsInv'
<1>1. UNCHANGED RunVars
  BY DEF Arrival, Wake, LoopExit, Post, Goto, RunVars, rowVars, ghosts, histVars
<1>2. \E r \in Runners : pc[r] = "idle" /\ \E to \in {"start", "dead"} : pc' = [pc EXCEPT ![r] = to]
  BY DEF Arrival, Wake, LoopExit, Post, Goto, Runners, Requests
<1>3. \A r \in Runners : pc[r] = pc'[r] \/ (~Alive(r) /\ ~Alive(r)')
  BY <1>2 DEF TypeOK, Alive
<1> QED BY <1>1, <1>3, SameRuns

(* The end of the process: nobody is under way, and the rows that said so  *)
(* are stranded.                                                           *)
LEMMA EndingRows ==
  ASSUME RowsInv, Ending PROVE RowsInv'
<1>1. Die BY DEF Ending, Exit, Crash
<1>2. \A r \in Runners : pc'[r] = "idle" BY <1>1 DEF Die
<1>3. \A r \in Runners : ~Alive(r)' BY <1>2 DEF Alive
<1>4. RowInv' BY <1>1, <1>3 DEF RowInv, Die
<1>5. RunningIsTrue'
  BY <1>1 DEF RowsInv, RunningIsTrue, Running, Die, rowVars
<1>6. LoadInv' BY <1>2, <1>3 DEF LoadInv, Counts
<1>7. VerdictIsTheRuns' BY <1>1 DEF RowsInv, VerdictIsTheRuns, Die, rowVars
<1> QED BY <1>4, <1>5, <1>6, <1>7 DEF RowsInv

LEMMA OperatorRows ==
  ASSUME TypeOK, RowsInv, Operator PROVE RowsInv'
<1>1. /\ UNCHANGED <<syncState, pc, at, outcome, verdict, shared, truth, stranded, muddled>>
      /\ cleared \subseteq cleared' /\ staff' \subseteq cleared'
  BY DEF RowsInv, RowInv, Operator, Unstick, ActiveJobs, FailJob, FailJobLost, rowVars, runVars,
         ghosts, histVars
<1>2. \A row \in Rows : jobs'[row] = jobs[row] \/ (row \in cleared' /\ jobs'[row] = "failed")
  BY <1>1 DEF RowsInv, RowInv, Operator, Unstick, FailJob, FailJobLost, rowVars, TypeOK
<1>3. \A r \in Runners : (Alive(r)' <=> Alive(r)) /\ RowOf(r)' = RowOf(r)
                         /\ (Alive(r) => RowOf(r) \in Rows)
  BY <1>1, RowIsRow DEF RowsInv, RowInv, Alive, RowOf
<1>4. RowInv' BY <1>1, <1>2, <1>3 DEF RowsInv, RowInv, Closed
<1>5. RunningIsTrue' BY <1>1, <1>2, <1>3 DEF RowsInv, RunningIsTrue
<1>6. \A r \in Runners : Counts(r)' => Counts(r)
  BY <1>1, <1>2, <1>3 DEF Counts, Excused
<1>7. LoadInv' BY <1>1, <1>6 DEF RowsInv, LoadInv
<1>8. VerdictIsTheRuns' BY <1>1, <1>2 DEF RowsInv, VerdictIsTheRuns
<1> QED BY <1>4, <1>5, <1>7, <1>8 DEF RowsInv

(* Whoever writes sync_state excuses the loads that are about to read it.  *)
LEMMA Overwritten ==
  ASSUME TypeOK, RowsInv, NEW status, NEW writers, WriteState(status, writers),
         NEW q \in Runners \ writers, pc[q] = "verify", Counts(q)
  PROVE  RowOf(q) \in muddled'
<1>1. RowOf(q) \in Rows BY RowIsRow DEF RowsInv, RowInv, Counts
<1>2. RowOf(q) \in Running({p \in Runners \ writers : pc[p] = "verify"})
  BY <1>1 DEF Running, Counts
<1> QED BY <1>2 DEF WriteState

(* A run begins.  If another run under way holds its id, or a row does, the *)
(* row is shared from now on.                                               *)
LEMMA BeginRows ==
  ASSUME TypeOK, RowsInv, NEW r \in Runners, NEW inserted \in BOOLEAN, Begin(r, inserted)
  PROVE  RowsInv'
<1> DEFINE row == <<TypeOf[r], clock>>
<1>1. /\ pc[r] = "start" /\ pc' = [pc EXCEPT ![r] = "work"]
      /\ at' = [at EXCEPT ![r] = clock]
      /\ jobs' = IF inserted THEN [jobs EXCEPT ![row] = "running"] ELSE jobs
      /\ inserted => jobs[row] = "none"
      /\ shared' = IF Taken(row) THEN shared \cup {row} ELSE shared
      /\ UNCHANGED <<outcome, verdict, truth, stranded, cleared, staff>>
  BY DEF Begin, Goto, MayInsert
<1>2. muddled \subseteq muddled' /\ (syncState' = syncState \/ WriteState("running", {r}))
  BY DEF Begin, LoadWrites, WriteState
<1>3. row \in Rows /\ clock \in Stamps /\ RowOf(r)' = row
  BY <1>1, BeginRowIsRow DEF TypeOK, RowOf
<1>4. ~Alive(r) /\ Alive(r)' BY <1>1 DEF Alive, TypeOK
<1>5. \A q \in Runners \ {r} :
        /\ pc'[q] = pc[q] /\ (Alive(q)' <=> Alive(q)) /\ RowOf(q)' = RowOf(q) /\ at'[q] = at[q]
        /\ Alive(q) => RowOf(q) \in Rows
  BY <1>1, RowIsRow DEF TypeOK, Alive, RowOf, RowsInv, RowInv
<1>6. \A w \in Rows : jobs'[w] = IF inserted /\ w = row THEN "running" ELSE jobs[w]
  BY <1>1, <1>3 DEF TypeOK
<1>7. \A q \in Runners \ {r} : Alive(q) /\ RowOf(q) = row => row \in shared'
  BY <1>1 DEF Taken
<1>8. RowInv'
  <2>1. (\A q \in Runners : Alive(q) => at[q] \in Stamps)'
    BY <1>1, <1>3, <1>4, <1>5 DEF RowsInv, RowInv, TypeOK
  <2>2. (\A p, q \in Runners :
           (p # q /\ Alive(p) /\ Alive(q) /\ RowOf(p) = RowOf(q)) => RowOf(q) \in shared)'
    <3> SUFFICES ASSUME NEW p \in Runners, NEW q \in Runners, p # q, Alive(p)', Alive(q)',
                        RowOf(p)' = RowOf(q)'
                 PROVE  RowOf(q)' \in shared'
      OBVIOUS
    <3>1. CASE p = r BY <3>1, <1>3, <1>5, <1>7
    <3>2. CASE q = r BY <3>2, <1>3, <1>5, <1>7
    <3>3. CASE p # r /\ q # r BY <3>3, <1>1, <1>5 DEF RowsInv, RowInv
    <3> QED BY <3>1, <3>2, <3>3
  <2>3. (\A q \in Runners : (Alive(q) /\ jobs[RowOf(q)] \in Closed) => RowOf(q) \in shared \cup cleared)'
    <3> SUFFICES ASSUME NEW q \in Runners, Alive(q)', jobs'[RowOf(q)'] \in Closed
                 PROVE  RowOf(q)' \in shared' \cup cleared'
      BY DEF Closed
    <3>1. CASE q = r
      <4>1. jobs[row] # "none" BY <3>1, <1>3, <1>6 DEF Closed
      <4> QED BY <4>1, <3>1, <1>1, <1>3 DEF Taken
    <3>2. CASE q # r BY <3>2, <1>1, <1>5, <1>6 DEF RowsInv, RowInv, Closed
    <3> QED BY <3>1, <3>2
  <2>4. (staff \subseteq cleared)' BY <1>1 DEF RowsInv, RowInv
  <2> QED BY <2>1, <2>2, <2>3, <2>4 DEF RowInv
<1>9. RunningIsTrue'
  BY <1>1, <1>3, <1>4, <1>5, <1>6 DEF RowsInv, RunningIsTrue
<1>10. \A q \in Runners \ {r} : Counts(q)' => Counts(q)
  <2> SUFFICES ASSUME NEW q \in Runners \ {r}, Counts(q)' PROVE Counts(q) OBVIOUS
  <2>1. RowOf(q)' \notin shared' /\ RowOf(q)' \notin cleared' /\ RowOf(q)' \notin muddled'
        /\ Alive(q)' /\ jobs'[RowOf(q)'] = "running"
    BY DEF Counts, Excused
  <2>2. RowOf(q) # row BY <2>1, <1>5, <1>7
  <2> QED BY <2>1, <2>2, <1>1, <1>2, <1>5, <1>6 DEF Counts, Excused
<1>11. LoadInv'
  <2>1. (\A q \in Runners : (pc[q] = "verify" /\ Counts(q)) =>
           /\ outcome[q] \in {"ok", "error"}
           /\ syncState = "error" <=> outcome[q] = "error")'
    <3> SUFFICES ASSUME NEW q \in Runners, pc'[q] = "verify", Counts(q)'
                 PROVE  /\ outcome'[q] \in {"ok", "error"}
                        /\ syncState' = "error" <=> outcome'[q] = "error"
      OBVIOUS
    <3>1. q # r /\ pc[q] = "verify" /\ Counts(q)
      BY <1>1, <1>5, <1>10 DEF TypeOK
    <3>2. RowOf(q) \notin muddled' BY <3>1, <1>5 DEF Counts, Excused
    <3>3. syncState' = syncState BY <3>1, <3>2, <1>2, Overwritten
    <3> QED BY <3>1, <3>3, <1>1 DEF RowsInv, LoadInv
  <2>2. (\A q \in Runners : (pc[q] = "finish" /\ Counts(q)) =>
           /\ outcome[q] \in {"ok", "error"}
           /\ verdict[q] = outcome[q])'
    BY <1>1, <1>5, <1>10 DEF RowsInv, LoadInv, TypeOK
  <2> QED BY <2>1, <2>2 DEF LoadInv
<1>12. VerdictIsTheRuns'
  BY <1>1, <1>2, <1>6 DEF RowsInv, VerdictIsTheRuns, Closed
<1> QED BY <1>8, <1>9, <1>11, <1>12 DEF RowsInv

(* The work and its end.  Whoever reads back sync_state without an excuse   *)
(* reads what it wrote.                                                     *)
LEMMA SameTable ==
  ASSUME TypeOK, RowsInv,
         \A q \in Runners : pc'[q] = pc[q] \/ (Alive(q) /\ Alive(q)'),
         UNCHANGED <<jobs, at, staff, shared, truth, stranded, cleared>>,
         muddled \subseteq muddled'
  PROVE  /\ RowInv' /\ RunningIsTrue' /\ VerdictIsTheRuns'
         /\ \A q \in Runners : RowOf(q)' = RowOf(q) /\ (Counts(q)' => Counts(q))
<1>1. \A q \in Runners : (Alive(q)' <=> Alive(q)) /\ RowOf(q)' = RowOf(q)
  BY DEF Alive, RowOf
<1>2. RowInv' BY <1>1 DEF RowsInv, RowInv
<1>3. RunningIsTrue' BY <1>1 DEF RowsInv, RunningIsTrue
<1>4. VerdictIsTheRuns' BY DEF RowsInv, VerdictIsTheRuns
<1>5. \A q \in Runners : Counts(q)' => Counts(q) BY <1>1 DEF Counts, Excused
<1> QED BY <1>1, <1>2, <1>3, <1>4, <1>5

LEMMA EndRows ==
  ASSUME TypeOK, RowsInv, NEW r \in Runners, NEW o \in {"ok", "error"}, End(r, o)
  PROVE  RowsInv'
<1>1. /\ pc[r] = "work" /\ pc'[r] = "finish"
      /\ \A q \in Runners \ {r} : pc'[q] = pc[q] /\ outcome'[q] = outcome[q] /\ verdict'[q] = verdict[q]
      /\ outcome'[r] = o /\ verdict'[r] = o
      /\ UNCHANGED <<jobs, syncState, at, staff, shared, truth, stranded, cleared, muddled>>
  BY DEF End, Goto, TypeOK, rowVars, ghosts, histVars
<1>2. Alive(r) /\ Alive(r)' BY <1>1 DEF Alive
<1>3. /\ RowInv' /\ RunningIsTrue' /\ VerdictIsTheRuns'
      /\ \A q \in Runners : RowOf(q)' = RowOf(q) /\ (Counts(q)' => Counts(q))
  BY <1>1, <1>2, SameTable
<1>4. LoadInv' BY <1>1, <1>3 DEF RowsInv, LoadInv
<1> QED BY <1>3, <1>4 DEF RowsInv

(* A page kept by a load, or a walk: the row of sync_state changes, and     *)
(* no run moves.                                                            *)
LEMMA WriteRows ==
  ASSUME TypeOK, RowsInv, NEW status, NEW writers, WriteState(status, writers),
         \A r \in Runners \cap writers : pc[r] # "verify",
         UNCHANGED <<jobs, runVars, staff, shared, truth, stranded, cleared>>
  PROVE  RowsInv'
<1>1. UNCHANGED <<pc, at, outcome, verdict>> BY DEF runVars
<1>2. muddled \subseteq muddled' BY DEF WriteState
<1>3. /\ RowInv' /\ RunningIsTrue' /\ VerdictIsTheRuns'
      /\ \A q \in Runners : RowOf(q)' = RowOf(q) /\ (Counts(q)' => Counts(q))
  BY <1>1, <1>2, SameTable
<1>4. \A q \in Runners : pc[q] = "verify" => ~Counts(q)'
  <2> SUFFICES ASSUME NEW q \in Runners, pc[q] = "verify", Counts(q)' PROVE FALSE OBVIOUS
  <2>1. q \in Runners \ writers OBVIOUS
  <2>2. Counts(q) BY <1>3
  <2>3. RowOf(q) \in muddled' BY <2>1, <2>2, Overwritten
  <2> QED BY <2>3, <1>3 DEF Counts, Excused
<1>5. LoadInv' BY <1>1, <1>3, <1>4 DEF RowsInv, LoadInv
<1> QED BY <1>3, <1>5 DEF RowsInv

LEMMA PageRows ==
  ASSUME TypeOK, RowsInv, NEW r \in Runners, Page(r) PROVE RowsInv'
<1>1. WriteState("running", {r}) /\ pc[r] # "verify"
      /\ UNCHANGED <<jobs, runVars, staff, shared, truth, stranded, cleared>>
  BY DEF Page, LoadWrites
<1> QED BY <1>1, WriteRows

LEMMA WalkRows ==
  ASSUME TypeOK, RowsInv, NEW status, Walk(status) PROVE RowsInv'
<1>1. WriteState(status, {})
      /\ UNCHANGED <<jobs, runVars, staff, shared, truth, stranded, cleared>>
  BY DEF Walk
<1> QED BY <1>1, WriteRows

LEMMA MuddledRow ==
  ASSUME TypeOK, RowsInv, NEW r \in Runners, Muddle(r), Counts(r)
  PROVE  RowOf(r) \in muddled'
<1>1. RowOf(r) \in Rows BY RowIsRow DEF RowsInv, RowInv, Counts
<1> QED BY <1>1 DEF Muddle, Running, Counts

LEMMA EndLoadRows ==
  ASSUME TypeOK, RowsInv, NEW r \in Runners, NEW o \in {"ok", "error"}, EndLoad(r, o)
  PROVE  RowsInv'
<1>1. /\ pc[r] = "work" /\ pc'[r] = "verify"
      /\ \A q \in Runners \ {r} : pc'[q] = pc[q] /\ outcome'[q] = outcome[q]
      /\ outcome'[r] = o /\ verdict' = verdict
      /\ WriteState(LoadEnd(o), {r}) \/ (syncState' = syncState /\ Muddle(r))
      /\ UNCHANGED <<jobs, at, staff, shared, truth, stranded, cleared>>
  BY DEF EndLoad, Goto, LoadWrites, TypeOK
<1>2. Alive(r) /\ Alive(r)' /\ muddled \subseteq muddled'
  BY <1>1 DEF Alive, WriteState, Muddle
<1>3. /\ RowInv' /\ RunningIsTrue' /\ VerdictIsTheRuns'
      /\ \A q \in Runners : RowOf(q)' = RowOf(q) /\ (Counts(q)' => Counts(q))
  BY <1>1, <1>2, SameTable
<1>4. (\A q \in Runners : (pc[q] = "verify" /\ Counts(q)) =>
         /\ outcome[q] \in {"ok", "error"}
         /\ syncState = "error" <=> outcome[q] = "error")'
  <2> SUFFICES ASSUME NEW q \in Runners, pc'[q] = "verify", Counts(q)'
               PROVE  /\ outcome'[q] \in {"ok", "error"}
                      /\ syncState' = "error" <=> outcome'[q] = "error"
    OBVIOUS
  <2>1. Counts(q) /\ RowOf(q) \notin muddled' BY <1>3 DEF Counts, Excused
  <2>2. CASE q = r
    <3>1. ~Muddle(r) BY <2>1, <2>2, MuddledRow
    <3>2. syncState' = LoadEnd(o) BY <3>1, <1>1 DEF WriteState
    <3> QED BY <2>2, <3>2, <1>1 DEF LoadEnd
  <2>3. CASE q # r
    <3>1. pc[q] = "verify" /\ outcome'[q] = outcome[q] BY <2>3, <1>1
    <3>2. syncState' = syncState BY <2>1, <2>3, <3>1, <1>1, Overwritten
    <3> QED BY <2>1, <3>1, <3>2 DEF RowsInv, LoadInv
  <2> QED BY <2>2, <2>3
<1>5. (\A q \in Runners : (pc[q] = "finish" /\ Counts(q)) =>
         /\ outcome[q] \in {"ok", "error"}
         /\ verdict[q] = outcome[q])'
  BY <1>1, <1>3 DEF RowsInv, LoadInv
<1>6. LoadInv' BY <1>4, <1>5 DEF LoadInv
<1> QED BY <1>3, <1>6 DEF RowsInv

LEMMA ReadBackRows ==
  ASSUME TypeOK, RowsInv, NEW r \in Runners, ReadBack(r)
  PROVE  RowsInv'
<1>1. /\ pc[r] = "verify" /\ pc'[r] = "finish"
      /\ \A q \in Runners \ {r} : pc'[q] = pc[q] /\ verdict'[q] = verdict[q]
      /\ \/ verdict'[r] = (IF syncState = "error" THEN "error" ELSE "ok")
         \/ Muddle(r)
      /\ muddled \subseteq muddled'
      /\ UNCHANGED <<jobs, syncState, outcome, at, staff, shared, truth, stranded, cleared>>
  BY DEF ReadBack, Goto, Muddle, TypeOK, rowVars
<1>2. Alive(r) /\ Alive(r)' BY <1>1 DEF Alive
<1>3. /\ RowInv' /\ RunningIsTrue' /\ VerdictIsTheRuns'
      /\ \A q \in Runners : RowOf(q)' = RowOf(q) /\ (Counts(q)' => Counts(q))
  BY <1>1, <1>2, SameTable
<1>4. Counts(r)' => outcome[r] \in {"ok", "error"} /\ verdict'[r] = outcome[r]
  <2> SUFFICES ASSUME Counts(r)' PROVE outcome[r] \in {"ok", "error"} /\ verdict'[r] = outcome[r]
    OBVIOUS
  <2>1. Counts(r) /\ RowOf(r) \notin muddled' BY <1>3 DEF Counts, Excused
  <2>2. ~Muddle(r) BY <2>1, MuddledRow
  <2> QED BY <2>1, <2>2, <1>1 DEF RowsInv, LoadInv
<1>5. LoadInv' BY <1>1, <1>3, <1>4 DEF RowsInv, LoadInv
<1> QED BY <1>3, <1>5 DEF RowsInv

(* A run leaves, with its verdict written or without a word. *)
LEMMA LeaveRows ==
  ASSUME TypeOK, RowsInv, NEW r \in Runners, Finish(r) \/ FinishLost(r) \/ Panic(r)
  PROVE  RowsInv'
<1>1. /\ Alive(r) /\ pc'[r] \in {"idle", "dead"}
      /\ \A q \in Runners \ {r} : pc'[q] = pc[q] /\ verdict'[q] = verdict[q] /\ outcome'[q] = outcome[q]
      /\ UNCHANGED <<syncState, at, staff, shared, cleared, muddled>>
  BY DEF Finish, FinishLost, Panic, Forget, Goto, TypeOK, Alive, rowVars
<1>2. ~Alive(r)' /\ RowOf(r) \in Rows
      /\ \A q \in Runners \ {r} : (Alive(q)' <=> Alive(q)) /\ RowOf(q)' = RowOf(q)
                                  /\ (Alive(q) => RowOf(q) \in Rows)
  BY <1>1, RowIsRow DEF Alive, RowOf, RowsInv, RowInv
<1>3. CASE Finish(r)
  <2>1. \A w \in Rows :
          /\ jobs'[w] = IF w = RowOf(r) /\ jobs[w] # "none"
                        THEN IF verdict[r] = "ok" THEN "completed" ELSE "failed" ELSE jobs[w]
          /\ truth'[w] = IF w = RowOf(r) /\ jobs[w] # "none" THEN outcome[r] ELSE truth[w]
    BY <1>3 DEF Finish, Close
  <2>2. pc[r] = "finish" /\ stranded' = stranded BY <1>3 DEF Finish, Goto
  <2>3. RowInv'
    <3>1. (\A q \in Runners : Alive(q) => at[q] \in Stamps)' BY <1>1, <1>2 DEF RowsInv, RowInv
    <3>2. (\A p, q \in Runners :
             (p # q /\ Alive(p) /\ Alive(q) /\ RowOf(p) = RowOf(q)) => RowOf(q) \in shared)'
      BY <1>1, <1>2 DEF RowsInv, RowInv
    <3>3. (\A q \in Runners : (Alive(q) /\ jobs[RowOf(q)] \in Closed) => RowOf(q) \in shared \cup cleared)'
      <4> SUFFICES ASSUME NEW q \in Runners, Alive(q)', jobs'[RowOf(q)'] \in Closed
                   PROVE  RowOf(q)' \in shared' \cup cleared'
        BY DEF Closed
      <4>1. q # r /\ Alive(q) /\ RowOf(q)' = RowOf(q) /\ RowOf(q) \in Rows BY <1>2
      <4>2. CASE RowOf(q) = RowOf(r) BY <4>1, <4>2, <1>1 DEF RowsInv, RowInv
      <4>3. CASE RowOf(q) # RowOf(r) BY <4>1, <4>3, <2>1, <1>1 DEF RowsInv, RowInv
      <4> QED BY <4>2, <4>3
    <3>4. (staff \subseteq cleared)' BY <1>1 DEF RowsInv, RowInv
    <3> QED BY <3>1, <3>2, <3>3, <3>4 DEF RowInv
  <2>4. RunningIsTrue'
    <3> SUFFICES ASSUME NEW w \in Rows, jobs'[w] = "running"
                 PROVE  (\E q \in Runners : Alive(q)' /\ RowOf(q)' = w) \/ w \in stranded'
      BY DEF RunningIsTrue
    <3>1. jobs[w] = "running" /\ w # RowOf(r) BY <2>1
    <3> QED BY <3>1, <2>2, <1>2 DEF RowsInv, RunningIsTrue
  <2>5. \A q \in Runners : Counts(q)' => q # r /\ Counts(q)
    BY <2>1, <1>1, <1>2 DEF Counts, Excused
  <2>6. LoadInv' BY <2>5, <1>1 DEF RowsInv, LoadInv
  <2>7. VerdictIsTheRuns'
    <3> SUFFICES ASSUME NEW w \in Rows, jobs'[w] \in Closed,
                        w \notin shared \cup cleared \cup muddled
                 PROVE  truth'[w] = IF jobs'[w] = "completed" THEN "ok" ELSE "error"
      BY <1>1 DEF VerdictIsTheRuns, Closed
    <3>1. CASE w = RowOf(r) /\ jobs[w] # "none"
      <4>1. jobs[w] = "running" BY <3>1, <1>1 DEF RowsInv, RowInv, TypeOK, Statuses, Closed
      <4>2. Counts(r) BY <3>1, <4>1, <1>1 DEF Counts, Excused
      <4>3. outcome[r] \in {"ok", "error"} /\ verdict[r] = outcome[r]
        BY <2>2, <4>2 DEF RowsInv, LoadInv
      <4> QED BY <3>1, <4>3, <2>1
    <3>2. CASE ~(w = RowOf(r) /\ jobs[w] # "none")
      BY <3>2, <2>1 DEF RowsInv, VerdictIsTheRuns
    <3> QED BY <3>1, <3>2
  <2> QED BY <2>3, <2>4, <2>6, <2>7 DEF RowsInv
<1>4. CASE FinishLost(r) \/ Panic(r)
  <2>1. UNCHANGED <<jobs, truth>> /\ stranded' = stranded \cup Running({r})
    BY <1>4 DEF FinishLost, Panic, rowVars
  <2>2. RowInv' BY <2>1, <1>1, <1>2 DEF RowsInv, RowInv
  <2>3. RunningIsTrue'
    <3> SUFFICES ASSUME NEW w \in Rows, jobs[w] = "running"
                 PROVE  (\E q \in Runners : Alive(q)' /\ RowOf(q)' = w) \/ w \in stranded'
      BY <2>1 DEF RunningIsTrue
    <3>1. CASE w \in stranded BY <3>1, <2>1
    <3>2. ASSUME NEW q \in Runners, Alive(q), RowOf(q) = w
          PROVE  (\E p \in Runners : Alive(p)' /\ RowOf(p)' = w) \/ w \in stranded'
      <4>1. CASE q = r BY <4>1, <3>2, <2>1 DEF Running
      <4>2. CASE q # r BY <4>2, <3>2, <1>2
      <4> QED BY <4>1, <4>2
    <3> QED BY <3>1, <3>2 DEF RowsInv, RunningIsTrue
  <2>4. \A q \in Runners : Counts(q)' => q # r /\ Counts(q)
    BY <2>1, <1>1, <1>2 DEF Counts, Excused
  <2>5. LoadInv' BY <2>4, <1>1 DEF RowsInv, LoadInv
  <2>6. VerdictIsTheRuns' BY <2>1, <1>1 DEF RowsInv, VerdictIsTheRuns
  <2> QED BY <2>2, <2>3, <2>5, <2>6 DEF RowsInv
<1> QED BY <1>3, <1>4

LEMMA NextRows == ASSUME TypeOK, RowsInv, [Next]_vars PROVE RowsInv'
<1>1. CASE Quiet BY <1>1, QuietRows
<1>2. CASE Arrival BY <1>2, ArrivalRows
<1>3. CASE Work
  BY <1>3, BeginRows, EndRows, EndLoadRows, PageRows, ReadBackRows, WalkRows, LeaveRows DEF Work
<1>4. CASE Operator BY <1>4, OperatorRows
<1>5. CASE Ending BY <1>5, EndingRows
<1>6. CASE UNCHANGED vars
  BY <1>6, SameRuns DEF vars, rowVars, runVars, ghosts, histVars, RunVars
<1> QED BY <1>1, <1>2, <1>3, <1>4, <1>5, <1>6, NextCases

LEMMA RowsAreKept == Spec => [](TypeOK /\ RowsInv)
<1>1. Init => TypeOK /\ RowsInv BY InitTypes, InitRows
<1>2. TypeOK /\ RowsInv /\ [Next]_vars => (TypeOK /\ RowsInv)' BY NextTypes, NextRows
<1> QED BY <1>1, <1>2, PTL DEF Spec

(* A row that says "running" belongs to a run under way or is stranded:    *)
(* for any number of runs, and whatever requests are abandoned.            *)
THEOREM RunningTrue == Spec => []RunningIsTrue
<1>1. TypeOK /\ RowsInv => RunningIsTrue BY DEF RowsInv
<1> QED BY <1>1, RowsAreKept, PTL

(* The verdict in a row is that of its run, for any number of loads and    *)
(* walks that share sync_state, unless one of them wrote it between the    *)
(* last write of the load and its read, or either of the two failed.       *)
THEOREM VerdictTrue == Spec => []VerdictIsTheRuns
<1>1. TypeOK /\ RowsInv => VerdictIsTheRuns BY DEF RowsInv
<1> QED BY <1>1, RowsAreKept, PTL

LEMMA StepKeepsVerdicts ==
  ASSUME TypeOK, RowsInv, [Next]_vars,
         NEW row \in Rows, jobs[row] \in Closed, jobs'[row] # jobs[row]
  PROVE  row \in shared \cup cleared
<1>1. jobs' # jobs OBVIOUS
<1>2. Work \/ Operator
  <2>1. Quiet => jobs' = jobs
    BY DEF Quiet, Tick, Leave, Dial, DialFails, Connected, SocketLost, LoopEnds, Connection, Push,
           Fetch, Dispatch, Answered, WriteAsync, WriteEnds, PollerExit, tapUnchanged, Signal,
           HttpDrained, HttpTimeout, CloseSocket, DrainDone, DrainTimeout, GroupDone, GroupTimeout,
           Advance, Boot, rowVars
  <2>2. Arrival => jobs' = jobs BY DEF Arrival, Wake, LoopExit, Post, rowVars
  <2>3. Ending => jobs' = jobs BY DEF Ending, Exit, Crash, Die, rowVars
  <2> QED BY <1>1, <2>1, <2>2, <2>3, NextCases DEF vars, rowVars
<1>3. CASE Work
  <2>1. ASSUME NEW r \in Runners, NEW inserted \in BOOLEAN, Begin(r, inserted) PROVE FALSE
    BY <2>1, BeginRowIsRow DEF Begin, MayInsert, TypeOK, Closed
  <2>2. ASSUME NEW r \in Runners, Finish(r) PROVE row \in shared \cup cleared
    <3>1. Alive(r) /\ row = RowOf(r) BY <2>2 DEF Finish, Close, Goto, Alive
    <3> QED BY <3>1 DEF RowsInv, RowInv
  <2> QED BY <1>1, <1>3, <2>1, <2>2 DEF Work, End, EndLoad, Page, Walk, ReadBack, FinishLost, Panic, rowVars
<1>4. CASE Operator
  BY <1>1, <1>4 DEF Operator, Unstick, FailJob, FailJobLost, rowVars, RowsInv, RowInv
<1> QED BY <1>2, <1>3, <1>4

(* What a row has been closed with stays, unless runs collide on its id or *)
(* an operator set out to clear it.                                        *)
THEOREM VerdictsKept == Spec => VerdictsStay
<1>1. TypeOK /\ RowsInv /\ [Next]_vars =>
        [\A row \in Rows : (jobs[row] \in Closed /\ jobs'[row] # jobs[row])
                             => row \in shared \cup cleared]_vars
  BY StepKeepsVerdicts
<1> QED BY <1>1, RowsAreKept, PTL DEF Spec, VerdictsStay

(***************************************************************************)
(* The shutdown.                                                           *)
(***************************************************************************)

LEMMA InitShut == Init => ShutInv
BY DEF Init, ShutInv

LEMMA QuietShut == ASSUME TypeOK, ShutInv, Quiet PROVE ShutInv'
<1>1. CASE Tick \/ \E r \in Requests : Leave(r)
  BY <1>1 DEF ShutInv, Tick, Leave, Alive, Cancelled, rowVars, runVars, tapVars, stopVars, ghosts
<1>2. CASE Dial \/ DialFails \/ Connected \/ SocketLost \/ LoopEnds
  BY <1>2 DEF ShutInv, Dial, DialFails, Connected, SocketLost, LoopEnds, Connection, tapUnchanged,
              Alive, Cancelled, runVars, stopVars
<1>3. ASSUME NEW t \in Pushes, Push(t) PROVE ShutInv'
  <2>1. /\ UNCHANGED <<phase, pc, polling, drained, settled>>
        /\ tap' = [tap EXCEPT ![t] = "answering"]
        /\ late' = IF SocketClosed THEN late \cup {t} ELSE late
    BY <1>3 DEF Push, tapUnchanged, runVars, stopVars
  <2>2. t \notin Polls BY TapAssumption DEF TapAssumption
  <2>3. \A u \in Taps \ {t} : tap'[u] = tap[u] BY <2>1 DEF TypeOK
  <2> QED BY <2>1, <2>2, <2>3 DEF ShutInv, Cancelled, SocketClosed, Alive, Taps
<1>4. ASSUME NEW t \in Polls, Fetch(t) \/ Dispatch(t) PROVE ShutInv'
  <2>1. /\ UNCHANGED <<phase, pc, polling, drained, settled, late>>
        /\ \A u \in Taps \ {t} : tap'[u] = tap[u]
        /\ polling \/ tap[t] = "fetched"
    BY <1>4 DEF Fetch, Dispatch, tapUnchanged, runVars, stopVars, TypeOK
  <2>2. t \notin Pushes BY TapAssumption DEF TapAssumption
  <2> QED BY <2>1, <2>2 DEF ShutInv, Cancelled, Alive, Taps
<1>5. ASSUME NEW t \in Taps, Answered(t) \/ WriteAsync(t) \/ WriteEnds(t) PROVE ShutInv'
  <2>1. /\ UNCHANGED <<phase, pc, polling, drained, settled, late>>
        /\ \A u \in Taps \ {t} : tap'[u] = tap[u]
        /\ tap'[t] = "done" \/ (tap[t] = "answering" /\ tap'[t] = "writing")
    BY <1>5 DEF Answered, WriteAsync, WriteEnds, tapUnchanged, runVars, stopVars, TypeOK
  <2> QED BY <2>1 DEF ShutInv, Cancelled, Alive, Taps
<1>6. CASE PollerExit
  BY <1>6 DEF PollerExit, tapUnchanged, ShutInv, Cancelled, Alive, runVars, stopVars
<1>7. CASE Signal \/ HttpDrained \/ HttpTimeout \/ CloseSocket \/ DrainTimeout \/ GroupTimeout
  BY <1>7 DEF ShutInv, Signal, HttpDrained, HttpTimeout, CloseSocket, DrainTimeout, GroupTimeout,
              Advance, Cancelled, Alive, runVars, stopVars
<1>8. CASE DrainDone
  BY <1>8 DEF ShutInv, DrainDone, WritesDone, Advance, Cancelled, Alive, runVars, Taps
<1>9. CASE GroupDone
  BY <1>9 DEF ShutInv, GroupDone, GroupEmpty, Advance, Cancelled, Alive, runVars
<1>10. CASE Boot
  BY <1>10 DEF ShutInv, Boot, Cancelled, stopVars
<1> QED BY <1>1, <1>2, <1>3, <1>4, <1>5, <1>6, <1>7, <1>8, <1>9, <1>10 DEF Quiet

LEMMA RunsShut == ASSUME TypeOK, ShutInv, Arrival \/ Work PROVE ShutInv'
<1>1. /\ UNCHANGED <<phase, tapVars, stopVars>>
      /\ late \subseteq late'
  BY DEF Arrival, Work, Wake, LoopExit, Post, Begin, End, EndLoad, Page, Walk, ReadBack, Finish,
         FinishLost, Panic, Goto, ghosts
<1>2. phase = "closing" => /\ \A r \in Loops : pc[r] = "dead" => pc'[r] = "dead"
                           /\ \A r \in Started : Alive(r)' => Alive(r) \/ r \in late'
  <2> SUFFICES ASSUME phase = "closing" PROVE /\ \A r \in Loops : pc[r] = "dead" => pc'[r] = "dead"
                                              /\ \A r \in Started : Alive(r)' => Alive(r) \/ r \in late'
    OBVIOUS
  <2>1. CASE Arrival
    BY <2>1 DEF Arrival, Wake, LoopExit, Post, Goto, Alive, TypeOK, Runners, Requests
  <2>2. ASSUME NEW r \in Runners, NEW inserted \in BOOLEAN, Begin(r, inserted)
        PROVE  /\ \A q \in Loops : pc[q] = "dead" => pc'[q] = "dead"
               /\ \A q \in Started : Alive(q)' => Alive(q) \/ q \in late'
    <3>1. \A q \in Runners \ {r} : pc'[q] = pc[q] BY <2>2 DEF Begin, Goto, TypeOK
    <3>2. pc[r] = "start" /\ (r \in Started => r \in late') BY <2>2 DEF Begin, Goto
    <3> QED BY <3>1, <3>2 DEF Alive, Runners, Requests
  <2>3. ASSUME NEW r \in Runners, Alive(r), \A q \in Runners \ {r} : pc'[q] = pc[q]
        PROVE  /\ \A q \in Loops : pc[q] = "dead" => pc'[q] = "dead"
               /\ \A q \in Started : Alive(q)' => Alive(q) \/ q \in late'
    BY <2>3 DEF Alive, Runners, Requests
  <2>4. ASSUME NEW r \in Runners,
               (\E o \in {"ok", "error"} : End(r, o) \/ EndLoad(r, o))
               \/ ReadBack(r) \/ Finish(r) \/ FinishLost(r) \/ Panic(r)
        PROVE  Alive(r) /\ \A q \in Runners \ {r} : pc'[q] = pc[q]
    BY <2>4 DEF End, EndLoad, ReadBack, Finish, FinishLost, Panic, Goto, Alive, TypeOK
  <2>5. ASSUME (\E r \in Runners : Page(r)) \/ \E s \in {"running", "complete", "error"} : Walk(s)
        PROVE  pc' = pc
    BY <2>5 DEF Page, Walk, runVars
  <2>6. CASE Work BY <2>6, <2>2, <2>3, <2>4, <2>5 DEF Work, Alive
  <2> QED BY <2>1, <2>6
<1> QED BY <1>1, <1>2 DEF ShutInv, Cancelled, tapVars, stopVars

LEMMA OthersShut == ASSUME TypeOK, ShutInv, Operator \/ Ending \/ UNCHANGED vars PROVE ShutInv'
<1>1. CASE Operator
  BY <1>1 DEF ShutInv, Operator, Unstick, FailJob, FailJobLost, Cancelled, Alive, runVars, tapVars,
              stopVars, ghosts
<1>2. CASE Ending
  BY <1>2 DEF ShutInv, Ending, Exit, Crash, Die, Taps
<1>3. CASE UNCHANGED vars
  BY <1>3 DEF ShutInv, vars, Cancelled, Alive, runVars, tapVars, stopVars, ghosts
<1> QED BY <1>1, <1>2, <1>3

LEMMA ShutIsKept == Spec => [](TypeOK /\ ShutInv)
<1>1. Init => TypeOK /\ ShutInv BY InitTypes, InitShut
<1>2. TypeOK /\ ShutInv /\ [Next]_vars => (TypeOK /\ ShutInv)'
  BY NextTypes, NextCases, QuietShut, RunsShut, OthersShut
<1> QED BY <1>1, <1>2, PTL DEF Spec

(* After a drain that was complete, the only Redpoint writes of pushed     *)
(* taps are of answers that were not over then; and a background group that *)
(* was empty in time leaves no loop, run or poll behind but what was handed *)
(* to it later: for any number of taps, runs and loops.                     *)
THEOREM DrainsComplete == Spec => []DrainsAreComplete
<1>1. TypeOK /\ ShutInv => DrainIsComplete BY DEF ShutInv, DrainIsComplete
<1>2. TypeOK /\ ShutInv => GroupIsComplete BY DEF ShutInv, GroupIsComplete, Alive
<1>3. TypeOK /\ ShutInv => DrainsAreComplete BY <1>1, <1>2 DEF DrainsAreComplete
<1> QED BY <1>3, ShutIsKept, PTL

-----------------------------------------------------------------------------
(* The watchdog (Schedules), for any number of observations and any period  *)
(* between two alerts.                                                      *)

(* Every set of numbers has a least one.                                    *)
LEMMA LeastNumber ==
  ASSUME NEW T \in SUBSET Nat, T # {}
  PROVE  \E n \in T : \A m \in T : n <= m
<1>1. IsWellFoundedOn({ss \in Nat \X Nat : ss[1] < ss[2]}, Nat)
  BY NatLessThanWellFounded DEF OpToRel
<1>2. PICK n \in T : \A m \in T : <<m, n>> \notin {ss \in Nat \X Nat : ss[1] < ss[2]}
  BY <1>1, WFMin, Zenon
<1>3. ASSUME NEW m \in T
      PROVE  n <= m
  <2>1. m \in Nat /\ n \in Nat /\ <<m, n>> \notin {ss \in Nat \X Nat : ss[1] < ss[2]}
    BY <1>2
  <2> QED
    BY <2>1
<1> QED
  BY <1>3

(* Induction, for a set.                                                    *)
LEMMA EveryNumber ==
  ASSUME NEW T, 0 \in T, \A n \in Nat : n \in T => n + 1 \in T
  PROVE  Nat \subseteq T
<1> SUFFICES ASSUME NEW k \in Nat, k \notin T
             PROVE  FALSE
  OBVIOUS
<1>1. PICK n \in Nat \ T : \A m \in Nat \ T : n <= m
  BY LeastNumber
<1>2. n # 0 /\ n - 1 \in Nat /\ n = (n - 1) + 1
  BY <1>1
<1> QED
  BY <1>1, <1>2

WatchStates == [active : BOOLEAN, last : Nat, sends : {"alert", "recovery", "nothing"}]
Unseen == [active |-> FALSE, last |-> 0, sends |-> "nothing"]

Watching(seen, renotify, w, n) ==
  IF n = 0 THEN Unseen ELSE Condition(w[n - 1], seen[n], n, renotify)

\* What becomes of st when the condition is there, and when it is not.
Told(st, time, renotify, next) ==
  /\ next \in WatchStates /\ next.active = TRUE /\ next.sends # "recovery"
  /\ next.sends = "alert" <=> st.active = FALSE \/ time - st.last >= renotify
  /\ next.sends = "alert" => next.last = time
  /\ next.sends # "alert" => next.last = st.last

Over(st, next) ==
  /\ next \in WatchStates /\ next.active = FALSE /\ next.sends # "alert"
  /\ next.sends = "recovery" <=> st.active = TRUE

LEMMA Present ==
  ASSUME NEW st \in WatchStates, NEW time \in Nat, NEW renotify \in Nat
  PROVE  Told(st, time, renotify, Condition(st, TRUE, time, renotify))
<1> DEFINE next == Condition(st, TRUE, time, renotify)
<1>0. st.active \in BOOLEAN /\ st.last \in Nat
  BY DEF WatchStates
<1>1. CASE st.active = FALSE \/ time - st.last >= renotify
  <2>1. next = [active |-> TRUE, last |-> time, sends |-> "alert"]
    BY <1>1, Zenon DEF Condition
  <2> HIDE DEF next
  <2>2. next \in WatchStates
    BY <2>1 DEF WatchStates
  <2>3. next.active = TRUE /\ next.last = time /\ next.sends = "alert"
    BY <2>1
  <2>4. Told(st, time, renotify, next)
    BY <1>1, <2>2, <2>3 DEF Told
  <2> QED
    BY <2>4 DEF next
<1>2. CASE ~(st.active = FALSE \/ time - st.last >= renotify)
  <2>1. st.active = TRUE
    BY <1>0, <1>2
  <2>2. next = [st EXCEPT !.sends = "nothing"]
    BY <1>2, <2>1, Zenon DEF Condition
  <2> HIDE DEF next
  <2>3. next \in WatchStates /\ next.last = st.last /\ next.sends = "nothing" /\ next.active = st.active
    BY <2>2 DEF WatchStates
  <2>4. Told(st, time, renotify, next)
    BY <1>2, <2>1, <2>3 DEF Told
  <2> QED
    BY <2>4 DEF next
<1> QED
  BY <1>1, <1>2, Zenon

LEMMA Absent ==
  ASSUME NEW st \in WatchStates, NEW time, NEW renotify
  PROVE  Over(st, Condition(st, FALSE, time, renotify))
<1> DEFINE next == Condition(st, FALSE, time, renotify)
<1>0. st.active \in BOOLEAN
  BY DEF WatchStates
<1>1. CASE st.active = TRUE
  <2>1. next = [st EXCEPT !.active = FALSE, !.sends = "recovery"]
    BY <1>1, Zenon DEF Condition
  <2> HIDE DEF next
  <2>2. next \in WatchStates /\ next.active = FALSE /\ next.sends = "recovery"
    BY <2>1 DEF WatchStates
  <2>3. Over(st, next)
    BY <1>1, <2>2 DEF Over
  <2> QED
    BY <2>3 DEF next
<1>2. CASE st.active = FALSE
  <2>1. next = [st EXCEPT !.sends = "nothing"]
    BY <1>2, Zenon DEF Condition
  <2> HIDE DEF next
  <2>2. next \in WatchStates /\ next.active = FALSE /\ next.sends = "nothing"
    BY <1>2, <2>1 DEF WatchStates
  <2>3. Over(st, next)
    BY <1>2, <2>2 DEF Over
  <2> QED
    BY <2>3 DEF next
<1> QED
  BY <1>0, <1>1, <1>2, Zenon

(* What it knows is of the type.                                            *)
LEMMA ConditionIs ==
  ASSUME NEW st \in WatchStates, NEW active \in BOOLEAN, NEW time \in Nat, NEW renotify \in Nat
  PROVE  Condition(st, active, time, renotify) \in WatchStates
<1>1. CASE active = TRUE
  BY <1>1, Present DEF Told
<1>2. CASE active = FALSE
  BY <1>2, Absent DEF Over
<1> QED
  BY <1>1, <1>2

(* The loop over the observations does define what the watchdog knows.      *)
LEMMA WatchDefines ==
  ASSUME NEW seen \in Seq(BOOLEAN), NEW renotify \in Nat
  PROVE  \E w : w = [n \in 0..Len(seen) |-> Watching(seen, renotify, w, n)]
<1> DEFINE Until(k, w) == \A n \in 0..k : w[n] = Watching(seen, renotify, w, n)
           T == {k \in Nat : k <= Len(seen) => \E w \in [0..k -> WatchStates] : Until(k, w)}
<1>1. Len(seen) \in Nat /\ \A i \in 1..Len(seen) : seen[i] \in BOOLEAN
  OBVIOUS
<1>2. 0 \in T
  <2>1. [n \in 0..0 |-> Unseen] \in [0..0 -> WatchStates]
    BY DEF Unseen, WatchStates
  <2>2. Until(0, [n \in 0..0 |-> Unseen])
    BY DEF Watching
  <2>3. \E w \in [0..0 -> WatchStates] : Until(0, w)
    BY <2>1, <2>2, Zenon
  <2> HIDE DEF Until
  <2> QED
    BY <2>3
<1>3. ASSUME NEW k \in Nat, k \in T
      PROVE  k + 1 \in T
  <2> HIDE DEF Until
  <2>0. k + 1 \in Nat
    OBVIOUS
  <2> SUFFICES ASSUME k + 1 <= Len(seen)
               PROVE  \E w \in [0..(k + 1) -> WatchStates] : Until(k + 1, w)
    BY <2>0, Zenon
  <2>01. k <= Len(seen)
    BY <1>1
  <2>1. PICK old \in [0..k -> WatchStates] : Until(k, old)
    BY <1>3, <2>01, Zenon
  <2> USE DEF Until
  <2> DEFINE next == Watching(seen, renotify, old, k + 1)
             w == [n \in 0..(k + 1) |-> IF n = k + 1 THEN next ELSE old[n]]
  <2>2. next \in WatchStates
    <3>1. old[k] \in WatchStates /\ seen[k + 1] \in BOOLEAN /\ (k + 1) - 1 = k /\ k + 1 # 0
      BY <1>1
    <3>2. Condition(old[k], seen[k + 1], k + 1, renotify) \in WatchStates
      BY <2>0, <3>1, ConditionIs
    <3>3. next = Condition(old[k], seen[k + 1], k + 1, renotify)
      BY <3>1 DEF Watching
    <3> QED
      BY <3>2, <3>3
  <2> HIDE DEF next
  <2>3. w \in [0..(k + 1) -> WatchStates]
    BY <2>2
  <2>4. \A n \in 0..k : w[n] = old[n]
    OBVIOUS
  <2>5. w[k + 1] = next
    OBVIOUS
  <2> HIDE DEF w
  <2>6. ASSUME NEW n \in 0..(k + 1)
        PROVE  Watching(seen, renotify, w, n) = Watching(seen, renotify, old, n)
    <3>1. n # 0 => n - 1 \in 0..k
      OBVIOUS
    <3>2. n # 0 => w[n - 1] = old[n - 1]
      BY <2>4, <3>1
    <3> QED
      BY <3>2, Zenon DEF Watching
  <2>7. \A n \in 0..(k + 1) : n = k + 1 \/ n \in 0..k
    OBVIOUS
  <2>8. Until(k + 1, w)
    BY <2>1, <2>4, <2>5, <2>6, <2>7 DEF next
  <2> QED
    BY <2>3, <2>8
<1> HIDE DEF T
<1>4. Len(seen) \in T
  BY <1>1, <1>2, <1>3, EveryNumber
<1>5. PICK w \in [0..Len(seen) -> WatchStates] : Until(Len(seen), w)
  BY <1>1, <1>4 DEF T
<1> QED
  BY <1>5

(* What it knows after each observation.                                    *)
LEMMA WatchSteps ==
  ASSUME NEW seen \in Seq(BOOLEAN), NEW renotify \in Nat
  PROVE  LET w == Watched(seen, renotify) IN
         /\ w[0] = Unseen
         /\ \A n \in 1..Len(seen) : w[n] = Condition(w[n - 1], seen[n], n, renotify)
         /\ \A n \in 0..Len(seen) : w[n] \in WatchStates
<1> DEFINE w == Watched(seen, renotify)
<1>1. w = [n \in 0..Len(seen) |-> Watching(seen, renotify, w, n)]
  BY WatchDefines, Zenon DEF Watched, Watching, Unseen
<1> HIDE DEF w
<1>2. Len(seen) \in Nat /\ \A n \in 1..Len(seen) : seen[n] \in BOOLEAN
  OBVIOUS
<1>3. w[0] = Unseen
  BY <1>1, <1>2 DEF Watching
<1>4. ASSUME NEW n \in 1..Len(seen)
      PROVE  w[n] = Condition(w[n - 1], seen[n], n, renotify)
  <2>1. n \in 0..Len(seen) /\ n # 0
    BY <1>2
  <2> QED
    BY <1>1, <2>1 DEF Watching
<1> DEFINE T == {n \in Nat : n <= Len(seen) => w[n] \in WatchStates}
<1>5. 0 \in T
  <2>1. w[0] \in WatchStates
    BY <1>3 DEF Unseen, WatchStates
  <2> QED
    BY <2>1
<1>6. ASSUME NEW n \in Nat, n \in T
      PROVE  n + 1 \in T
  <2> SUFFICES ASSUME n + 1 <= Len(seen)
               PROVE  w[n + 1] \in WatchStates
    OBVIOUS
  <2>1. n + 1 \in 1..Len(seen) /\ (n + 1) - 1 = n /\ w[n] \in WatchStates /\ n + 1 \in Nat
    BY <1>2, <1>6
  <2>2. w[n + 1] = Condition(w[n], seen[n + 1], n + 1, renotify)
    BY <1>4, <2>1
  <2>3. Condition(w[n], seen[n + 1], n + 1, renotify) \in WatchStates
    BY <1>2, <2>1, ConditionIs
  <2> QED
    BY <2>2, <2>3
<1> HIDE DEF T
<1>7. Nat \subseteq T
  BY <1>5, <1>6, EveryNumber
<1>8. \A n \in 0..Len(seen) : w[n] \in WatchStates
  BY <1>2, <1>7 DEF T
<1> QED
  BY <1>3, <1>4, <1>8 DEF w

\* A condition is told when it is first seen, and again every renotify
\* observations while it lasts, neither later nor more often; its end is told
\* once.
THEOREM AlertsAreInTime ==
  ASSUME NEW seen \in Seq(BOOLEAN), NEW renotify \in Nat \ {0}, NEW i \in 1..Len(seen)
  PROVE  LET Sends(n) == Watched(seen, renotify)[n].sends
             before == i > 1 /\ seen[i - 1] IN
         /\ seen[i] /\ ~before => Sends(i) = "alert"
         /\ Sends(i) = "recovery" <=> ~seen[i] /\ before
         /\ Sends(i) = "alert" => seen[i]
         /\ Sends(i) = "alert" => \A k \in 1..renotify :
              i + k <= Len(seen) /\ (\A n \in i..i + k : seen[n]) =>
                (Sends(i + k) = "alert" <=> k = renotify)
<1> DEFINE w == Watched(seen, renotify)
           before == i > 1 /\ seen[i - 1]
<1>0. Len(seen) \in Nat /\ renotify \in Nat /\ renotify > 0 /\ \A n \in 1..Len(seen) : seen[n] \in BOOLEAN
  OBVIOUS
<1>1. /\ w[0] = Unseen
      /\ \A n \in 1..Len(seen) : w[n] = Condition(w[n - 1], seen[n], n, renotify)
      /\ \A n \in 0..Len(seen) : w[n] \in WatchStates
  BY <1>0, WatchSteps
<1> HIDE DEF w
<1>2. ASSUME NEW n \in 1..Len(seen)
      PROVE  /\ w[n].active = seen[n]
             /\ seen[n] = TRUE =>
                  /\ w[n].sends = "alert" <=> w[n - 1].active = FALSE \/ n - w[n - 1].last >= renotify
                  /\ w[n].sends = "alert" => w[n].last = n
                  /\ w[n].sends # "alert" => w[n].last = w[n - 1].last
                  /\ w[n].sends # "recovery"
             /\ seen[n] = FALSE =>
                  /\ w[n].sends = "recovery" <=> w[n - 1].active = TRUE
                  /\ w[n].sends # "alert"
  <2>1. w[n - 1] \in WatchStates /\ n \in Nat /\ renotify \in Nat
    <3>1. n - 1 \in 0..Len(seen) /\ n \in Nat
      BY <1>0
    <3> QED
      BY <1>0, <1>1, <3>1
  <2>2. CASE seen[n] = TRUE
    <3>1. w[n] = Condition(w[n - 1], TRUE, n, renotify)
      BY <1>1, <2>2
    <3>2. /\ w[n].active = TRUE /\ w[n].sends # "recovery"
          /\ w[n].sends = "alert" <=> w[n - 1].active = FALSE \/ n - w[n - 1].last >= renotify
          /\ w[n].sends = "alert" => w[n].last = n
          /\ w[n].sends # "alert" => w[n].last = w[n - 1].last
      <4>1. Told(w[n - 1], n, renotify, w[n])
        BY <2>1, <3>1, Present, Zenon
      <4> QED
        BY <4>1, Zenon DEF Told
    <3>3. TRUE # FALSE
      OBVIOUS
    <3> QED
      BY <2>2, <3>2, <3>3, Zenon
  <2>3. CASE seen[n] = FALSE
    <3>1. w[n] = Condition(w[n - 1], FALSE, n, renotify)
      BY <1>1, <2>3
    <3>2. /\ w[n].active = FALSE /\ w[n].sends # "alert"
          /\ w[n].sends = "recovery" <=> w[n - 1].active = TRUE
      <4>1. Over(w[n - 1], w[n])
        BY <2>1, <3>1, Absent, Zenon
      <4> QED
        BY <4>1, Zenon DEF Over
    <3>3. TRUE # FALSE
      OBVIOUS
    <3> QED
      BY <2>3, <3>2, <3>3, Zenon
  <2> QED
    BY <1>0, <2>2, <2>3
<1>3. (before => w[i - 1].active = TRUE) /\ (~before => w[i - 1].active = FALSE)
  <2>1. CASE i = 1
    <3>1. w[i - 1].active = FALSE
      BY <1>1, <2>1 DEF Unseen
    <3>2. ~before
      BY <2>1
    <3> QED
      BY <3>1, <3>2, Zenon
  <2>2. CASE i # 1
    <3>1. i - 1 \in 1..Len(seen) /\ i > 1
      BY <1>0, <2>2
    <3>2. w[i - 1].active = seen[i - 1] /\ seen[i - 1] \in {TRUE, FALSE}
      BY <1>0, <1>2, <3>1
    <3>3. before <=> seen[i - 1]
      BY <3>1
    <3> QED
      BY <3>2, <3>3, Zenon
  <2> QED
    BY <2>1, <2>2
<1>4. ASSUME w[i].sends = "alert", NEW k \in 1..renotify,
             i + k <= Len(seen), \A n \in i..i + k : seen[n]
      PROVE  w[i + k].sends = "alert" <=> k = renotify
  <2> DEFINE T == {n \in Nat : n < k => w[i + n].last = i}
  <2>0. i \in Nat /\ k \in Nat /\ i >= 1 /\ k <= renotify
    BY <1>0
  <2>1. 0 \in T
    <3>1. seen[i] = TRUE
      BY <1>0, <1>2, <1>4
    <3>2. w[i].last = i
      BY <1>2, <1>4, <3>1, Zenon
    <3>3. i + 0 = i
      BY <2>0
    <3> QED
      BY <3>2, <3>3
  \* One observation later the alert is told only if it is due.
  <2>2. ASSUME NEW n \in Nat, n < k, w[i + n].last = i
        PROVE  /\ w[i + n + 1].sends = "alert" <=> n + 1 >= renotify
               /\ w[i + n + 1].sends # "alert" => w[i + n + 1].last = i
    <3>1. i + n + 1 \in 1..Len(seen) /\ (i + n + 1) - 1 = i + n /\ i + n \in 1..Len(seen)
          /\ i + n \in i..i + k /\ i + n + 1 \in i..i + k
      BY <1>0, <1>4, <2>0, <2>2
    <3>2. seen[i + n] = TRUE /\ seen[i + n + 1] = TRUE
      BY <1>0, <1>4, <3>1
    <3>3. w[i + n].active = TRUE
      BY <1>2, <3>1, <3>2
    <3>4. /\ w[i + n + 1].sends = "alert" <=> (i + n + 1) - i >= renotify
          /\ w[i + n + 1].sends # "alert" => w[i + n + 1].last = i
      <4>1. /\ w[i + n + 1].sends = "alert" <=>
                 w[i + n].active = FALSE \/ (i + n + 1) - w[i + n].last >= renotify
            /\ w[i + n + 1].sends # "alert" => w[i + n + 1].last = w[i + n].last
        <5>1. w[(i + n + 1) - 1] = w[i + n]
          BY <3>1
        <5>2. /\ w[i + n + 1].sends = "alert" <=>
                   w[(i + n + 1) - 1].active = FALSE \/ (i + n + 1) - w[(i + n + 1) - 1].last >= renotify
              /\ w[i + n + 1].sends # "alert" => w[i + n + 1].last = w[(i + n + 1) - 1].last
          BY <1>2, <3>1, <3>2, Zenon
        <5> QED
          BY <5>1, <5>2, Zenon
      <4> QED
        BY <2>2, <3>3, <4>1
    <3>5. (i + n + 1) - i = n + 1
      BY <2>0
    <3> QED
      BY <3>4, <3>5
  <2>3. ASSUME NEW n \in Nat, n \in T
        PROVE  n + 1 \in T
    <3> SUFFICES ASSUME n + 1 < k
                 PROVE  w[i + (n + 1)].last = i
      OBVIOUS
    <3>1. n < k /\ ~(n + 1 >= renotify) /\ i + (n + 1) = i + n + 1
      BY <2>0
    <3>2. w[i + n].last = i
      BY <2>3, <3>1
    <3>3. w[i + n + 1].last = i
      BY <2>2, <3>1, <3>2
    <3> QED
      BY <3>1, <3>3
  <2> HIDE DEF T
  <2>4. k - 1 \in T
    BY <2>0, <2>1, <2>3, EveryNumber
  <2>5. k - 1 \in Nat /\ k - 1 < k /\ i + (k - 1) + 1 = i + k /\ (k - 1) + 1 = k
    BY <2>0
  <2>6. w[i + (k - 1)].last = i
    BY <2>4, <2>5 DEF T
  <2>7. w[i + k].sends = "alert" <=> k >= renotify
    BY <2>2, <2>5, <2>6
  <2> QED
    BY <1>0, <2>0, <2>7
<1>5. /\ seen[i] /\ ~before => w[i].sends = "alert"
      /\ w[i].sends = "recovery" <=> ~seen[i] /\ before
      /\ w[i].sends = "alert" => seen[i]
  <2>1. CASE seen[i] = TRUE
    <3>1. w[i].sends # "recovery" /\ (w[i - 1].active = FALSE => w[i].sends = "alert")
      BY <1>2, <2>1
    <3> QED
      BY <1>3, <2>1, <3>1, Zenon
  <2>2. CASE seen[i] = FALSE
    <3>1. w[i].sends # "alert" /\ (w[i].sends = "recovery" <=> w[i - 1].active = TRUE)
      BY <1>2, <2>2
    <3>2. TRUE # FALSE
      OBVIOUS
    <3> QED
      BY <1>3, <2>2, <3>1, <3>2, Zenon
  <2> QED
    BY <1>0, <2>1, <2>2
<1> HIDE DEF before
<1> QED
  BY <1>4, <1>5, Zenon DEF w, before
=============================================================================

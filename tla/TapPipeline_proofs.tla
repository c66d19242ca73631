-------------------------- MODULE TapPipeline_proofs --------------------------
(***************************************************************************)
(* TapPipeline: type correctness, NoSilentSkip, CheckinsBounded and        *)
(* OpenedOnce, for any number of taps, crashes, backfills and ticks.       *)
(***************************************************************************)
EXTENDS TapPipeline, TLAPS

LEMMA Threads == "ws" \in Deliverers /\ "poller" \in Deliverers /\ Backfills \subseteq Deliverers
BY DEF Deliverers

LEMMA TapRange ==
  /\ Taps \subseteq Nat
  /\ \A k \in Taps : k \in 0 .. MaxTaps /\ k # 0
  /\ 0 \in 0 .. MaxTaps /\ 0 .. MaxTaps \subseteq Nat
  /\ \A k \in 0 .. MaxTaps : 1 .. k \subseteq Taps /\ (k < MaxTaps => k + 1 \in Taps)
BY BoundsAssumption DEF BoundsAssumption, Taps

LEMMA CallTypes ==
  /\ Idle \in Calls
  /\ \A k \in Taps, l \in BOOLEAN : Call(k, l) \in Calls
  /\ \A c \in Calls : /\ c.pc \in Phases /\ c.tap \in 0 .. MaxTaps /\ c.live \in BOOLEAN
                    /\ \A pc \in Phases : [c EXCEPT !.pc = pc] \in Calls
  /\ {"idle", "decide", "recheck", "unlock", "record", "deny"} \subseteq Phases
BY TapRange DEF Phases, Calls, Idle, Call

LEMMA SlotTypes ==
  /\ FreeSlot \in Slots
  /\ \A since \in Int : [phase |-> "fetch", since |-> since, batch |-> {}] \in Slots
  /\ \A s \in Slots : /\ s.since \in Int /\ s.batch \subseteq Taps
                    /\ \A batch \in SUBSET Taps :
                         /\ [s EXCEPT !.batch = batch] \in Slots
                         /\ [s EXCEPT !.phase = "replay", !.batch = batch] \in Slots
<1>1. FreeSlot \in Slots
  BY DEF Slots, FreeSlot
<1>2. ASSUME NEW since \in Int
      PROVE  [phase |-> "fetch", since |-> since, batch |-> {}] \in Slots
  BY DEF Slots
<1>3. ASSUME NEW s \in Slots, NEW batch \in SUBSET Taps
      PROVE  /\ s.since \in Int /\ s.batch \subseteq Taps
             /\ [s EXCEPT !.batch = batch] \in Slots
             /\ [s EXCEPT !.phase = "replay", !.batch = batch] \in Slots
  BY DEF Slots
<1>4. QED
  BY <1>1, <1>2, <1>3

LEMMA CounterTypes ==
  ASSUME NEW f \in [Taps -> Nat], NEW k
  PROVE  /\ [f EXCEPT ![k] = @ + 1] \in [Taps -> Nat]
         /\ [f EXCEPT ![k] = IF @ = 0 THEN 1 ELSE @] \in [Taps -> Nat]
         /\ \A c \in BOOLEAN : [f EXCEPT ![k] = IF c THEN @ + 1 ELSE @] \in [Taps -> Nat]
<1>1. CASE k \in Taps
  <2>1. f[k] \in Nat
    BY <1>1
  <2>2. QED
    BY <1>1, <2>1
<1>2. CASE k \notin Taps
  BY <1>2
<1>3. QED
  BY <1>1, <1>2

LEMMA PollerStartType == \A t \in Nat : PollerStart(t) \in Int
BY WindowAssumption DEF WindowAssumption, PollerStart, StartOfToday

LEMMA InsertTypes ==
  ASSUME TypeOK, NEW d \in Deliverers, Insert(d) \/ InsertFailed(d)
  PROVE  /\ keyedRows' \in [Taps -> Nat] /\ bareRows' \in [Taps -> Nat]
         /\ failed' \subseteq 0 .. MaxTaps
<1>1. th[d].tap \in 0 .. MaxTaps
  BY CallTypes DEF TypeOK
<1>2. CASE Insert(d)
  <2>1. /\ [bareRows EXCEPT ![th[d].tap] = @ + 1] \in [Taps -> Nat]
        /\ [keyedRows EXCEPT ![th[d].tap] = IF @ = 0 THEN 1 ELSE @] \in [Taps -> Nat]
    BY CounterTypes DEF TypeOK
  <2>2. QED
    BY <1>2, <2>1 DEF TypeOK, Insert
<1>3. CASE InsertFailed(d)
  BY <1>1, <1>3 DEF TypeOK, InsertFailed
<1>4. QED
  BY <1>2, <1>3

\* Every variable has its type (the state of the process and the tables).
THEOREM TypeCorrect == Spec => []TypeOK
<1> USE DEF TypeOK, hubVars, connVars, pollVars, rowVars, processVars
<1>1. Init => TypeOK
  <2> SUFFICES ASSUME Init PROVE TypeOK
    OBVIOUS
  <2>1. bf \in [Backfills -> Slots] /\ th \in [Deliverers -> Calls]
    BY CallTypes, SlotTypes DEF Init
  <2>2. clock \in Nat /\ cursor \in Int
    BY PollerStartType DEF Init
  <2>3. QED
    BY <2>1, <2>2, TapRange DEF Init
<1>2. TypeOK /\ [Next]_vars => TypeOK'
  <2> SUFFICES ASSUME TypeOK, [Next]_vars PROVE TypeOK'
    OBVIOUS
  <2>1. CASE Tick BY <2>1 DEF Tick
  <2>2. ASSUME NEW nfc \in BOOLEAN, HubLog(nfc) PROVE TypeOK'
    BY <2>2, TapRange DEF HubLog
  <2>3. CASE WsConnect
    <3>1. lastEventAt - Overlap \in Int
      BY WindowAssumption DEF WindowAssumption
    <3>2. bf' \in [Backfills -> Slots]
      BY <2>3, <3>1, SlotTypes DEF WsConnect
    <3>3. QED
      BY <2>3, <3>2 DEF WsConnect
  <2>4. CASE WsDrop BY <2>4 DEF WsDrop
  <2>5. ASSUME NEW k \in Taps, WsDeliver(k) PROVE TypeOK'
    BY <2>5, CallTypes DEF WsDeliver
  <2>6. CASE PollFetch BY <2>6, TapRange DEF PollFetch, PollWindow, FetchSince
  <2>7. ASSUME NEW k \in Taps, PollSkip(k) PROVE TypeOK'
    BY <2>7 DEF PollSkip
  <2>8. ASSUME NEW k \in Taps, PollDispatch(k) PROVE TypeOK'
    <3>1. Fresh(k) \in BOOLEAN
      BY DEF Fresh
    <3>2. th' \in [Deliverers -> Calls]
      BY <2>8, <3>1, CallTypes, Threads DEF PollDispatch
    <3>3. QED
      BY <2>8, <3>2, TapRange DEF PollDispatch
  <2>9. ASSUME NEW b \in Backfills, BackfillFetch(b) PROVE TypeOK'
    <3>1. FetchSince(bf[b].since) \in SUBSET Taps
      BY TapRange DEF FetchSince
    <3>2. bf' \in [Backfills -> Slots]
      BY <2>9, <3>1, SlotTypes DEF BackfillFetch
    <3>3. QED
      BY <2>9, <3>2 DEF BackfillFetch
  <2>10. ASSUME NEW b \in Backfills, NEW k \in Taps, BackfillDispatch(b, k) PROVE TypeOK'
    <3>1. bf' \in [Backfills -> Slots]
      BY <2>10, SlotTypes DEF BackfillDispatch
    <3>2. th' \in [Deliverers -> Calls]
      BY <2>10, CallTypes, Threads DEF BackfillDispatch
    <3>3. QED
      BY <2>10, <3>1, <3>2 DEF BackfillDispatch
  <2>11. ASSUME NEW b \in Backfills, BackfillEnd(b) PROVE TypeOK'
    BY <2>11, SlotTypes DEF BackfillEnd
  <2>12. ASSUME NEW d \in Deliverers, Ignore(d) PROVE TypeOK'
    BY <2>12, CallTypes DEF Ignore
  <2>13. ASSUME NEW d \in Deliverers, Decide(d) PROVE TypeOK'
    BY <2>13, CallTypes DEF Decide, Goto
  <2>14. ASSUME NEW d \in Deliverers, Recheck(d) PROVE TypeOK'
    BY <2>14, CallTypes DEF Recheck, Goto
  <2>15. ASSUME NEW d \in Deliverers, UnlockSkipped(d) PROVE TypeOK'
    BY <2>15, CallTypes DEF UnlockSkipped, Goto
  <2>16. ASSUME NEW d \in Deliverers, UnlockDone(d) PROVE TypeOK'
    <3>1. th' \in [Deliverers -> Calls]
      BY <2>16, CallTypes DEF UnlockDone
    <3>2. opened' \in [Taps -> Nat]
      BY <2>16, CounterTypes DEF UnlockDone
    <3>3. QED
      BY <2>16, <3>1, <3>2 DEF UnlockDone
  <2>17. ASSUME NEW d \in Deliverers, UnlockFailed(d) PROVE TypeOK'
    BY <2>17, CallTypes DEF UnlockFailed
  <2>18. ASSUME NEW d \in Deliverers, RecordDenied(d) PROVE TypeOK'
    <3>1. th' \in [Deliverers -> Calls]
      BY <2>18, CallTypes DEF RecordDenied
    <3>2. keyedRows' \in [Taps -> Nat] /\ bareRows' \in [Taps -> Nat] /\ failed' \subseteq 0 .. MaxTaps
      BY <2>18, InsertTypes DEF RecordDenied
    <3>3. QED
      BY <2>18, <3>1, <3>2 DEF RecordDenied
  <2>19. ASSUME NEW d \in Deliverers, RecordAllowed(d) PROVE TypeOK'
    <3>1. th' \in [Deliverers -> Calls]
      BY <2>19, CallTypes DEF RecordAllowed
    <3>2. keyedRows' \in [Taps -> Nat] /\ bareRows' \in [Taps -> Nat] /\ failed' \subseteq 0 .. MaxTaps
      BY <2>19, InsertTypes DEF RecordAllowed
    <3>3. Pushes(d) \in BOOLEAN
      BY CallTypes, ModeAssumption DEF ModeAssumption, Pushes
    <3>4. asyncs' \in [Taps -> Nat]
      BY <2>19, <3>3, CounterTypes DEF RecordAllowed
    <3>5. QED
      BY <2>19, <3>1, <3>2, <3>4 DEF RecordAllowed
  <2>20. ASSUME NEW k \in Taps, RecordInRedpoint(k) PROVE TypeOK'
    BY <2>20 DEF RecordInRedpoint
  <2>21. CASE Crash
    <3>1. bf' \in [Backfills -> Slots] /\ th' \in [Deliverers -> Calls]
      BY <2>21, CallTypes, SlotTypes DEF Crash
    <3>2. asyncs' \in [Taps -> Nat] /\ maxLogID' \in 0 .. MaxTaps
      BY <2>21, TapRange DEF Crash
    <3>3. up' \in BOOLEAN /\ wsUp' \in BOOLEAN /\ wsDropped' \in BOOLEAN
      BY <2>21 DEF Crash
    <3>4. /\ lastEventAt' \in Nat /\ crashes' \in Nat /\ cursor' \in Int
          /\ frames' \subseteq Taps /\ pollBatch' \subseteq Taps /\ seen' \subseteq Taps
      BY <2>21 DEF Crash
    <3>5. UNCHANGED <<clock, logged, ts, isNfc, framed, bootedAt, lives,
                      keyedRows, bareRows, failed, checkins, opened>>
      BY <2>21 DEF Crash
    <3>6. QED
      BY <3>1, <3>2, <3>3, <3>4, <3>5
  <2>22. CASE Boot BY <2>22, PollerStartType DEF Boot
  <2>23. CASE UNCHANGED vars BY <2>23 DEF vars
  <2>24. QED
    BY <2>1, <2>2, <2>3, <2>4, <2>5, <2>6, <2>7, <2>8, <2>9, <2>10, <2>11, <2>12,
       <2>13, <2>14, <2>15, <2>16, <2>17, <2>18, <2>19, <2>20, <2>21, <2>22, <2>23
    DEF Next, Poll, PollBatch, Backfill, Handle
<1>3. QED BY <1>1, <1>2, PTL DEF Spec
-----------------------------------------------------------------------------
(***************************************************************************)
(* What a step of the handler does to the state the invariants speak of.   *)
(***************************************************************************)
LEMMA HandleEffect ==
  ASSUME TypeOK, NEW d \in Deliverers, Handle(d)
  PROVE  /\ UNCHANGED <<clock, hubVars, frames, processVars, pollVars, bf, checkins>>
         /\ th[d].pc # "idle"
         /\ \A e \in Deliverers : e # d => th'[e] = th[e]
         /\ \/ th'[d] = Idle
            \/ th'[d].tap = th[d].tap /\ th'[d].live = th[d].live /\ th'[d].pc # "idle"
         /\ \/ asyncs' = asyncs
            \/ /\ th'[d] = Idle /\ th[d].live
               /\ asyncs' = [asyncs EXCEPT ![th[d].tap] = @ + 1]
<1> USE DEF hubVars, processVars, pollVars, rowVars, connVars
<1>0. th \in [Deliverers -> Calls] /\ th[d] \in Calls /\ asyncs \in [Taps -> Nat]
  BY DEF TypeOK
<1>1. CASE Ignore(d) BY <1>0, <1>1 DEF Ignore
<1>2. CASE Decide(d) BY <1>0, <1>2 DEF Decide, Goto, Calls
<1>3. CASE Recheck(d) BY <1>0, <1>3 DEF Recheck, Goto, Calls
<1>4. CASE UnlockSkipped(d) BY <1>0, <1>4 DEF UnlockSkipped, Goto, Calls
<1>5. CASE UnlockDone(d) BY <1>0, <1>5 DEF UnlockDone, Calls
<1>6. CASE UnlockFailed(d) BY <1>0, <1>6 DEF UnlockFailed
<1>7. CASE RecordDenied(d) BY <1>0, <1>7 DEF RecordDenied
<1>8. CASE RecordAllowed(d) BY <1>0, <1>8 DEF RecordAllowed, Pushes
<1>9. QED
  BY <1>1, <1>2, <1>3, <1>4, <1>5, <1>6, <1>7, <1>8 DEF Handle
-----------------------------------------------------------------------------
\* Log ids and timestamps grow together, and no thread, batch or frame refers
\* to an entry that is not in the log.
THEOREM LogCorrect == Spec => []LogInv
<1> USE DEF LogInv, hubVars, connVars, pollVars, rowVars, processVars
<1>1. Init => LogInv
  BY DEF Init, Idle, FreeSlot
<1>2. TypeOK /\ LogInv /\ [Next]_vars => LogInv'
  <2> SUFFICES ASSUME TypeOK, LogInv, [Next]_vars PROVE LogInv'
    OBVIOUS
  <2>a. /\ Taps \subseteq Nat /\ logged \in Nat /\ clock \in Nat
        /\ ts \in [Taps -> Nat]
        /\ th \in [Deliverers -> Calls] /\ bf \in [Backfills -> Slots]
    BY TapRange DEF TypeOK
  <2>b. \A since \in Int : FetchSince(since) \subseteq 1 .. logged
    BY DEF FetchSince
  <2>1. CASE Tick BY <2>1, <2>a DEF Tick
  <2>2. ASSUME NEW nfc \in BOOLEAN, HubLog(nfc) PROVE LogInv'
    <3>1. logged' = logged + 1 /\ logged + 1 \in Taps /\ clock' = clock
      BY <2>2, <2>a, TapRange DEF HubLog, TypeOK
    <3>2. ts' \in [Taps -> Nat] /\ ts'[logged + 1] = clock
      BY <2>2, <2>a, <3>1 DEF HubLog
    <3>3. \A k \in Taps : k # logged + 1 => ts'[k] = ts[k]
      BY <2>2, <2>a DEF HubLog
    <3>4. /\ \A j, k \in Taps : j < k /\ k <= logged' => ts'[j] <= ts'[k]
          /\ \A k \in Taps : k <= logged' => ts'[k] <= clock'
      BY <2>a, <3>1, <3>2, <3>3
    <3>5. /\ framed' \subseteq 1 .. logged' /\ frames' \subseteq framed'
          /\ pollBatch' \subseteq 1 .. logged' /\ seen' \subseteq 1 .. logged'
      <4>1. 1 .. logged \subseteq 1 .. logged' /\ logged + 1 \in 1 .. logged'
        BY <2>a, <3>1
      <4>2. /\ \/ frames' = frames /\ framed' = framed
               \/ frames' = frames \cup {logged + 1} /\ framed' = framed \cup {logged + 1}
            /\ pollBatch' = pollBatch /\ seen' = seen
        BY <2>2 DEF HubLog
      <4>3. QED
        BY <4>1, <4>2
    <3>6. /\ \A b \in Backfills : bf'[b].batch \subseteq 1 .. logged'
          /\ \A d \in Deliverers : th'[d].tap <= logged'
      <4>1. bf' = bf /\ th' = th
        BY <2>2 DEF HubLog
      <4>2. \A d \in Deliverers : th[d].tap \in Nat
        BY <2>a, CallTypes, TapRange
      <4>3. QED
        BY <2>a, <3>1, <4>1, <4>2
    <3>7. QED
      BY <3>4, <3>5, <3>6
  <2>3. CASE WsConnect BY <2>3, <2>a DEF WsConnect
  <2>4. CASE WsDrop BY <2>4, <2>a DEF WsDrop
  <2>5. ASSUME NEW k \in Taps, WsDeliver(k) PROVE LogInv'
    BY <2>5, <2>a, Threads DEF WsDeliver, Oldest, Call
  <2>6. CASE PollFetch BY <2>6, <2>a DEF PollFetch, PollWindow, FetchSince
  <2>7. ASSUME NEW k \in Taps, PollSkip(k) PROVE LogInv'
    BY <2>7, <2>a DEF PollSkip
  <2>8. ASSUME NEW k \in Taps, PollDispatch(k) PROVE LogInv'
    BY <2>8, <2>a, Threads DEF PollDispatch, Oldest, Call
  <2>9. ASSUME NEW b \in Backfills, BackfillFetch(b) PROVE LogInv'
    BY <2>9, <2>a DEF BackfillFetch, FetchSince, Slots
  <2>10. ASSUME NEW b \in Backfills, NEW k \in Taps, BackfillDispatch(b, k) PROVE LogInv'
    BY <2>10, <2>a, Threads DEF BackfillDispatch, Oldest, Call, Slots
  <2>11. ASSUME NEW b \in Backfills, BackfillEnd(b) PROVE LogInv'
    BY <2>11, <2>a DEF BackfillEnd, FreeSlot
  <2>12. ASSUME NEW d \in Deliverers, Handle(d) PROVE LogInv'
    <3>1. UNCHANGED <<clock, hubVars, frames, pollVars, bf>>
      BY <2>12, HandleEffect
    <3>2. \A e \in Deliverers : th'[e].tap = th[e].tap \/ th'[e].tap = 0
      BY <2>12, HandleEffect DEF Idle
    <3>3. QED
      BY <2>a, <3>1, <3>2
  <2>13. ASSUME NEW k \in Taps, RecordInRedpoint(k) PROVE LogInv'
    BY <2>13 DEF RecordInRedpoint
  <2>14. CASE Crash BY <2>14, <2>a DEF Crash, Idle, FreeSlot
  <2>15. CASE Boot BY <2>15 DEF Boot
  <2>16. CASE UNCHANGED vars BY <2>16 DEF vars
  <2>17. QED
    BY <2>1, <2>2, <2>3, <2>4, <2>5, <2>6, <2>7, <2>8, <2>9, <2>10, <2>11, <2>12,
       <2>13, <2>14, <2>15, <2>16
    DEF Next, Poll, PollBatch, Backfill
<1>3. QED BY <1>1, <1>2, TypeCorrect, PTL DEF Spec
-----------------------------------------------------------------------------
\* A step that touches neither the log nor the poller keeps its invariant.
LEMMA MarkFrame ==
  ASSUME MarkInv, NoSilentSkip,
         UNCHANGED <<logged, ts, up, bootedAt, cursor, maxLogID, pollBatch, seen>>
  PROVE  MarkInv' /\ NoSilentSkip'
BY DEF MarkInv, NoSilentSkip, InScope, Overtaken

\* The poller's high-water mark never swallows a tap: at any moment every
\* entry at or below it has been dispatched, or was overtaken within its
\* second.  The cursor stays within one entry's timestamp of the mark, so a
\* fetch leaves out only entries below the mark.
THEOREM MarkCorrect == Spec => [](MarkInv /\ NoSilentSkip)
<1> USE DEF hubVars, connVars, pollVars, rowVars, processVars
<1>1. Init => MarkInv /\ NoSilentSkip
  BY TapRange DEF Init, MarkInv, NoSilentSkip, InScope
<1>2. TypeOK /\ LogInv /\ MarkInv /\ NoSilentSkip /\ [Next]_vars => (MarkInv /\ NoSilentSkip)'
  <2> SUFFICES ASSUME TypeOK, LogInv, MarkInv, NoSilentSkip, [Next]_vars
               PROVE  MarkInv' /\ NoSilentSkip'
    OBVIOUS
  <2>a. /\ Taps \subseteq Nat /\ logged \in Nat /\ clock \in Nat /\ cursor \in Int
        /\ maxLogID \in Nat /\ Lookback \in Nat /\ bootedAt \in Nat
        /\ PollerStart(bootedAt) \in Int
        /\ ts \in [Taps -> Nat] /\ pollBatch \subseteq Taps /\ seen \subseteq Taps
        /\ 1 .. logged \subseteq Taps
    BY TapRange, PollerStartType, WindowAssumption DEF TypeOK, WindowAssumption
  <2>1. CASE Tick BY <2>1, MarkFrame DEF Tick
  <2>2. ASSUME NEW nfc \in BOOLEAN, HubLog(nfc) PROVE MarkInv' /\ NoSilentSkip'
    <3>1. /\ UNCHANGED <<up, bootedAt, cursor, maxLogID, pollBatch, seen>>
          /\ logged' = logged + 1
          /\ \A k \in Taps : k # logged + 1 => ts'[k] = ts[k]
      BY <2>2, <2>a DEF HubLog
    <3>2. \A k \in Taps : k <= logged => ts'[k] = ts[k] /\ (InScope(k)' <=> InScope(k))
      BY <2>a, <3>1 DEF InScope
    <3>3. maxLogID <= logged /\ \A m \in pollBatch : m <= logged
      BY <2>a DEF MarkInv, LogInv
    <3>4. \A k \in Taps : k <= logged /\ Overtaken(k) => Overtaken(k)'
      BY <2>a, <3>1, <3>2 DEF Overtaken, LogInv
    <3>5. MarkInv'
      BY <2>a, <3>1, <3>2, <3>3 DEF MarkInv
    <3>6. NoSilentSkip'
      BY <2>a, <3>1, <3>2, <3>3, <3>4 DEF NoSilentSkip
    <3>7. QED
      BY <3>5, <3>6
  <2>3. CASE WsConnect BY <2>3, MarkFrame DEF WsConnect
  <2>4. CASE WsDrop BY <2>4, MarkFrame DEF WsDrop
  <2>5. ASSUME NEW k \in Taps, WsDeliver(k) PROVE MarkInv' /\ NoSilentSkip'
    BY <2>5, MarkFrame DEF WsDeliver
  <2>6. CASE PollFetch
    <3>1. /\ up /\ pollBatch' = FetchSince(cursor - Lookback)
          /\ UNCHANGED <<logged, ts, up, bootedAt, cursor, maxLogID, seen>>
      BY <2>6 DEF PollFetch, PollWindow
    <3>2. ASSUME NEW k \in Taps, InScope(k), k \notin pollBatch'
          PROVE  k <= maxLogID
      <4>1. k \in 1 .. logged /\ ts[k] < cursor - Lookback
        <5>1. k \in 1 .. logged /\ ts[k] \in Nat
          BY <2>a, <3>2, TapRange DEF InScope
        <5>2. ~(ts[k] >= cursor - Lookback)
          BY <3>1, <3>2, <5>1 DEF FetchSince
        <5>3. QED
          BY <2>a, <5>1, <5>2
      <4>2. maxLogID # 0 /\ cursor = ts[maxLogID] /\ maxLogID \in Taps
        BY <2>a, <3>1, <3>2, <4>1 DEF MarkInv, InScope
      <4>3. maxLogID < k => ts[maxLogID] <= ts[k]
        BY <4>1, <4>2 DEF LogInv
      <4>4. ts[k] \in Nat /\ ts[maxLogID] \in Nat
        BY <2>a, <4>2
      <4>5. QED
        BY <2>a, <4>1, <4>2, <4>3, <4>4
    <3>3. MarkInv'
      BY <3>1, <3>2 DEF MarkInv, InScope
    <3>4. NoSilentSkip'
      BY <3>1 DEF NoSilentSkip, InScope, Overtaken
    <3>5. QED
      BY <3>3, <3>4
  <2>7. ASSUME NEW k \in Taps, PollSkip(k) PROVE MarkInv' /\ NoSilentSkip'
    <3>1. /\ k <= maxLogID /\ pollBatch' = pollBatch \ {k}
          /\ UNCHANGED <<logged, ts, up, bootedAt, cursor, maxLogID, seen>>
      BY <2>7 DEF PollSkip, AlreadyDispatched
    <3>2. MarkInv'
      BY <2>a, <3>1 DEF MarkInv, InScope
    <3>3. NoSilentSkip'
      BY <3>1 DEF NoSilentSkip, InScope, Overtaken
    <3>4. QED
      BY <3>2, <3>3
  <2>8. ASSUME NEW k \in Taps, PollDispatch(k) PROVE MarkInv' /\ NoSilentSkip'
    <3>1. /\ k \in pollBatch /\ \A j \in pollBatch : ts[k] <= ts[j]
          /\ k > maxLogID
          /\ pollBatch' = pollBatch \ {k} /\ maxLogID' = k
          /\ cursor' = IF ts[k] > cursor THEN ts[k] ELSE cursor
          /\ seen' = seen \cup {k}
          /\ UNCHANGED <<logged, ts, up, bootedAt>>
      BY <2>8, <2>a DEF PollDispatch, Oldest, AlreadyDispatched
    <3>2. up
      BY <3>1 DEF MarkInv
    <3>3. maxLogID # 0 => maxLogID \in Taps /\ ts[maxLogID] <= ts[k]
      BY <2>a, <3>1 DEF MarkInv, LogInv
    <3>4. /\ cursor' = PollerStart(bootedAt) \/ cursor' = ts[k]
          /\ ts[k] <= cursor'
      BY <2>a, <3>1, <3>2, <3>3 DEF MarkInv
    <3>5. ASSUME NEW m \in pollBatch', NEW j \in Taps, InScope(j), j < m, j \notin pollBatch'
          PROVE  j <= k
      BY <2>a, <3>1, <3>5 DEF MarkInv
    <3>6. MarkInv'
      BY <2>a, <3>1, <3>2, <3>4, <3>5 DEF MarkInv, InScope
    <3>7. ASSUME NEW j \in Taps, InScope(j), j <= k
          PROVE  j \in seen' \/ \E i \in seen' : i > j /\ ts[i] = ts[j]
      <4>1. CASE j = k
        BY <3>1, <4>1
      <4>2. CASE j <= maxLogID
        BY <3>1, <3>2, <3>7, <4>2 DEF NoSilentSkip, Overtaken
      <4>3. CASE j < k /\ ~(j <= maxLogID)
        <5>1. j \in pollBatch
          BY <3>1, <3>7, <4>3 DEF MarkInv
        <5>2. ts[j] <= ts[k]
          BY <2>a, <3>1, <4>3 DEF LogInv
        <5>3. ts[j] = ts[k]
          BY <2>a, <3>1, <5>1, <5>2
        <5>4. QED
          BY <3>1, <4>3, <5>3
      <4>4. QED
        BY <2>a, <3>7, <4>1, <4>2, <4>3
    <3>8. NoSilentSkip'
      BY <3>1, <3>7 DEF NoSilentSkip, InScope, Overtaken
    <3>9. QED
      BY <3>6, <3>8
  <2>9. ASSUME NEW b \in Backfills, BackfillFetch(b) PROVE MarkInv' /\ NoSilentSkip'
    BY <2>9, MarkFrame DEF BackfillFetch
  <2>10. ASSUME NEW b \in Backfills, NEW k \in Taps, BackfillDispatch(b, k)
         PROVE  MarkInv' /\ NoSilentSkip'
    BY <2>10, MarkFrame DEF BackfillDispatch
  <2>11. ASSUME NEW b \in Backfills, BackfillEnd(b) PROVE MarkInv' /\ NoSilentSkip'
    BY <2>11, MarkFrame DEF BackfillEnd
  <2>12. ASSUME NEW d \in Deliverers, Handle(d) PROVE MarkInv' /\ NoSilentSkip'
    BY <2>12, HandleEffect, MarkFrame
  <2>13. ASSUME NEW k \in Taps, RecordInRedpoint(k) PROVE MarkInv' /\ NoSilentSkip'
    BY <2>13, MarkFrame DEF RecordInRedpoint
  <2>14. CASE Crash
    BY <2>14, <2>a DEF Crash, MarkInv, NoSilentSkip, InScope
  <2>15. CASE Boot
    BY <2>15, <2>a, TapRange DEF Boot, MarkInv, NoSilentSkip, InScope, PollerStart, StartOfToday
  <2>16. CASE UNCHANGED vars BY <2>16, MarkFrame DEF vars
  <2>17. QED
    BY <2>1, <2>2, <2>3, <2>4, <2>5, <2>6, <2>7, <2>8, <2>9, <2>10, <2>11, <2>12,
       <2>13, <2>14, <2>15, <2>16
    DEF Next, Poll, PollBatch, Backfill
<1>3. QED BY <1>1, <1>2, TypeCorrect, LogCorrect, PTL DEF Spec

\* No tap is swallowed by the high-water mark of the poller.
THEOREM NothingSkipped == Spec => []NoSilentSkip
BY MarkCorrect, PTL
-----------------------------------------------------------------------------
\* Claims are counted in natural numbers.
LEMMA ClaimTypes ==
  ASSUME TypeOK, NEW k \in Taps
  PROVE  /\ Claims(k) \in Nat /\ Allowance(k) \in Nat /\ checkins[k] <= Claims(k)
         /\ \A d \in Deliverers : Pending(d, k) \in {0, 1}
<1>1. checkins[k] \in Nat /\ asyncs[k] \in Nat /\ lives[k] \in Nat
  BY DEF TypeOK
<1>2. \A d \in Deliverers : Pending(d, k) \in {0, 1}
  BY DEF Pending
<1>3. Pending("ws", k) \in {0, 1} /\ Pending("poller", k) \in {0, 1}
  BY <1>2, Threads
<1>4. QED
  BY <1>1, <1>2, <1>3 DEF Claims, Allowance

\* A step that adds no claim and moves nothing a claim is measured against.
LEMMA ClaimFrame ==
  ASSUME TypeOK, ClaimInv, clock' \in Nat, clock <= clock', up' => up,
         UNCHANGED <<logged, ts, lives, framed, seen>>,
         \A k \in Taps : Claims(k)' \in Nat /\ Claims(k)' <= Claims(k),
         \A b \in Backfills : ~th'[b].live
  PROVE  ClaimInv'
<1>1. \A k \in Taps : Claims(k) \in Nat /\ Allowance(k) \in Nat
  BY ClaimTypes
<1>2. \A k \in Taps : Allowance(k)' = Allowance(k)
  BY DEF Allowance
<1>3. ASSUME NEW k \in Taps, Fresh(k)' PROVE Fresh(k)
  <2>1. ts[k] \in Nat /\ clock \in Nat /\ Freshness \in Nat
    BY WindowAssumption DEF WindowAssumption, TypeOK
  <2>2. QED
    BY <1>3, <2>1 DEF Fresh
<1>4. \A k \in Taps : Claims(k)' <= Allowance(k)'
  BY <1>1, <1>2 DEF ClaimInv
<1>5. \A k \in Taps : up' /\ k <= logged' /\ k \notin seen' /\ Fresh(k)'
                        => Claims(k)' + 1 <= Allowance(k)'
  BY <1>1, <1>2, <1>3 DEF ClaimInv
<1>6. \A k \in Taps : k > logged' => Claims(k)' = 0
  BY <1>1 DEF ClaimInv
<1>7. QED
  BY <1>4, <1>5, <1>6 DEF ClaimInv

\* The claims of a thread that leaves the log, the counters and the other
\* threads alone.
LEMMA SameClaims ==
  ASSUME UNCHANGED <<checkins, asyncs, frames>>,
         th'["ws"] = th["ws"], th'["poller"] = th["poller"]
  PROVE  \A k \in Taps : Claims(k)' = Claims(k)
BY DEF Claims, Pending

\* A handler step hands its claim on to the Redpoint goroutine it starts, or
\* drops it; a replay of a backfill never had one.
LEMMA HandleClaims ==
  ASSUME TypeOK, TypeOK', ClaimInv, NEW d \in Deliverers, Handle(d)
  PROVE  /\ \A k \in Taps : Claims(k)' <= Claims(k)
         /\ \A b \in Backfills : ~th'[b].live
<1>1. \A b \in Backfills : ~th'[b].live
  BY HandleEffect, Threads DEF ClaimInv, Idle
<1>2. ASSUME NEW k \in Taps PROVE Claims(k)' <= Claims(k)
  <2>1. /\ checkins' = checkins /\ frames' = frames
        /\ asyncs[k] \in Nat /\ checkins[k] \in Nat
        /\ \A e \in Deliverers : Pending(e, k) \in {0, 1}
    BY HandleEffect, ClaimTypes DEF TypeOK
  <2>2. \A e \in Deliverers : e # d => Pending(e, k)' = Pending(e, k)
    BY HandleEffect DEF Pending
  <2>3. \/ asyncs'[k] = asyncs[k] /\ Pending(d, k)' \in 0 .. Pending(d, k)
        \/ /\ d \notin Backfills
           /\ asyncs'[k] = asyncs[k] + 1 /\ Pending(d, k) = 1 /\ Pending(d, k)' = 0
    <3>1. CASE asyncs' = asyncs
      BY <3>1, HandleEffect DEF Pending, Idle
    <3>2. CASE /\ th'[d] = Idle /\ th[d].live
               /\ asyncs' = [asyncs EXCEPT ![th[d].tap] = @ + 1]
      <4>1. asyncs \in [Taps -> Nat]
        BY DEF TypeOK
      <4>2. CASE th[d].tap = k
        <5>1. th[d].pc # "idle" /\ d \notin Backfills
          BY <3>2, HandleEffect DEF ClaimInv
        <5>2. Pending(d, k) = 1 /\ Pending(d, k)' = 0
          BY <3>2, <4>2, <5>1 DEF Pending, Idle
        <5>3. asyncs'[k] = asyncs[k] + 1
          BY <3>2, <4>1, <4>2
        <5>4. QED
          BY <5>1, <5>2, <5>3
      <4>3. CASE th[d].tap # k
        BY <3>2, <4>1, <4>3 DEF Pending, Idle
      <4>4. QED
        BY <4>2, <4>3
    <3>3. QED
      BY <3>1, <3>2, HandleEffect
  <2>4. CASE d \in Backfills
    <3>1. d # "ws" /\ d # "poller"
      BY <2>4, DelivererAssumption DEF DelivererAssumption
    <3>2. asyncs'[k] = asyncs[k]
      BY <2>3, <2>4
    <3>3. QED
      BY <2>1, <2>2, <3>1, <3>2, Threads DEF Claims
  <2>5. CASE d = "ws"
    <3>1. Pending("poller", k)' = Pending("poller", k)
      BY <2>2, <2>5, Threads
    <3>2. asyncs'[k] + Pending("ws", k)' <= asyncs[k] + Pending("ws", k)
      BY <2>1, <2>3, <2>5
    <3>3. asyncs'[k] \in Nat /\ Pending("ws", k)' \in {0, 1} /\ Pending("poller", k) \in {0, 1}
      BY <2>1, <2>3, <2>5, Threads DEF Pending
    <3>4. QED
      BY <2>1, <2>5, <3>1, <3>2, <3>3, Threads DEF Claims
  <2>6. CASE d = "poller"
    <3>1. Pending("ws", k)' = Pending("ws", k)
      BY <2>2, <2>6, Threads
    <3>2. asyncs'[k] + Pending("poller", k)' <= asyncs[k] + Pending("poller", k)
      BY <2>1, <2>3, <2>6
    <3>3. asyncs'[k] \in Nat /\ Pending("poller", k)' \in {0, 1} /\ Pending("ws", k) \in {0, 1}
      BY <2>1, <2>3, <2>6, Threads DEF Pending
    <3>4. QED
      BY <2>1, <2>6, <3>1, <3>2, <3>3, Threads DEF Claims
  <2>7. QED
    BY <2>4, <2>5, <2>6 DEF Deliverers
<1>3. QED
  BY <1>1, <1>2

\* Check-ins made, started and still to be started for a tap never exceed
\* what its processes and the WebSocket account for.
THEOREM ClaimCorrect == Spec => []ClaimInv
<1> USE DEF hubVars, connVars, pollVars, rowVars, processVars
<1>1. Init => ClaimInv
  <2> SUFFICES ASSUME Init PROVE ClaimInv
    OBVIOUS
  <2>1. \A k \in Taps : Claims(k) = 0 /\ Allowance(k) = 0 /\ ~(k <= logged)
    BY TapRange, Threads DEF Init, Claims, Allowance, Pending, Idle
  <2>2. \A b \in Backfills : ~th[b].live
    BY Threads DEF Init, Idle
  <2>3. QED
    BY <2>1, <2>2 DEF ClaimInv
<1>2. TypeOK /\ TypeOK' /\ LogInv /\ MarkInv /\ ClaimInv /\ [Next]_vars => ClaimInv'
  <2> SUFFICES ASSUME TypeOK, TypeOK', LogInv, MarkInv, ClaimInv, [Next]_vars
               PROVE  ClaimInv'
    OBVIOUS
  <2>a. /\ clock \in Nat /\ clock' \in Nat /\ logged \in Nat /\ Taps \subseteq Nat
        /\ \A k \in Taps : k > 0 /\ asyncs[k] \in Nat /\ checkins[k] \in Nat
        /\ \A k \in Taps : Claims(k) \in Nat /\ Allowance(k) \in Nat
        /\ \A k \in Taps, d \in Deliverers : Pending(d, k) \in {0, 1}
        /\ th \in [Deliverers -> Calls]
    BY TapRange, ClaimTypes DEF TypeOK
  <2>b. ASSUME NEW k \in Taps PROVE Claims(k)' \in Nat
    <3>1. Pending("ws", k)' \in {0, 1} /\ Pending("poller", k)' \in {0, 1}
      BY DEF Pending
    <3>2. checkins'[k] \in Nat /\ asyncs'[k] \in Nat
      BY DEF TypeOK
    <3>3. QED
      BY <3>1, <3>2 DEF Claims
  <2>c. \A b \in Backfills : ~th[b].live /\ b # "ws" /\ b # "poller" /\ b \in Deliverers
    BY DelivererAssumption, Threads DEF DelivererAssumption, ClaimInv
  <2>d. ASSUME UNCHANGED <<logged, ts, lives, framed, seen, checkins, asyncs, frames, th>>,
               clock <= clock', up' => up
        PROVE  ClaimInv'
    <3>1. \A k \in Taps : Claims(k)' = Claims(k)
      BY <2>d, SameClaims
    <3>2. QED
      BY <2>a, <2>c, <2>d, <3>1, ClaimFrame
  <2>1. CASE Tick
    BY <2>1, <2>a, <2>d DEF Tick
  <2>2. ASSUME NEW nfc \in BOOLEAN, HubLog(nfc) PROVE ClaimInv'
    <3>1. /\ logged' = logged + 1 /\ logged + 1 \in Taps
          /\ UNCHANGED <<clock, up, seen, th, asyncs, checkins>>
          /\ \/ frames' = frames /\ framed' = framed
             \/ frames' = frames \cup {logged + 1} /\ framed' = framed \cup {logged + 1}
      BY <2>2, TapRange DEF HubLog, TypeOK
    <3>2. \A k \in Taps : k # logged + 1 => ts'[k] = ts[k] /\ lives'[k] = lives[k]
      BY <2>2 DEF HubLog, TypeOK
    <3>3. ASSUME NEW k \in Taps, k # logged + 1
          PROVE  Claims(k)' = Claims(k) /\ Allowance(k)' = Allowance(k) /\ (Fresh(k)' <=> Fresh(k))
      BY <3>1, <3>2, <3>3 DEF Claims, Allowance, Pending, Fresh
    <3>4. ASSUME NEW k \in Taps, k = logged + 1
          PROVE  /\ Claims(k)' <= Allowance(k)'
                 /\ up' => Claims(k)' + 1 <= Allowance(k)'
      <4>1. Claims(k) = 0 /\ k \notin frames /\ k \notin framed
        BY <2>a, <3>4 DEF ClaimInv, LogInv
      <4>2. Claims(k)' = IF k \in frames' THEN 1 ELSE 0
        BY <2>a, <3>1, <4>1, Threads DEF Claims, Pending
      <4>3. lives'[k] = IF up THEN 1 ELSE 0
        BY <2>2, <3>4 DEF HubLog, TypeOK
      <4>4. QED
        BY <3>1, <4>1, <4>2, <4>3 DEF Allowance
    <3>5. \A k \in Taps : Claims(k)' <= Allowance(k)'
      BY <3>3, <3>4 DEF ClaimInv
    <3>6. \A k \in Taps : up' /\ k <= logged' /\ k \notin seen' /\ Fresh(k)'
                          => Claims(k)' + 1 <= Allowance(k)'
      BY <2>a, <3>1, <3>3, <3>4 DEF ClaimInv
    <3>7. \A k \in Taps : k > logged' => Claims(k)' = 0
      BY <2>a, <3>1, <3>3 DEF ClaimInv
    <3>8. QED
      BY <2>c, <3>1, <3>5, <3>6, <3>7 DEF ClaimInv
  <2>3. CASE WsConnect
    BY <2>3, <2>a, <2>d DEF WsConnect
  <2>4. CASE WsDrop
    <3>1. \A k \in Taps : Claims(k)' <= Claims(k)
      BY <2>4, <2>a DEF WsDrop, Claims, Pending
    <3>2. QED
      BY <2>4, <2>a, <2>b, <2>c, <3>1, ClaimFrame DEF WsDrop
  <2>5. ASSUME NEW k \in Taps, WsDeliver(k) PROVE ClaimInv'
    <3>1. /\ th["ws"] = Idle /\ th'["ws"] = Call(k, TRUE)
          /\ k \in frames /\ frames' = frames \ {k}
          /\ \A d \in Deliverers : d # "ws" => th'[d] = th[d]
          /\ UNCHANGED <<asyncs, checkins>>
      BY <2>5, <2>a, Threads DEF WsDeliver, Oldest
    <3>2. ASSUME NEW e \in Taps PROVE Claims(e)' <= Claims(e)
      <4>1. Pending("poller", e)' = Pending("poller", e)
        BY <3>1, Threads DEF Pending
      <4>2. Pending("ws", e) = 0 /\ Pending("ws", e)' = IF e = k THEN 1 ELSE 0
        BY <3>1 DEF Pending, Idle, Call
      <4>3. QED
        BY <2>a, <3>1, <4>1, <4>2, Threads DEF Claims
    <3>3. /\ UNCHANGED <<clock, up, logged, ts, lives, framed, seen>>
          /\ \A b \in Backfills : ~th'[b].live
      BY <2>5, <2>c, <3>1 DEF WsDeliver
    <3>4. QED
      BY <2>a, <2>b, <3>2, <3>3, ClaimFrame
  <2>6. CASE PollFetch
    BY <2>6, <2>a, <2>d DEF PollFetch
  <2>7. ASSUME NEW k \in Taps, PollSkip(k) PROVE ClaimInv'
    BY <2>7, <2>a, <2>d DEF PollSkip
  <2>8. ASSUME NEW k \in Taps, PollDispatch(k) PROVE ClaimInv'
    <3>1. /\ th["poller"] = Idle /\ th'["poller"] = Call(k, Fresh(k))
          /\ k \in pollBatch /\ ~(k <= maxLogID) /\ seen' = seen \cup {k}
          /\ \A d \in Deliverers : d # "poller" => th'[d] = th[d]
          /\ UNCHANGED <<clock, logged, ts, lives, framed, up, frames, asyncs, checkins>>
      BY <2>8, <2>a, Threads DEF PollDispatch, Oldest, AlreadyDispatched
    <3>2. up /\ k \notin seen /\ k <= logged
      BY <2>a, <3>1 DEF MarkInv, LogInv
    <3>3. ASSUME NEW e \in Taps, e # k PROVE Claims(e)' = Claims(e)
      BY <3>1, <3>3, Threads DEF Claims, Pending, Idle, Call
    <3>4. Claims(k)' = IF Fresh(k) THEN Claims(k) + 1 ELSE Claims(k)
      <4>1. Pending("ws", k)' = Pending("ws", k)
        BY <3>1, Threads DEF Pending
      <4>2. Pending("poller", k) = 0 /\ Pending("poller", k)' = IF Fresh(k) THEN 1 ELSE 0
        BY <3>1 DEF Pending, Idle, Call
      <4>3. QED
        BY <2>a, <3>1, <4>1, <4>2, Threads DEF Claims
    <3>5. \A e \in Taps : Allowance(e)' = Allowance(e) /\ (Fresh(e)' <=> Fresh(e))
      BY <3>1 DEF Allowance, Fresh
    <3>6. \A e \in Taps : Claims(e)' <= Allowance(e)'
      BY <3>1, <3>2, <3>3, <3>4, <3>5 DEF ClaimInv
    <3>7. \A e \in Taps : up' /\ e <= logged' /\ e \notin seen' /\ Fresh(e)'
                          => Claims(e)' + 1 <= Allowance(e)'
      BY <3>1, <3>3, <3>5 DEF ClaimInv
    <3>8. \A e \in Taps : e > logged' => Claims(e)' = 0
      BY <2>a, <3>1, <3>2, <3>3 DEF ClaimInv
    <3>9. QED
      BY <2>c, <3>1, <3>6, <3>7, <3>8 DEF ClaimInv
  <2>9. ASSUME NEW b \in Backfills, BackfillFetch(b) PROVE ClaimInv'
    BY <2>9, <2>a, <2>d DEF BackfillFetch
  <2>10. ASSUME NEW b \in Backfills, NEW k \in Taps, BackfillDispatch(b, k) PROVE ClaimInv'
    <3>1. /\ th'["ws"] = th["ws"] /\ th'["poller"] = th["poller"]
          /\ \A e \in Backfills : ~th'[e].live
      BY <2>10, <2>a, <2>c, Threads DEF BackfillDispatch, Call
    <3>2. \A e \in Taps : Claims(e)' = Claims(e)
      BY <2>10, <3>1, SameClaims DEF BackfillDispatch
    <3>3. UNCHANGED <<clock, up, logged, ts, lives, framed, seen>>
      BY <2>10 DEF BackfillDispatch
    <3>4. QED
      BY <2>a, <3>1, <3>2, <3>3, ClaimFrame
  <2>11. ASSUME NEW b \in Backfills, BackfillEnd(b) PROVE ClaimInv'
    BY <2>11, <2>a, <2>d DEF BackfillEnd
  <2>12. ASSUME NEW d \in Deliverers, Handle(d) PROVE ClaimInv'
    BY <2>12, <2>a, <2>b, HandleEffect, HandleClaims, ClaimFrame
  <2>13. ASSUME NEW k \in Taps, RecordInRedpoint(k) PROVE ClaimInv'
    <3>1. ASSUME NEW e \in Taps PROVE Claims(e)' <= Claims(e)
      <4>1. checkins'[e] + asyncs'[e] = checkins[e] + asyncs[e]
        BY <2>13, <2>a DEF RecordInRedpoint, TypeOK
      <4>2. /\ UNCHANGED <<frames, th>>
            /\ checkins'[e] \in Nat /\ asyncs'[e] \in Nat
        BY <2>13 DEF RecordInRedpoint, TypeOK
      <4>3. QED
        BY <2>a, <4>1, <4>2, Threads DEF Claims, Pending
    <3>2. /\ UNCHANGED <<clock, up, logged, ts, lives, framed, seen>>
          /\ \A b \in Backfills : ~th'[b].live
      BY <2>13, <2>c DEF RecordInRedpoint
    <3>3. QED
      BY <2>a, <2>b, <3>1, <3>2, ClaimFrame
  <2>14. CASE Crash
    <3>1. /\ frames' = {} /\ ~up' /\ \A d \in Deliverers : th'[d] = Idle
          /\ \A k \in Taps : asyncs'[k] = 0
          /\ UNCHANGED <<clock, logged, ts, lives, framed, checkins>>
      BY <2>14 DEF Crash
    <3>2. ASSUME NEW k \in Taps PROVE Claims(k)' <= Claims(k)
      BY <2>a, <3>1, Threads DEF Claims, Pending, Idle
    <3>3. \A k \in Taps : Allowance(k)' = Allowance(k)
      BY <3>1 DEF Allowance
    <3>4. \A k \in Taps : Claims(k)' <= Allowance(k)' /\ (k > logged' => Claims(k)' = 0)
      BY <2>a, <2>b, <3>1, <3>2, <3>3 DEF ClaimInv
    <3>5. QED
      BY <2>c, <3>1, <3>4 DEF ClaimInv, Idle
  <2>15. CASE Boot
    <3>1. UNCHANGED <<clock, logged, ts, framed, frames, seen, th, asyncs, checkins>>
      BY <2>15 DEF Boot
    <3>2. \A k \in Taps : Claims(k)' = Claims(k) /\ (Fresh(k)' <=> Fresh(k))
      BY <3>1 DEF Claims, Pending, Fresh
    <3>3. ASSUME NEW k \in Taps
          PROVE  /\ Allowance(k) <= Allowance(k)'
                 /\ k <= logged /\ Fresh(k) => Allowance(k)' = Allowance(k) + 1
      BY <2>15, <3>1 DEF Boot, Allowance, TypeOK
    <3>4. \A k \in Taps : Claims(k)' <= Allowance(k)'
      <4>1. \A k \in Taps : Allowance(k)' \in Nat
        BY DEF Allowance, TypeOK
      <4>2. QED
        BY <2>a, <3>2, <3>3, <4>1 DEF ClaimInv
    <3>5. \A k \in Taps : up' /\ k <= logged' /\ k \notin seen' /\ Fresh(k)'
                          => Claims(k)' + 1 <= Allowance(k)'
      BY <2>a, <3>1, <3>2, <3>3 DEF ClaimInv
    <3>6. \A k \in Taps : k > logged' => Claims(k)' = 0
      BY <3>1, <3>2 DEF ClaimInv
    <3>7. QED
      BY <2>c, <3>1, <3>4, <3>5, <3>6 DEF ClaimInv
  <2>16. CASE UNCHANGED vars
    BY <2>16, <2>a, <2>d DEF vars
  <2>17. QED
    BY <2>1, <2>2, <2>3, <2>4, <2>5, <2>6, <2>7, <2>8, <2>9, <2>10, <2>11, <2>12,
       <2>13, <2>14, <2>15, <2>16
    DEF Next, Poll, PollBatch, Backfill
<1>3. QED BY <1>1, <1>2, TypeCorrect, LogCorrect, MarkCorrect, PTL DEF Spec

\* The number of createCheckIn calls for a tap is bounded.
THEOREM CheckinsCorrect == Spec => []CheckinsBounded
<1>1. TypeOK /\ ClaimInv => CheckinsBounded
  <2> SUFFICES ASSUME TypeOK, ClaimInv, NEW k \in Taps
               PROVE  checkins[k] <= Allowance(k)
    BY DEF CheckinsBounded, Allowance
  <2>1. checkins[k] \in Nat
    BY DEF TypeOK
  <2>2. QED
    BY <2>1, ClaimTypes DEF ClaimInv
<1>2. QED
  BY <1>1, TypeCorrect, ClaimCorrect, PTL
-----------------------------------------------------------------------------
\* An unlock command is sent only by the thread of the WebSocket, which then
\* moves on to the row of the tap.
LEMMA HandleOpens ==
  ASSUME TypeOK, OpenInv, NEW d \in Deliverers, Handle(d)
  PROVE  \/ opened' = opened /\ (th'[d].pc = "unlock" => th[d].pc \in {"decide", "recheck", "unlock"})
            /\ (th'[d].pc = "recheck" => th[d].pc = "decide") /\ th'[d].pc # "decide"
         \/ /\ d = "ws" /\ th[d].pc = "unlock" /\ th'[d].pc = "record"
            /\ opened' = [opened EXCEPT ![th[d].tap] = @ + 1]
<1>0. th \in [Deliverers -> Calls] /\ th[d] \in Calls
  BY DEF TypeOK
<1>1. CASE Ignore(d) BY <1>0, <1>1 DEF Ignore, Idle
<1>2. CASE Decide(d) BY <1>0, <1>2 DEF Decide, Goto, Calls
<1>3. CASE Recheck(d) BY <1>0, <1>3 DEF Recheck, Goto, Calls
<1>4. CASE UnlockSkipped(d) BY <1>0, <1>4 DEF UnlockSkipped, Goto, Calls
<1>5. CASE UnlockDone(d)
  <2>1. d = "ws"
    BY <1>5 DEF UnlockDone, MayUnlock, OpenInv, Deliverers
  <2>2. QED
    BY <1>0, <1>5, <2>1 DEF UnlockDone, Calls
<1>6. CASE UnlockFailed(d) BY <1>0, <1>6 DEF UnlockFailed, Idle
<1>7. CASE RecordDenied(d) BY <1>0, <1>7 DEF RecordDenied, Idle
<1>8. CASE RecordAllowed(d) BY <1>0, <1>8 DEF RecordAllowed, Idle
<1>9. QED
  BY <1>1, <1>2, <1>3, <1>4, <1>5, <1>6, <1>7, <1>8 DEF Handle

LEMMA OpenTypes ==
  ASSUME TypeOK, NEW k \in Taps
  PROVE  OpenClaims(k) \in Nat /\ opened[k] \in Nat /\ opened[k] <= OpenClaims(k)
BY DEF TypeOK, OpenClaims

LEMMA OpenFrame ==
  ASSUME OpenInv, UNCHANGED <<framed, frames, opened>>, th'["ws"] = th["ws"],
         \A b \in Backfills : ~th'[b].live
  PROVE  OpenInv'
BY DEF OpenInv, OpenClaims

\* The bridge opens the door at most once for a tap, and only for a tap the
\* WebSocket delivered.
THEOREM OpenCorrect == Spec => [](OpenInv /\ OpenedOnce)
<1> USE DEF hubVars, connVars, pollVars, rowVars, processVars
<1>1. Init => OpenInv
  BY Threads DEF Init, OpenInv, OpenClaims, Idle
<1>2. TypeOK /\ TypeOK' /\ LogInv /\ OpenInv /\ [Next]_vars => OpenInv'
  <2> SUFFICES ASSUME TypeOK, TypeOK', LogInv, OpenInv, [Next]_vars PROVE OpenInv'
    OBVIOUS
  <2>a. /\ th \in [Deliverers -> Calls] /\ "ws" \in Deliverers /\ "poller" \in Deliverers
        /\ \A b \in Backfills : ~th[b].live /\ b # "ws" /\ b # "poller" /\ b \in Deliverers
    BY DelivererAssumption, Threads DEF DelivererAssumption, OpenInv, TypeOK
  <2>1. CASE Tick BY <2>1, <2>a, OpenFrame DEF Tick
  <2>2. ASSUME NEW nfc \in BOOLEAN, HubLog(nfc) PROVE OpenInv'
    <3>1. /\ UNCHANGED <<th, opened>> /\ logged + 1 \in Taps /\ logged \in Nat
          /\ \/ frames' = frames /\ framed' = framed
             \/ frames' = frames \cup {logged + 1} /\ framed' = framed \cup {logged + 1}
      BY <2>2, TapRange DEF HubLog, TypeOK
    <3>2. ASSUME NEW k \in Taps
          PROVE  OpenClaims(k)' <= (IF k \in framed' THEN 1 ELSE 0)
      <4>1. CASE k # logged + 1
        <5>1. OpenClaims(k)' = OpenClaims(k) /\ (k \in framed' <=> k \in framed)
          BY <3>1, <4>1 DEF OpenClaims
        <5>2. QED
          BY <5>1 DEF OpenInv
      <4>2. CASE k = logged + 1
        <5>1. k \notin framed /\ k \notin frames
          BY <3>1, <4>2 DEF LogInv
        <5>2. OpenClaims(k) <= 0
          BY <5>1 DEF OpenInv
        <5>3. OpenClaims(k)' = IF k \in frames' THEN OpenClaims(k) + 1 ELSE OpenClaims(k)
          BY <3>1, <5>1, OpenTypes DEF OpenClaims
        <5>4. k \in frames' => k \in framed'
          BY <3>1, <5>1
        <5>5. QED
          BY <5>2, <5>3, <5>4, OpenTypes
      <4>3. QED
        BY <4>1, <4>2
    <3>3. QED
      BY <2>a, <3>1, <3>2 DEF OpenInv
  <2>3. CASE WsConnect BY <2>3, <2>a, OpenFrame DEF WsConnect
  <2>4. CASE WsDrop
    BY <2>4, <2>a, OpenTypes DEF WsDrop, OpenInv, OpenClaims, TypeOK
  <2>5. ASSUME NEW k \in Taps, WsDeliver(k) PROVE OpenInv'
    <3>1. /\ th["ws"] = Idle /\ th'["ws"] = Call(k, TRUE)
          /\ k \in frames /\ frames' = frames \ {k}
          /\ \A d \in Deliverers : d # "ws" => th'[d] = th[d]
          /\ UNCHANGED <<opened, framed>>
      BY <2>5, <2>a DEF WsDeliver, Oldest
    <3>2. \A e \in Taps : OpenClaims(e)' = OpenClaims(e)
      BY <3>1, OpenTypes DEF OpenClaims, Idle, Call
    <3>3. QED
      BY <2>a, <3>1, <3>2 DEF OpenInv
  <2>6. CASE PollFetch BY <2>6, <2>a, OpenFrame DEF PollFetch
  <2>7. ASSUME NEW k \in Taps, PollSkip(k) PROVE OpenInv'
    BY <2>7, <2>a, OpenFrame DEF PollSkip
  <2>8. ASSUME NEW k \in Taps, PollDispatch(k) PROVE OpenInv'
    BY <2>8, <2>a, OpenFrame DEF PollDispatch
  <2>9. ASSUME NEW b \in Backfills, BackfillFetch(b) PROVE OpenInv'
    BY <2>9, <2>a, OpenFrame DEF BackfillFetch
  <2>10. ASSUME NEW b \in Backfills, NEW k \in Taps, BackfillDispatch(b, k) PROVE OpenInv'
    BY <2>10, <2>a, OpenFrame DEF BackfillDispatch, Call
  <2>11. ASSUME NEW b \in Backfills, BackfillEnd(b) PROVE OpenInv'
    BY <2>11, <2>a, OpenFrame DEF BackfillEnd
  <2>12. ASSUME NEW d \in Deliverers, Handle(d) PROVE OpenInv'
    <3>1. /\ UNCHANGED <<frames, framed>>
          /\ \A b \in Backfills : ~th'[b].live
      BY <2>12, <2>a, HandleEffect DEF Idle
    <3>2. CASE d # "ws"
      BY <2>12, <2>a, <3>1, <3>2, HandleEffect, HandleOpens, OpenFrame
    <3>3. CASE d = "ws"
      <4>1. ASSUME NEW k \in Taps PROVE OpenClaims(k)' <= OpenClaims(k)
        <5>1. opened[k] \in Nat /\ opened \in [Taps -> Nat] /\ frames' = frames
          BY <3>1 DEF TypeOK
        <5>2. th'["ws"] = Idle \/ th'["ws"].tap = th["ws"].tap
          BY <2>12, <3>3, HandleEffect
        <5>3. CASE opened' = opened
          BY <2>12, <3>3, <5>1, <5>2, <5>3, HandleOpens DEF OpenClaims, Idle
        <5>4. CASE /\ th["ws"].pc = "unlock" /\ th'["ws"].pc = "record"
                   /\ opened' = [opened EXCEPT ![th["ws"].tap] = @ + 1]
          <6>1. CASE th["ws"].tap = k
            <7>1. opened'[k] = opened[k] + 1
              BY <5>1, <5>4, <6>1
            <7>2. QED
              BY <5>1, <5>4, <6>1, <7>1 DEF OpenClaims
          <6>2. CASE th["ws"].tap # k
            <7>1. opened'[k] = opened[k]
              BY <5>1, <5>4, <6>2
            <7>2. QED
              BY <5>1, <5>4, <6>2, <7>1 DEF OpenClaims
          <6>3. QED
            BY <6>1, <6>2
        <5>5. QED
          BY <2>12, <3>3, <5>3, <5>4, HandleOpens
      <4>2. \A k \in Taps : OpenClaims(k)' \in Nat
        BY DEF OpenClaims, TypeOK
      <4>3. QED
        BY <3>1, <4>1, <4>2, OpenTypes DEF OpenInv
    <3>4. QED
      BY <3>2, <3>3
  <2>13. ASSUME NEW k \in Taps, RecordInRedpoint(k) PROVE OpenInv'
    BY <2>13, <2>a, OpenFrame DEF RecordInRedpoint
  <2>14. CASE Crash
    BY <2>14, <2>a, OpenTypes DEF Crash, OpenInv, OpenClaims, Idle, TypeOK
  <2>15. CASE Boot BY <2>15, <2>a, OpenFrame DEF Boot
  <2>16. CASE UNCHANGED vars BY <2>16, <2>a, OpenFrame DEF vars
  <2>17. QED
    BY <2>1, <2>2, <2>3, <2>4, <2>5, <2>6, <2>7, <2>8, <2>9, <2>10, <2>11, <2>12,
       <2>13, <2>14, <2>15, <2>16
    DEF Next, Poll, PollBatch, Backfill
<1>3. TypeOK /\ OpenInv => OpenedOnce
  BY OpenTypes DEF OpenInv, OpenedOnce
<1>4. QED
  BY <1>1, <1>2, <1>3, TypeCorrect, LogCorrect, PTL DEF Spec

\* For one tap the bridge sends at most one unlock command.
THEOREM DoorOpenedOnce == Spec => []OpenedOnce
BY OpenCorrect, PTL
=============================================================================

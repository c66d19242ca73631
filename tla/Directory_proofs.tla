--------------------------- MODULE Directory_proofs ---------------------------
(***************************************************************************)
(* Type correctness of Directory, and that a loop which declares itself    *)
(* complete has left nobody out.                                           *)
(***************************************************************************)
EXTENDS Directory, TLAPS

Cursors == Customers \cup {0}

LEMMA CursorsAreNat == Cursors \subseteq Nat /\ 0 \notin Customers
BY BoundsAssumption DEF BoundsAssumption, Cursors, Customers

LEMMA IdleIsThread == Idle \in Thread
BY DEF Idle, Thread, Phases, Started

(* What a loop still owes lies beyond what it has seen: of a whole loop,    *)
(* every customer owed is still to be fetched, or on the page in hand.      *)
Ahead(r, c) ==
  \/ r.at = "fetch" /\ c > r.cursor
  \/ r.at = "copy" /\ (c = r.page \/ (r.more /\ c > r.page))
  \/ r.at = "progress" /\ r.more /\ c > r.cursor

Sound(r) == /\ r.owed \subseteq active
            /\ r.whole => \A c \in r.owed : Ahead(r, c)

(* And what a cursor that may be taken up stands for lies beyond it.        *)
SyncType  == sync \in SyncState /\ owedAt \in SUBSET Customers /\ wholeAt \in BOOLEAN
SyncSound == /\ owedAt \subseteq active
             /\ CanResume /\ wholeAt => \A c \in owedAt : c > sync.cursor

TablesType == active \in SUBSET Customers /\ listed \in SUBSET Customers /\ events \in Nat
LoopsType  == th \in [Threads -> Thread]

DirectoryInv == /\ TablesType /\ SyncType /\ SyncSound /\ LoopsType
                /\ \A t \in Threads : Sound(th[t])

LEMMA InvIsTyped == DirectoryInv => TypeOK
BY DEF DirectoryInv, TypeOK, TablesType, SyncType, LoopsType

LEMMA InvIsWhole == DirectoryInv => CompleteIsWhole
BY DEF DirectoryInv, CompleteIsWhole, Sound, Ahead

LEMMA IdleIsSound == Sound(Idle)
BY DEF Sound, Idle

LEMMA InitInv == Init => DirectoryInv
<1> SUFFICES ASSUME Init PROVE DirectoryInv OBVIOUS
<1>1. TablesType BY DEF Init, TablesType
<1>2. SyncType /\ SyncSound BY DEF Init, SyncType, SyncSound, CanResume, SyncState, Started
<1>3. LoopsType /\ \A t \in Threads : Sound(th[t])
  BY IdleIsThread, IdleIsSound DEF Init, LoopsType
<1> QED BY <1>1, <1>2, <1>3 DEF DirectoryInv

(* The steps of one loop, each into a record that is again a sound one.     *)
LoopStep(t) ==
  \/ Fetch(t) \/ Copy(t) \/ Fails(t)
  \/ /\ t \in Walks
     /\ \/ PostResync(t) \/ WalkBegin(t) \/ WalkStart(t) \/ WalkProgress(t)
        \/ WalkMark(t) \/ WalkFinal(t) \/ WalkWriteFails(t)
  \/ /\ t \in AllLoads
     /\ \/ PostDirectorySync(t) \/ LoadBegin(t) \/ LoadProgress(t) \/ LoadEnd(t)
  \/ t = Scheduled /\ Tick

LEMMA Steps ==
  ASSUME [Next]_vars
  PROVE  \/ UNCHANGED vars
         \/ \E c \in Customers : Change(c)
         \/ WindowPasses \/ Crash
         \/ \E t \in Threads : LoopStep(t)
BY DEF Next, LoopStep, WalkStep, LoadStep, PageStep, Threads, AllLoads

(* It is enough to say what the step makes of the row and of its loop.      *)
StepInto(t, r) ==
  /\ r \in Thread /\ Sound(r) /\ Goes(t, r)
  /\ UNCHANGED active /\ TablesType'
  /\ SyncType' /\ SyncSound'

LEMMA StepIntoKeeps ==
  ASSUME DirectoryInv, NEW t \in Threads, NEW r, StepInto(t, r)
  PROVE  DirectoryInv'
<1>1. th' = [th EXCEPT ![t] = r] BY DEF StepInto, Goes
<1>2. LoopsType' BY <1>1 DEF StepInto, DirectoryInv, LoopsType
<1>3. ASSUME NEW u \in Threads PROVE Sound(th[u])'
  <2>1. th'[u] = IF u = t THEN r ELSE th[u]
    BY <1>1 DEF DirectoryInv, LoopsType
  <2>2. Sound(th'[u]) BY <2>1 DEF StepInto, DirectoryInv
  <2> QED BY <2>2 DEF Sound, Ahead, StepInto
<1> QED BY <1>2, <1>3 DEF StepInto, DirectoryInv

LEMMA FetchKeeps ==
  ASSUME DirectoryInv, NEW t \in Threads, Fetch(t) PROVE DirectoryInv'
<1>0. th[t] \in Thread /\ Sound(th[t])
  BY DEF DirectoryInv, LoopsType
<1>1. PICK page \in First(Beyond(t)) : Fetched(t, page, Beyond(t) \ {page} # {})
  BY DEF Fetch
<1> DEFINE more == Beyond(t) \ {page} # {}
           r == [th[t] EXCEPT !.at = "copy", !.page = page, !.more = more]
<1>2. page \in Cursors /\ more \in BOOLEAN
  BY DEF First, Beyond, Cursors, DirectoryInv, TablesType
<1>3. r \in Thread BY <1>0, <1>2 DEF Thread, Phases, Cursors
<1>4. Sound(r)
  <2>1. ASSUME th[t].whole, NEW c \in th[t].owed
        PROVE  c = page \/ (more /\ c > page)
    <3>1. c \in Beyond(t)
      BY <1>0, <1>1, <2>1 DEF Sound, Ahead, Beyond, Fetched, At
    <3>2. page \in Beyond(t) /\ page <= c
      BY <3>1 DEF First
    <3>3. page \in Nat /\ c \in Nat
      BY <3>1, <1>2, CursorsAreNat DEF Beyond, DirectoryInv, TablesType, Cursors
    <3> QED BY <3>1, <3>2, <3>3
  <2>2. /\ r.owed = th[t].owed /\ r.whole = th[t].whole
        /\ r.at = "copy" /\ r.page = page /\ r.more = more
    BY <1>0 DEF Thread
  <2> QED BY <1>0, <2>1, <2>2 DEF Sound, Ahead
<1>5. Goes(t, r) /\ UNCHANGED <<active, listed, events>> /\ NoWrite
  BY <1>1 DEF Fetched
<1> HIDE DEF r
<1>6. StepInto(t, r)
  BY <1>3, <1>4, <1>5
     DEF StepInto, NoWrite, DirectoryInv, TablesType, SyncType, SyncSound, CanResume
<1> QED BY <1>6, StepIntoKeeps

LEMMA CopyKeeps ==
  ASSUME DirectoryInv, NEW t \in Threads, Copy(t) PROVE DirectoryInv'
<1>0. th[t] \in Thread /\ Sound(th[t])
  BY DEF DirectoryInv, LoopsType
<1> DEFINE page == th[t].page
           r == [th[t] EXCEPT
                   !.at = IF t \in Walks \/ th[t].more THEN "progress" ELSE "mark",
                   !.cursor = th[t].page, !.page = 0,
                   !.owed = th[t].owed \ {th[t].page}]
<1>1. At(t, "copy") /\ Goes(t, r) /\ UNCHANGED <<active, events>> /\ NoWrite
  BY DEF Copy
<1>2. listed' \in SUBSET Customers
  <2>1. page \in Customers \cup {0} BY <1>0 DEF Thread
  <2>2. listed' = listed \cup ({page} \ {0}) BY DEF Copy
  <2> QED BY <2>1, <2>2 DEF DirectoryInv, TablesType
<1>3. r \in Thread
  BY <1>0 DEF Thread, Phases
<1>4. Sound(r)
  <2>1. ASSUME th[t].whole, NEW c \in th[t].owed \ {page}
        PROVE  th[t].more /\ c > page
    BY <1>0, <1>1, <2>1 DEF Sound, Ahead, At
  <2>2. /\ r.owed = th[t].owed \ {page} /\ r.whole = th[t].whole
        /\ r.more = th[t].more /\ r.cursor = page
        /\ th[t].more => r.at = "progress"
    BY <1>0 DEF Thread
  <2> QED BY <1>0, <2>1, <2>2 DEF Sound, Ahead
<1> HIDE DEF r
<1>5. StepInto(t, r)
  BY <1>1, <1>2, <1>3, <1>4
     DEF StepInto, NoWrite, DirectoryInv, TablesType, SyncType, SyncSound, CanResume
<1> QED BY <1>5, StepIntoKeeps

(* A loop that stops leaves the row as it was, or says error.               *)
LEMMA FailsKeeps ==
  ASSUME DirectoryInv, NEW t \in Threads, Fails(t) PROVE DirectoryInv'
<1>1. Goes(t, Idle) /\ UNCHANGED <<active, listed>> /\ events' \in Nat
  BY DEF Fails, Happens, DirectoryInv, TablesType
<1>2. SyncType' /\ SyncSound'
  <2>1. CASE NoWrite
    BY <1>1, <2>1 DEF NoWrite, DirectoryInv, SyncType, SyncSound, CanResume
  <2>2. CASE /\ sync' = [sync EXCEPT !.status = "error"]
             /\ wholeAt' = (wholeAt /\ sync.status # "complete") /\ UNCHANGED owedAt
    <3>1. sync \in SyncState /\ sync' \in SyncState /\ sync'.cursor = sync.cursor
      BY <2>2 DEF DirectoryInv, SyncType, SyncState
    <3>2. CanResume' /\ wholeAt' => CanResume /\ wholeAt
      BY <2>2, <3>1 DEF CanResume
    <3>3. wholeAt' \in BOOLEAN BY <2>2
    <3> QED BY <1>1, <2>2, <3>1, <3>2, <3>3 DEF DirectoryInv, SyncType, SyncSound, CanResume
  <2>3. CASE UpdateSyncState("error", 0, "none", {}, TRUE)
    BY <2>3 DEF UpdateSyncState, SyncType, SyncSound, CanResume, SyncState, Started
  <2> QED BY <2>1, <2>2, <2>3 DEF Fails
<1>3. StepInto(t, Idle)
  BY <1>1, <1>2, IdleIsThread, IdleIsSound DEF StepInto, DirectoryInv, TablesType
<1> QED BY <1>3, StepIntoKeeps

(* To wait, or to begin at the top with everybody owed.                     *)
LEMMA FreshLoop ==
  ASSUME DirectoryInv, NEW phase \in Phases
  PROVE  /\ [Idle EXCEPT !.at = phase] \in Thread /\ Sound([Idle EXCEPT !.at = phase])
         /\ [Idle EXCEPT !.at = "fetch", !.owed = active] \in Thread
         /\ Sound([Idle EXCEPT !.at = "fetch", !.owed = active])
<1>1. [Idle EXCEPT !.at = phase] \in Thread
  BY DEF Idle, Thread, Started
<1>2. [Idle EXCEPT !.at = "fetch", !.owed = active] \in Thread
  BY DEF Idle, Thread, Phases, Started, DirectoryInv, TablesType
<1>3. Sound([Idle EXCEPT !.at = phase])
  BY DEF Idle, Sound
<1>4. \A c \in active : c > 0
  BY BoundsAssumption DEF DirectoryInv, TablesType, Customers, BoundsAssumption
<1>5. Sound([Idle EXCEPT !.at = "fetch", !.owed = active])
  BY <1>4 DEF Idle, Sound, Ahead
<1> QED BY <1>1, <1>2, <1>3, <1>5

LEMMA RequestKeeps ==
  ASSUME DirectoryInv, NEW t \in Threads,
         PostResync(t) \/ PostDirectorySync(t) \/ (t = Scheduled /\ Tick)
  PROVE  DirectoryInv'
<1>1. Goes(t, [Idle EXCEPT !.at = "begin"]) /\ UNCHANGED <<active, listed>> /\ NoWrite
  BY DEF PostResync, PostDirectorySync, Tick
<1>0. events' \in Nat
  BY DEF PostResync, PostDirectorySync, Tick, Happens, DirectoryInv, TablesType
<1> DEFINE r == [Idle EXCEPT !.at = "begin"]
<1>2. r \in Thread /\ Sound(r) BY FreshLoop DEF Phases
<1> HIDE DEF r
<1>3. StepInto(t, r)
  BY <1>0, <1>1, <1>2
     DEF r, StepInto, NoWrite, DirectoryInv, TablesType, SyncType, SyncSound, CanResume
<1> QED BY <1>3, StepIntoKeeps

(* After a page: the rest of what is owed lies beyond the cursor.           *)
LEMMA AfterProgressIsSound ==
  ASSUME DirectoryInv, NEW t \in Threads, At(t, "progress")
  PROVE  AfterProgress(t) \in Thread /\ Sound(AfterProgress(t))
<1>0. th[t] \in Thread /\ Sound(th[t])
  BY DEF DirectoryInv, LoopsType
<1>1. AfterProgress(t) \in Thread
  BY <1>0 DEF AfterProgress, Thread, Phases
<1>2. ASSUME th[t].whole, NEW c \in th[t].owed
      PROVE  th[t].more /\ c > th[t].cursor
  BY <1>0, <1>2 DEF Sound, Ahead, At
<1>3. /\ AfterProgress(t).owed = th[t].owed
      /\ AfterProgress(t).whole = th[t].whole
      /\ AfterProgress(t).cursor = th[t].cursor
      /\ th[t].more => AfterProgress(t).at = "fetch"
  BY <1>0 DEF AfterProgress, Thread
<1>4. Sound(AfterProgress(t))
  BY <1>0, <1>2, <1>3 DEF Sound, Ahead
<1> QED BY <1>1, <1>4

LEMMA WalkKeeps ==
  ASSUME DirectoryInv, NEW w \in Walks,
         \/ WalkBegin(w) \/ WalkStart(w) \/ WalkProgress(w)
         \/ WalkMark(w) \/ WalkFinal(w) \/ WalkWriteFails(w)
  PROVE  DirectoryInv'
<1>a. w \in Threads BY DEF Threads
<1>0. th[w] \in Thread /\ Sound(th[w])
  BY <1>a DEF DirectoryInv, LoopsType
<1>t. /\ TablesType /\ SyncType /\ SyncSound
  BY DEF DirectoryInv
<1>1. CASE WalkBegin(w)
  <2>1. UNCHANGED <<active, listed, events>> /\ NoWrite BY <1>1 DEF WalkBegin
  <2>2. CASE CanResume
    <3> DEFINE r == [Idle EXCEPT !.at = "fetch", !.cursor = sync.cursor,
                                 !.started = sync.started,
                                 !.owed = owedAt, !.whole = wholeAt]
    <3>1. Goes(w, r) BY <1>1, <2>2 DEF WalkBegin
    <3>2. r \in Thread BY <1>t DEF Idle, Thread, Phases, SyncType, SyncState
    <3>3. /\ r.at = "fetch" /\ r.owed = owedAt /\ r.whole = wholeAt
          /\ r.cursor = sync.cursor
      BY DEF Idle
    <3>4. Sound(r) BY <1>t, <2>2, <3>3 DEF Sound, Ahead, SyncSound
    <3> HIDE DEF r
    <3>5. StepInto(w, r)
      BY <1>t, <2>1, <3>1, <3>2, <3>4
         DEF StepInto, NoWrite, TablesType, SyncType, SyncSound, CanResume
    <3> QED BY <1>a, <3>5, StepIntoKeeps
  <2>3. CASE ~CanResume
    <3> DEFINE r == [Idle EXCEPT !.at = "start"]
    <3>1. Goes(w, r) BY <1>1, <2>3 DEF WalkBegin
    <3>2. r \in Thread /\ Sound(r) BY FreshLoop DEF Phases
    <3> HIDE DEF r
    <3>3. StepInto(w, r)
      BY <1>t, <2>1, <3>1, <3>2
         DEF StepInto, NoWrite, TablesType, SyncType, SyncSound, CanResume
    <3> QED BY <1>a, <3>3, StepIntoKeeps
  <2> QED BY <2>2, <2>3
<1>2. CASE WalkStart(w)
  <2> DEFINE r == [Idle EXCEPT !.at = "fetch", !.owed = active]
  <2>1. /\ Goes(w, r) /\ UNCHANGED <<active, listed, events>>
        /\ UpdateSyncState("running", 0, "recent", active, TRUE)
    BY <1>2 DEF WalkStart
  <2>2. r \in Thread /\ Sound(r) BY FreshLoop DEF Phases
  <2>3. \A c \in active : c > 0
    BY <1>t, BoundsAssumption DEF TablesType, Customers, BoundsAssumption
  <2> HIDE DEF r
  <2>4. SyncType' /\ SyncSound'
    BY <1>t, <2>1, <2>3
       DEF UpdateSyncState, TablesType, SyncType, SyncSound, CanResume, SyncState, Started
  <2>5. StepInto(w, r)
    BY <1>t, <2>1, <2>2, <2>4 DEF StepInto, TablesType
  <2> QED BY <1>a, <2>5, StepIntoKeeps
<1>3. CASE WalkProgress(w)
  <2>1. /\ Goes(w, AfterProgress(w)) /\ UNCHANGED <<active, listed, events>>
        /\ At(w, "progress")
        /\ UpdateSyncState("running", th[w].cursor, th[w].started, th[w].owed, th[w].whole)
    BY <1>3 DEF WalkProgress
  <2>2. AfterProgress(w) \in Thread /\ Sound(AfterProgress(w))
    BY <1>a, <2>1, AfterProgressIsSound
  <2>3. SyncType'
    BY <1>0, <2>1 DEF UpdateSyncState, SyncType, SyncState, Thread
  <2>4. SyncSound'
    <3>1. ASSUME th[w].whole, NEW c \in th[w].owed PROVE c > th[w].cursor
      BY <1>0, <2>1, <3>1 DEF Sound, Ahead, At
    <3>2. sync'.cursor = th[w].cursor /\ owedAt' = th[w].owed /\ wholeAt' = th[w].whole
      BY <2>1 DEF UpdateSyncState
    <3> QED BY <1>0, <2>1, <3>1, <3>2 DEF SyncSound, CanResume, Sound
  <2>5. StepInto(w, AfterProgress(w))
    BY <1>t, <2>1, <2>2, <2>3, <2>4 DEF StepInto, TablesType
  <2> QED BY <1>a, <2>5, StepIntoKeeps
<1>4. CASE WalkMark(w)
  <2> DEFINE r == [th[w] EXCEPT !.at = "final"]
  <2>1. /\ Goes(w, r) /\ UNCHANGED <<active, listed, events, wholeAt>>
        /\ At(w, "mark") /\ sync' = [sync EXCEPT !.status = "complete"]
        /\ owedAt' = active
    BY <1>4 DEF WalkMark
  <2>2. r \in Thread BY <1>0 DEF Thread, Phases
  <2>3. r.owed = th[w].owed /\ r.whole = th[w].whole
    BY <1>0 DEF Thread
  <2>4. Sound(r) BY <1>0, <2>1, <2>3 DEF Sound, Ahead, At
  <2> HIDE DEF r
  <2>5. SyncType' /\ SyncSound'
    BY <1>t, <2>1 DEF TablesType, SyncType, SyncSound, SyncState, CanResume
  <2>6. StepInto(w, r)
    BY <1>t, <2>1, <2>2, <2>4, <2>5 DEF StepInto, TablesType
  <2> QED BY <1>a, <2>6, StepIntoKeeps
<1>5. CASE WalkFinal(w)
  <2>1. /\ Goes(w, Idle) /\ UNCHANGED <<active, listed, events>>
        /\ UpdateSyncState("complete", 0, th[w].started, {}, TRUE)
    BY <1>5 DEF WalkFinal
  <2>2. SyncType' /\ SyncSound'
    BY <1>0, <2>1 DEF UpdateSyncState, SyncType, SyncSound, CanResume, SyncState, Thread
  <2>3. StepInto(w, Idle)
    BY <1>t, <2>1, <2>2, IdleIsThread, IdleIsSound DEF StepInto, TablesType
  <2> QED BY <1>a, <2>3, StepIntoKeeps
<1>6. CASE WalkWriteFails(w)
  <2> DEFINE r == IF At(w, "progress") THEN AfterProgress(w) ELSE Idle
  <2>1. /\ Goes(w, r) /\ UNCHANGED <<active, listed>> /\ NoWrite
        /\ events' \in Nat
    BY <1>t, <1>6 DEF WalkWriteFails, Happens, TablesType
  <2>2. r \in Thread /\ Sound(r)
    BY <1>a, AfterProgressIsSound, IdleIsThread, IdleIsSound
  <2> HIDE DEF r
  <2>3. StepInto(w, r)
    BY <1>t, <2>1, <2>2 DEF StepInto, NoWrite, TablesType, SyncType, SyncSound, CanResume
  <2> QED BY <1>a, <2>3, StepIntoKeeps
<1> QED BY <1>1, <1>2, <1>3, <1>4, <1>5, <1>6

LEMMA LoadKeeps ==
  ASSUME DirectoryInv, NEW l \in AllLoads, LoadBegin(l) \/ LoadProgress(l) \/ LoadEnd(l)
  PROVE  DirectoryInv'
<1>a. l \in Threads BY DEF Threads
<1>t. /\ TablesType /\ SyncType /\ SyncSound
  BY DEF DirectoryInv
<1>w. ASSUME NEW status \in {"running", "complete"},
             NEW cursor \in Customers \cup {0}, NEW started \in Started,
             NEW owed \in SUBSET active, NEW whole \in BOOLEAN,
             whole => owed = {}, UNCHANGED active,
             Written(UpdateSyncState(status, cursor, started, owed, whole))
      PROVE  SyncType' /\ SyncSound' /\ events' \in Nat
  <2>1. events' \in Nat BY <1>t, <1>w DEF Written, Happens, TablesType
  <2>2. CASE NoWrite BY <1>t, <1>w, <2>1, <2>2 DEF NoWrite, SyncType, SyncSound, CanResume
  <2>3. CASE UpdateSyncState(status, cursor, started, owed, whole)
    BY <1>t, <1>w, <2>1, <2>3
       DEF UpdateSyncState, TablesType, SyncType, SyncSound, CanResume, SyncState
  <2> QED BY <1>w, <2>1, <2>2, <2>3 DEF Written
<1>1. CASE LoadBegin(l)
  <2> DEFINE r == [Idle EXCEPT !.at = "fetch", !.owed = active]
  <2>1. /\ Goes(l, r) /\ UNCHANGED <<active, listed>>
        /\ Written(UpdateSyncState("running", 0, "recent", {}, TRUE))
    BY <1>1 DEF LoadBegin
  <2>2. r \in Thread /\ Sound(r) BY FreshLoop DEF Phases
  <2> HIDE DEF r
  <2>3. SyncType' /\ SyncSound' /\ events' \in Nat BY <1>w, <2>1 DEF Started
  <2>4. StepInto(l, r)
    BY <1>t, <2>1, <2>2, <2>3 DEF StepInto, TablesType
  <2> QED BY <1>a, <2>4, StepIntoKeeps
<1>2. CASE LoadProgress(l)
  <2>1. /\ Goes(l, AfterProgress(l)) /\ UNCHANGED <<active, listed>> /\ At(l, "progress")
        /\ Written(UpdateSyncState("running", th[l].cursor, "none", active, FALSE))
    BY <1>2 DEF LoadProgress
  <2>2. AfterProgress(l) \in Thread /\ Sound(AfterProgress(l))
    BY <1>a, <2>1, AfterProgressIsSound
  <2>3. th[l].cursor \in Customers \cup {0}
    BY <1>a DEF DirectoryInv, LoopsType, Thread
  <2>4. SyncType' /\ SyncSound' /\ events' \in Nat BY <1>w, <2>1, <2>3 DEF Started
  <2>5. StepInto(l, AfterProgress(l))
    BY <1>t, <2>1, <2>2, <2>4 DEF StepInto, TablesType
  <2> QED BY <1>a, <2>5, StepIntoKeeps
<1>3. CASE LoadEnd(l)
  <2>1. /\ Goes(l, Idle) /\ UNCHANGED <<active, listed>>
        /\ Written(UpdateSyncState("complete", 0, "none", {}, TRUE))
    BY <1>3 DEF LoadEnd
  <2>2. SyncType' /\ SyncSound' /\ events' \in Nat BY <1>w, <2>1 DEF Started
  <2>3. StepInto(l, Idle)
    BY <1>t, <2>1, <2>2, IdleIsThread, IdleIsSound DEF StepInto, TablesType
  <2> QED BY <1>a, <2>3, StepIntoKeeps
<1> QED BY <1>1, <1>2, <1>3

(* Who lapses is owed nothing; who joins is owed nothing yet.               *)
LEMMA ChangeKeeps ==
  ASSUME DirectoryInv, NEW c \in Customers, Change(c) PROVE DirectoryInv'
<1>t. /\ TablesType /\ SyncType /\ SyncSound
  BY DEF DirectoryInv
<1>1. /\ active' \in SUBSET Customers /\ active \ {c} \subseteq active'
      /\ listed' = listed /\ events' \in Nat
  BY <1>t DEF Change, Happens, TablesType
<1>2. SyncType' /\ SyncSound'
  BY <1>t, <1>1 DEF Change, SyncType, SyncSound, CanResume
<1>3. ASSUME NEW t \in Threads
      PROVE  th'[t] \in Thread /\ Sound(th[t])'
  <2>1. th[t] \in Thread /\ Sound(th[t]) BY DEF DirectoryInv, LoopsType
  <2>2. th'[t] = [th[t] EXCEPT !.owed = th[t].owed \ {c}] BY DEF Change
  <2>3. th'[t] \in Thread BY <2>1, <2>2 DEF Thread
  <2>4. /\ th'[t].owed = th[t].owed \ {c} /\ th'[t].whole = th[t].whole
        /\ th'[t].at = th[t].at /\ th'[t].cursor = th[t].cursor
        /\ th'[t].page = th[t].page /\ th'[t].more = th[t].more
    BY <2>1, <2>2 DEF Thread
  <2> QED BY <1>1, <2>1, <2>3, <2>4 DEF Sound, Ahead
<1>4. LoopsType' BY <1>3 DEF LoopsType, Change
<1> QED BY <1>t, <1>1, <1>2, <1>3, <1>4 DEF DirectoryInv, TablesType

LEMMA WindowKeeps ==
  ASSUME DirectoryInv, WindowPasses PROVE DirectoryInv'
<1>t. /\ TablesType /\ SyncType /\ SyncSound
  BY DEF DirectoryInv
<1>a. \A s \in Started : Aged(s) \in Started BY DEF Aged, Started
<1>1. TablesType' BY <1>t DEF WindowPasses, TablesType
<1>2. SyncType' /\ SyncSound'
  BY <1>t, <1>a DEF WindowPasses, SyncType, SyncSound, CanResume, SyncState
<1>3. ASSUME NEW t \in Threads
      PROVE  th'[t] \in Thread /\ Sound(th[t])'
  <2>1. th[t] \in Thread /\ Sound(th[t]) BY DEF DirectoryInv, LoopsType
  <2>2. th'[t] = [th[t] EXCEPT !.started = Aged(th[t].started)] BY DEF WindowPasses
  <2>3. Aged(th[t].started) \in Started BY <1>a, <2>1 DEF Thread
  <2>4. th'[t] \in Thread BY <2>1, <2>2, <2>3 DEF Thread
  <2>5. /\ th'[t].owed = th[t].owed /\ th'[t].whole = th[t].whole
        /\ th'[t].at = th[t].at /\ th'[t].cursor = th[t].cursor
        /\ th'[t].page = th[t].page /\ th'[t].more = th[t].more
    BY <2>1, <2>2 DEF Thread
  <2> QED BY <2>1, <2>4, <2>5 DEF WindowPasses, Sound, Ahead
<1>4. LoopsType' BY <1>3 DEF LoopsType, WindowPasses
<1> QED BY <1>1, <1>2, <1>3, <1>4 DEF DirectoryInv

LEMMA CrashKeeps ==
  ASSUME DirectoryInv, Crash PROVE DirectoryInv'
<1>1. TablesType' BY DEF Crash, Happens, DirectoryInv, TablesType
<1>2. SyncType' /\ SyncSound'
  BY DEF Crash, NoWrite, DirectoryInv, SyncType, SyncSound, CanResume
<1>3. LoopsType' BY IdleIsThread DEF Crash, LoopsType
<1>4. ASSUME NEW t \in Threads PROVE Sound(th[t])'
  <2>1. th'[t] = Idle BY DEF Crash
  <2> QED BY <2>1 DEF Idle, Sound
<1> QED BY <1>1, <1>2, <1>3, <1>4 DEF DirectoryInv

LEMMA NextInv == DirectoryInv /\ [Next]_vars => DirectoryInv'
<1> SUFFICES ASSUME DirectoryInv, [Next]_vars PROVE DirectoryInv' OBVIOUS
<1>1. CASE UNCHANGED vars
  BY <1>1 DEF vars, DirectoryInv, TablesType, SyncType, SyncSound, CanResume, LoopsType,
              Sound, Ahead
<1>2. ASSUME NEW c \in Customers, Change(c) PROVE DirectoryInv'
  BY <1>2, ChangeKeeps
<1>3. CASE WindowPasses BY <1>3, WindowKeeps
<1>4. CASE Crash BY <1>4, CrashKeeps
<1>5. ASSUME NEW t \in Threads, LoopStep(t) PROVE DirectoryInv'
  BY <1>5, FetchKeeps, CopyKeeps, FailsKeeps, RequestKeeps, WalkKeeps, LoadKeeps
     DEF LoopStep
<1> QED BY <1>1, <1>2, <1>3, <1>4, <1>5, Steps

THEOREM InvHolds == Spec => []DirectoryInv
<1> QED BY InitInv, NextInv, PTL DEF Spec

(* The tables, the row of sync_state and the loops keep their types.        *)
THEOREM TypeCorrect == Spec => []TypeOK
<1> QED BY InvHolds, InvIsTyped, PTL

(* However many loops share sync_state, however they are cut off, taken up  *)
(* or disturbed, and whoever joins or lapses: a load, and a walk whose      *)
(* cursor goes back to a walk, leaves out nobody who was active throughout  *)
(* when it declares itself complete.                                        *)
THEOREM CompleteWhole == Spec => []CompleteIsWhole
<1> QED BY InvHolds, InvIsWhole, PTL
===============================================================================

---------------------------- MODULE Binding_proofs ----------------------------
(***************************************************************************)
(* Binding: type correctness (with the uniqueness of bindings),            *)
(* AtMostOneTable, BindingsAreKept and GraceIsAnchored, for any number of  *)
(* users, customers, staff requests, failures and crashes.                 *)
(***************************************************************************)
EXTENDS Binding, TLAPS

LEMMA Threads == "sync" \in Writers /\ "mirror" \in Writers /\ Requests \subseteq Writers
                 /\ \A w \in Requests : w # "sync" /\ w # "mirror"
BY WriterAssumption DEF WriterAssumption, Writers

LEMMA JobTypes ==
  /\ Idle \in Jobs /\ Idle.pc = "idle"
  /\ \A pc \in Steps, u \in Users \cup {None}, c \in Customers \cup {None}, g \in Nat :
       /\ Job(pc, u, c, g) \in Jobs
       /\ Job(pc, u, c, g).pc = pc /\ Job(pc, u, c, g).user = u
       /\ Job(pc, u, c, g).cust = c /\ Job(pc, u, c, g).grace = g
  /\ \A j \in Jobs : j.pc \in Steps /\ j.user \in Users \cup {None}
                     /\ j.cust \in Customers \cup {None} /\ j.grace \in Nat
  /\ \A u \in Users : u # None
BY NoneAssumption DEF NoneAssumption, Jobs, Steps, Idle, Job

\* What every statement of a writer leaves alone.
LEMMA WriteEffect ==
  ASSUME TypeOK, KindInv, NEW w \in Writers, Write(w)
  PROVE  /\ job[w].pc \notin {"idle", "lookup"}
         /\ job' \in [Writers -> Jobs]
         /\ \A x \in Writers \ {w} : job'[x] = job[x]
         /\ \/ job'[w] = Idle
            \/ /\ job'[w].user = job[w].user /\ job[w].user \in Users
               /\ \/ job[w].pc \in {"bind", "skip"} /\ job'[w].pc = "unpend"
                  \/ job[w].pc = "queue" /\ job'[w].pc = "unmap"
                  \/ job[w].pc = "unbind" /\ job'[w].pc = "requeue"
         /\ \A u \in Users : ~InHand(w, u) =>
              mapping'[u] = mapping[u] /\ pending'[u] = pending[u] /\ status'[u] = status[u]
         /\ UNCHANGED <<answer, todo, found, clock>>
         /\ entangled \subseteq entangled'
<1>1. job \in [Writers -> Jobs] /\ job[w] \in Jobs
  BY DEF TypeOK
<1>2. mapping \in [Users -> Customers \cup {None}] /\ pending \in [Users -> Nat]
      /\ status \in [Users -> {"ACTIVE", "DEACTIVATED", "absent"}]
  BY DEF TypeOK
<1>3. job[w].pc \notin {"idle", "create"} => job[w].user \in Users
  BY DEF KindInv
<1>4. ASSUME Finish(w)
      PROVE  /\ job' \in [Writers -> Jobs] /\ job'[w] = Idle
             /\ \A x \in Writers \ {w} : job'[x] = job[x]
  BY <1>1, <1>4, JobTypes DEF Finish
<1>5. ASSUME NEW pc \in {"unpend", "unmap", "requeue"}, Goto(w, pc)
      PROVE  /\ job' \in [Writers -> Jobs] /\ job'[w].pc = pc /\ job'[w].user = job[w].user
             /\ \A x \in Writers \ {w} : job'[x] = job[x]
  <2>1. Job(pc, job[w].user, None, 0) \in Jobs
    BY <1>1, JobTypes DEF Steps
  <2>2. job' = [job EXCEPT ![w] = Job(pc, job[w].user, None, 0)]
    BY <1>5 DEF Goto
  <2>3. QED
    BY <1>1, <2>1, <2>2 DEF Job
<1> USE DEF hubVars, tableVars, InHand
<1>6. CASE Bind(w) BY <1>1, <1>2, <1>3, <1>5, <1>6 DEF Bind
<1>7. CASE BindNew(w) BY <1>1, <1>2, <1>3, <1>4, <1>7 DEF BindNew
<1>8. CASE Unpend(w) BY <1>1, <1>2, <1>3, <1>4, <1>8 DEF Unpend
<1>9. CASE Queue(w) BY <1>1, <1>2, <1>3, <1>5, <1>9 DEF UpsertPending, Queue
<1>10. CASE Unmap(w) BY <1>1, <1>2, <1>3, <1>4, <1>10 DEF Unmap
<1>11. CASE Skip(w) BY <1>1, <1>2, <1>3, <1>5, <1>11 DEF Skip
<1>12. CASE Defer(w) BY <1>1, <1>2, <1>3, <1>4, <1>12 DEF UpsertPending, Defer
<1>13. CASE Unbind(w) BY <1>1, <1>2, <1>3, <1>5, <1>13 DEF Unbind
<1>14. CASE Requeue(w) BY <1>1, <1>2, <1>3, <1>4, <1>14 DEF UpsertPending, Requeue
<1>15. CASE Rejected(w) BY <1>4, <1>15 DEF Rejected
<1>16. CASE WriteFails(w) BY <1>4, <1>16 DEF WriteFails
<1>17. QED
  BY <1>6, <1>7, <1>8, <1>9, <1>10, <1>11, <1>12, <1>13, <1>14, <1>15, <1>16 DEF Write
-----------------------------------------------------------------------------
LEMMA Unique ==
  ASSUME TypeOK, NEW u \in Users, NEW c \in Customers \cup {None}, c = None \/ Free(c, u),
         mapping' = [mapping EXCEPT ![u] = c]
  PROVE  /\ mapping' \in [Users -> Customers \cup {None}]
         /\ \A x, y \in Users : x # y /\ mapping'[x] # None => mapping'[x] # mapping'[y]
<1>1. mapping \in [Users -> Customers \cup {None}]
      /\ \A x, y \in Users : x # y /\ mapping[x] # None => mapping[x] # mapping[y]
  BY DEF TypeOK
<1>2. /\ mapping' \in [Users -> Customers \cup {None}] /\ mapping'[u] = c
      /\ \A x \in Users \ {u} : mapping'[x] = mapping[x]
  BY <1>1
<1>3. ASSUME NEW x \in Users, NEW y \in Users, x # y, mapping'[x] # None
      PROVE  mapping'[x] # mapping'[y]
  <2>1. CASE x = u BY <1>1, <1>2, <1>3, <2>1 DEF Free
  <2>2. CASE y = u BY <1>1, <1>2, <1>3, <2>2 DEF Free
  <2>3. CASE x # u /\ y # u BY <1>1, <1>2, <1>3, <2>3
  <2>4. QED BY <2>1, <2>2, <2>3
<1>4. QED
  BY <1>2, <1>3

LEMMA WriteTypes ==
  ASSUME TypeOK, KindInv, NEW w \in Writers, Write(w)
  PROVE  TypeOK'
<1>1. job[w] \in Jobs /\ job' \in [Writers -> Jobs] /\ UNCHANGED <<answer, todo, found, clock>>
  BY WriteEffect DEF TypeOK
<1>2. /\ mapping \in [Users -> Customers \cup {None}] /\ pending \in [Users -> Nat]
      /\ status \in [Users -> {"ACTIVE", "DEACTIVATED", "absent"}]
      /\ clock \in Nat /\ mishaps \in Nat /\ entangled \subseteq Users
      /\ \A x, y \in Users : x # y /\ mapping[x] # None => mapping[x] # mapping[y]
  BY DEF TypeOK
<1>3. job[w].pc \notin {"idle", "create"} => job[w].user \in Users
  BY DEF KindInv
<1>4. /\ job[w].cust \in Customers \cup {None} /\ job[w].grace \in Nat
      /\ clock + Snooze \in Nat
  BY <1>1, <1>2, JobTypes, ClockAssumption DEF ClockAssumption
<1>5. SUFFICES /\ status' \in [Users -> {"ACTIVE", "DEACTIVATED", "absent"}]
               /\ mapping' \in [Users -> Customers \cup {None}]
               /\ \A x, y \in Users : x # y /\ mapping'[x] # None => mapping'[x] # mapping'[y]
               /\ pending' \in [Users -> Nat]
               /\ mishaps' \in Nat /\ entangled' \subseteq Users
  BY <1>1 DEF TypeOK
<1> USE DEF hubVars, tableVars
<1>6. CASE Bind(w)
  <2>1. mapping' = [mapping EXCEPT ![job[w].user] = job[w].cust] /\ Free(job[w].cust, job[w].user)
        /\ job[w].user \in Users
    BY <1>3, <1>6 DEF Bind
  <2>2. QED BY <1>2, <1>4, <1>6, <2>1, Unique DEF Bind
<1>7. CASE BindNew(w)
  <2>1. mapping' = [mapping EXCEPT ![job[w].user] = job[w].cust] /\ Free(job[w].cust, job[w].user)
        /\ job[w].user \in Users
    BY <1>3, <1>7 DEF BindNew
  <2>2. QED BY <1>2, <1>4, <1>7, <2>1, Unique DEF BindNew
<1>8. CASE Unpend(w) BY <1>2, <1>8 DEF Unpend
<1>9. CASE Queue(w) BY <1>2, <1>4, <1>9 DEF UpsertPending, Queue
<1>10. CASE Unmap(w)
  <2>1. mapping' = [mapping EXCEPT ![job[w].user] = None] /\ job[w].user \in Users
    BY <1>3, <1>10 DEF Unmap
  <2>2. QED BY <1>2, <1>10, <2>1, Unique DEF Unmap
<1>11. CASE Skip(w) BY <1>2, <1>11 DEF Skip
<1>12. CASE Defer(w) BY <1>2, <1>4, <1>12 DEF UpsertPending, Defer
<1>13. CASE Unbind(w)
  <2>1. mapping' = [mapping EXCEPT ![job[w].user] = None] /\ job[w].user \in Users
    BY <1>3, <1>13 DEF Unbind
  <2>2. QED BY <1>2, <1>13, <2>1, Unique DEF Unbind
<1>14. CASE Requeue(w) BY <1>2, <1>4, <1>14 DEF UpsertPending, Requeue
<1>15. CASE Rejected(w) BY <1>2, <1>15 DEF Rejected
<1>16. CASE WriteFails(w)
  <2>1. job[w].pc \in {"unpend", "unmap"} => job[w].user \in Users
    BY <1>3
  <2>2. QED BY <1>2, <1>16, <2>1 DEF WriteFails, Mishap
<1>17. QED
  BY <1>6, <1>7, <1>8, <1>9, <1>10, <1>11, <1>12, <1>13, <1>14, <1>15, <1>16 DEF Write
-----------------------------------------------------------------------------
LEMMA GraceType == TypeOK => \A u \in Users : GraceUntil(u) \in Nat
<1> SUFFICES ASSUME TypeOK, NEW u \in Users PROVE GraceUntil(u) \in Nat
  OBVIOUS
<1>1. pending[u] \in Nat /\ clock \in Nat /\ Grace \in Nat
  BY ClockAssumption DEF TypeOK, ClockAssumption
<1>2. QED
  BY <1>1 DEF GraceUntil

\* A writer turns to its next statement.
LEMMA JobStep ==
  ASSUME TypeOK, NEW w \in Writers, NEW j \in Jobs, job' = [job EXCEPT ![w] = j]
  PROVE  /\ job' \in [Writers -> Jobs] /\ job'[w] = j
         /\ \A x \in Writers \ {w} : job'[x] = job[x]
BY DEF TypeOK

LEMMA TakeEffect ==
  ASSUME TypeOK, NEW w \in Requests, NEW pc \in {"bind", "skip", "defer", "unbind"},
         NEW u \in Users, NEW c \in Customers \cup {None}, Take(w, pc, u, c)
  PROVE  /\ job[w] = Idle /\ job' \in [Writers -> Jobs]
         /\ \A x \in Writers \ {w} : job'[x] = job[x]
         /\ job'[w].pc = pc /\ job'[w].user = u
         /\ entangled' = entangled \cup {v \in {u} : Held(v)}
         /\ UNCHANGED <<hubVars, tableVars, todo, found, clock, mishaps>>
<1>1. w \in Writers /\ pc \in Steps
  BY Threads DEF Steps
<1>2. Job(pc, u, c, 0) \in Jobs /\ Job(pc, u, c, 0).pc = pc /\ Job(pc, u, c, 0).user = u
  BY <1>1, JobTypes
<1>3. job' = [job EXCEPT ![w] = Job(pc, u, c, 0)]
  BY DEF Take
<1>4. job' \in [Writers -> Jobs] /\ job'[w] = Job(pc, u, c, 0)
      /\ \A x \in Writers \ {w} : job'[x] = job[x]
  BY <1>1, <1>2, <1>3, JobStep
<1>5. QED
  BY <1>2, <1>4 DEF Take, TakeInHand

LEMMA CreateEffect ==
  ASSUME TypeOK, NEW w \in Requests, NEW u \in Users, CreateUser(w, u)
  PROVE  /\ job[w].pc = "create" /\ status[u] = "absent" /\ job' \in [Writers -> Jobs]
         /\ \A x \in Writers \ {w} : job'[x] = job[x]
         /\ job'[w].pc = "bindNew" /\ job'[w].user = u
         /\ status' = [status EXCEPT ![u] = "ACTIVE"]
         /\ UNCHANGED <<answer, tableVars, todo, found, clock, mishaps, entangled>>
<1>1. w \in Writers /\ job \in [Writers -> Jobs]
  BY Threads DEF TypeOK
<1>2. job[w] \in [pc : Steps, user : Users \cup {None}, cust : Customers \cup {None}, grace : Nat]
  BY <1>1 DEF Jobs
<1>3. job' = [job EXCEPT ![w] = [job[w] EXCEPT !.pc = "bindNew", !.user = u]]
  BY <1>1, <1>2 DEF CreateUser
<1>4. [job[w] EXCEPT !.pc = "bindNew", !.user = u] \in Jobs
  BY <1>2 DEF Jobs, Steps
<1>5. /\ [job[w] EXCEPT !.pc = "bindNew", !.user = u].pc = "bindNew"
      /\ [job[w] EXCEPT !.pc = "bindNew", !.user = u].user = u
  BY <1>2
<1>6. QED
  BY <1>1, <1>3, <1>4, <1>5 DEF CreateUser

LEMMA CreateRequestEffect ==
  ASSUME TypeOK, NEW w \in Requests, NEW c \in Customers, CreateRequest(w, c)
  PROVE  /\ job[w] = Idle /\ job' \in [Writers -> Jobs]
         /\ \A x \in Writers \ {w} : job'[x] = job[x]
         /\ job'[w].pc = "create" /\ job'[w].user = None
         /\ UNCHANGED <<hubVars, tableVars, todo, found, clock, mishaps, entangled>>
<1>1. w \in Writers /\ "create" \in Steps
  BY Threads DEF Steps
<1>2. /\ Job("create", None, c, 0) \in Jobs
      /\ Job("create", None, c, 0).pc = "create" /\ Job("create", None, c, 0).user = None
  BY <1>1, JobTypes
<1>3. job' = [job EXCEPT ![w] = Job("create", None, c, 0)]
  BY DEF CreateRequest
<1>4. job' \in [Writers -> Jobs] /\ job'[w] = Job("create", None, c, 0)
      /\ \A x \in Writers \ {w} : job'[x] = job[x]
  BY <1>1, <1>2, <1>3, JobStep
<1>5. QED
  BY <1>2, <1>4 DEF CreateRequest

\* What the sync does between its statements.
LEMMA SyncEffect ==
  ASSUME TypeOK, KindInv, SyncMatched \/ SyncUnmatched \/ SyncError
  PROVE  /\ job["sync"].pc = "lookup" /\ job["sync"].user \in Users
         /\ job' \in [Writers -> Jobs]
         /\ \A x \in Writers \ {"sync"} : job'[x] = job[x]
         /\ \/ job'["sync"] = Idle
            \/ /\ job'["sync"].pc \in {"bind", "queue"}
               /\ job'["sync"].user = job["sync"].user
         /\ UNCHANGED <<hubVars, tableVars, todo, found, clock, entangled>>
         /\ mishaps' \in Nat
<1>1. "sync" \in Writers /\ job \in [Writers -> Jobs] /\ mishaps \in Nat
      /\ {"bind", "queue"} \subseteq Steps
  BY Threads DEF TypeOK, Steps
<1>2. job["sync"].pc = "lookup"
  BY DEF SyncMatched, SyncUnmatched, SyncError
<1>3. job["sync"].user \in Users
  BY <1>1, <1>2 DEF KindInv
<1>4. CASE SyncMatched
  <2>1. answer[job["sync"].user] \in Customers \cup {None}
    BY <1>3 DEF TypeOK
  <2> DEFINE j == Job("bind", job["sync"].user, answer[job["sync"].user], 0)
  <2>2. j \in Jobs /\ j.pc = "bind" /\ j.user = job["sync"].user
    <3>1. "bind" \in Steps /\ job["sync"].user \in Users \cup {None} /\ 0 \in Nat
      BY <1>1, <1>3
    <3>2. QED
      BY <2>1, <3>1 DEF Jobs, Job
  <2>3. job' = [job EXCEPT !["sync"] = j]
    BY <1>4 DEF SyncMatched
  <2>4. job' \in [Writers -> Jobs] /\ job'["sync"] = j
        /\ \A x \in Writers \ {"sync"} : job'[x] = job[x]
    BY <1>1, <2>2, <2>3, JobStep
  <2> HIDE DEF j
  <2>5. QED
    BY <1>1, <1>2, <1>3, <1>4, <2>2, <2>4 DEF SyncMatched
<1>5. CASE SyncUnmatched
  <2>1. GraceUntil(job["sync"].user) \in Nat
    BY <1>3, GraceType
  <2> DEFINE j == Job("queue", job["sync"].user, None, GraceUntil(job["sync"].user))
  <2>2. j \in Jobs /\ j.pc = "queue" /\ j.user = job["sync"].user
    <3>1. "queue" \in Steps /\ job["sync"].user \in Users \cup {None} /\ None \in Customers \cup {None}
      BY <1>1, <1>3
    <3>2. QED
      BY <2>1, <3>1 DEF Jobs, Job
  <2>3. job' = [job EXCEPT !["sync"] = j]
    BY <1>5 DEF SyncUnmatched
  <2>4. job' \in [Writers -> Jobs] /\ job'["sync"] = j
        /\ \A x \in Writers \ {"sync"} : job'[x] = job[x]
    BY <1>1, <2>2, <2>3, JobStep
  <2> HIDE DEF j
  <2>5. QED
    BY <1>1, <1>2, <1>3, <1>5, <2>2, <2>4 DEF SyncUnmatched
<1>6. CASE SyncError
  BY <1>1, <1>2, <1>3, <1>6, JobTypes DEF SyncError, Finish, Mishap
<1>7. QED
  BY <1>4, <1>5, <1>6

LEMMA SyncLookEffect ==
  ASSUME TypeOK, NEW u \in Users, SyncLook(u)
  PROVE  /\ u \in todo /\ job["sync"] = Idle /\ job' \in [Writers -> Jobs]
         /\ \A x \in Writers \ {"sync"} : job'[x] = job[x]
         /\ \/ UNCHANGED <<job, entangled>>
            \/ /\ job'["sync"].pc = "lookup" /\ job'["sync"].user = u /\ mapping[u] = None
               /\ entangled' = entangled \cup {v \in {u} : Held(v)}
         /\ todo' = todo \ {u}
         /\ UNCHANGED <<hubVars, tableVars, found, clock, mishaps>>
<1>1. "sync" \in Writers /\ "lookup" \in Steps /\ job \in [Writers -> Jobs]
  BY Threads DEF TypeOK, Steps
<1>2. CASE SyncPassesOver(u)
  BY <1>1, <1>2 DEF SyncLook
<1>3. CASE ~SyncPassesOver(u)
  <2>1. /\ Job("lookup", u, None, 0) \in Jobs
        /\ Job("lookup", u, None, 0).pc = "lookup" /\ Job("lookup", u, None, 0).user = u
    <3>1. u \in Users \cup {None} /\ None \in Customers \cup {None} /\ 0 \in Nat
      OBVIOUS
    <3>2. QED
      BY <1>1, <3>1 DEF Jobs, Job
  <2>2. job' = [job EXCEPT !["sync"] = Job("lookup", u, None, 0)]
    BY <1>3 DEF SyncLook
  <2>3. job' \in [Writers -> Jobs] /\ job'["sync"] = Job("lookup", u, None, 0)
        /\ \A x \in Writers \ {"sync"} : job'[x] = job[x]
    BY <1>1, <2>1, <2>2, JobStep
  <2>4. QED
    BY <1>3, <2>1, <2>3 DEF SyncLook, SyncPassesOver, TakeInHand
<1>4. QED
  BY <1>2, <1>3

LEMMA RefreshNextEffect ==
  ASSUME TypeOK, NEW r \in found, RefreshNext(r)
  PROVE  /\ r.user \in Users /\ job["mirror"] = Idle /\ job' \in [Writers -> Jobs]
         /\ \A x \in Writers \ {"mirror"} : job'[x] = job[x]
         /\ job'["mirror"].pc = "bind" /\ job'["mirror"].user = r.user
         /\ found' = found \ {r}
         /\ UNCHANGED <<hubVars, tableVars, todo, clock, mishaps, entangled>>
<1>1. "mirror" \in Writers /\ "bind" \in Steps /\ r.user \in Users /\ r.cust \in Customers
  BY Threads DEF TypeOK, Steps
<1>2. /\ Job("bind", r.user, r.cust, 0) \in Jobs
      /\ Job("bind", r.user, r.cust, 0).pc = "bind" /\ Job("bind", r.user, r.cust, 0).user = r.user
  BY <1>1, JobTypes
<1>3. job' = [job EXCEPT !["mirror"] = Job("bind", r.user, r.cust, 0)]
  BY DEF RefreshNext
<1>4. job' \in [Writers -> Jobs] /\ job'["mirror"] = Job("bind", r.user, r.cust, 0)
      /\ \A x \in Writers \ {"mirror"} : job'[x] = job[x]
  BY <1>1, <1>2, <1>3, JobStep
<1>5. QED
  BY <1>1, <1>2, <1>4 DEF RefreshNext
-----------------------------------------------------------------------------
LEMMA KindStep ==
  ASSUME TypeOK, KindInv, [Next]_vars
  PROVE  KindInv'
<1> USE Threads DEF KindInv
<1>1. ASSUME UNCHANGED job PROVE KindInv'
  BY <1>1
<1>2. ASSUME NEW w \in Writers, Write(w) PROVE KindInv'
  <2>1. /\ \A x \in Writers \ {w} : job'[x] = job[x]
        /\ \/ job'[w] = Idle
           \/ /\ job'[w].user = job[w].user /\ job[w].user \in Users
              /\ \/ job[w].pc \in {"bind", "skip"} /\ job'[w].pc = "unpend"
                 \/ job[w].pc = "queue" /\ job'[w].pc = "unmap"
                 \/ job[w].pc = "unbind" /\ job'[w].pc = "requeue"
    BY <1>2, WriteEffect
  <2>2. CASE job'[w] = Idle
    BY <2>1, <2>2, JobTypes
  <2>3. CASE job'[w] # Idle
    BY <2>1, <2>3
  <2>4. QED
    BY <2>2, <2>3
<1>3. CASE Environment
  BY <1>1, <1>3 DEF Environment, Tick, HubStatus, Edit
<1>4. CASE Sync
  <2>1. CASE SyncStart BY <1>1, <2>1 DEF SyncStart
  <2>2. CASE SyncMatched \/ SyncUnmatched \/ SyncError
    <3>1. /\ \A x \in Writers \ {"sync"} : job'[x] = job[x]
          /\ job["sync"].user \in Users
          /\ \/ job'["sync"] = Idle
             \/ /\ job'["sync"].pc \in {"bind", "queue"}
                /\ job'["sync"].user = job["sync"].user
      BY <2>2, SyncEffect
    <3>2. QED
      BY <3>1, JobTypes
  <2>3. ASSUME NEW u \in Users, SyncLook(u) PROVE KindInv'
    <3>1. /\ \A x \in Writers \ {"sync"} : job'[x] = job[x]
          /\ UNCHANGED job \/ (job'["sync"].pc = "lookup" /\ job'["sync"].user = u)
      BY <2>3, SyncLookEffect
    <3>2. QED
      BY <1>1, <3>1
  <2>4. QED
    BY <1>4, <2>1, <2>2, <2>3 DEF Sync
<1>5. CASE Mirror
  <2>1. CASE RefreshStart BY <1>1, <2>1 DEF RefreshStart
  <2>2. ASSUME NEW r \in found, RefreshNext(r) PROVE KindInv'
    BY <2>2, RefreshNextEffect
  <2>3. QED
    BY <1>5, <2>1, <2>2 DEF Mirror
<1>6. ASSUME NEW w \in Requests, Request(w) PROVE KindInv'
  <2>1. ASSUME NEW pc \in {"bind", "skip", "defer", "unbind"}, NEW u \in Users,
               NEW c \in Customers \cup {None}, Take(w, pc, u, c)
        PROVE  KindInv'
    BY <2>1, TakeEffect
  <2>2. ASSUME NEW u \in Users, CreateUser(w, u) PROVE KindInv'
    BY <2>2, CreateEffect
  <2>3. ASSUME NEW c \in Customers, CreateRequest(w, c) PROVE KindInv'
    BY <2>3, CreateRequestEffect
  <2>4. QED
    BY <1>6, <2>1, <2>2, <2>3
    DEF Request, MatchRequest, SkipRequest, DeferRequest, UnbindRequest
<1>7. CASE Crash
  <2>1. \A w \in Writers : job'[w] = Idle
    BY <1>7 DEF Crash
  <2>2. QED
    BY <2>1, JobTypes
<1>8. CASE UNCHANGED vars
  BY <1>1, <1>8 DEF vars
<1>9. QED
  BY <1>2, <1>3, <1>4, <1>5, <1>6, <1>7, <1>8 DEF Next

LEMMA TypeStep ==
  ASSUME TypeOK, KindInv, [Next]_vars
  PROVE  TypeOK'
<1>1. ASSUME UNCHANGED <<tableVars, status, answer>>, job' \in [Writers -> Jobs],
             todo' \subseteq Users, found' \subseteq [user : Users, cust : Customers],
             clock' \in Nat, mishaps' \in Nat, entangled' \subseteq Users
      PROVE  TypeOK'
  BY <1>1 DEF TypeOK, tableVars
<1>2. /\ job \in [Writers -> Jobs] /\ todo \subseteq Users /\ clock \in Nat /\ mishaps \in Nat
      /\ found \subseteq [user : Users, cust : Customers] /\ entangled \subseteq Users
      /\ status \in [Users -> {"ACTIVE", "DEACTIVATED", "absent"}]
      /\ answer \in [Users -> Customers \cup {None}]
  BY DEF TypeOK
<1> USE DEF hubVars, tableVars
<1>3. CASE Environment
  <2>1. CASE Tick BY <1>1, <1>2, <2>1 DEF Tick
  <2>2. ASSUME NEW u \in Users, HubStatus(u) PROVE TypeOK'
    BY <2>2 DEF HubStatus, Mishap, TypeOK
  <2>3. ASSUME NEW u \in Users, NEW c \in Customers \cup {None}, Edit(u, c) PROVE TypeOK'
    BY <2>3 DEF Edit, Mishap, TypeOK
  <2>4. QED
    BY <1>3, <2>1, <2>2, <2>3 DEF Environment
<1>4. CASE Sync
  <2>1. CASE SyncStart BY <1>1, <1>2, <2>1 DEF SyncStart
  <2>2. CASE SyncMatched \/ SyncUnmatched \/ SyncError
    <3>1. /\ job' \in [Writers -> Jobs] /\ mishaps' \in Nat
          /\ UNCHANGED <<hubVars, tableVars, todo, found, clock, entangled>>
      BY <2>2, SyncEffect
    <3>2. QED
      BY <1>1, <1>2, <3>1
  <2>3. ASSUME NEW u \in Users, SyncLook(u) PROVE TypeOK'
    <3>1. /\ job' \in [Writers -> Jobs] /\ todo' = todo \ {u}
          /\ entangled' = entangled \/ entangled' = entangled \cup {v \in {u} : Held(v)}
          /\ UNCHANGED <<hubVars, tableVars, found, clock, mishaps>>
      BY <2>3, SyncLookEffect
    <3>2. QED
      BY <1>1, <1>2, <3>1
  <2>4. QED
    BY <1>4, <2>1, <2>2, <2>3 DEF Sync
<1>5. CASE Mirror
  <2>1. CASE RefreshStart
    <3>1. PICK us \in SUBSET Resolvable :
             /\ found' = {[user |-> u, cust |-> answer[u]] : u \in us}
             /\ TakeInHand(us)
      BY <2>1 DEF RefreshStart
    <3>2. \A u \in us : u \in Users /\ answer[u] \in Customers
      BY <1>2, <3>1 DEF Resolvable
    <3>3. found' \subseteq [user : Users, cust : Customers] /\ entangled' \subseteq Users
      BY <1>2, <3>1, <3>2 DEF TakeInHand
    <3>4. QED
      BY <1>1, <1>2, <2>1, <3>3 DEF RefreshStart
  <2>2. ASSUME NEW r \in found, RefreshNext(r) PROVE TypeOK'
    <3>1. /\ job' \in [Writers -> Jobs] /\ found' = found \ {r}
          /\ UNCHANGED <<hubVars, tableVars, todo, clock, mishaps, entangled>>
      BY <2>2, RefreshNextEffect
    <3>2. QED
      BY <1>1, <1>2, <3>1
  <2>3. QED
    BY <1>5, <2>1, <2>2 DEF Mirror
<1>6. ASSUME NEW w \in Requests, Request(w) PROVE TypeOK'
  <2>1. ASSUME NEW pc \in {"bind", "skip", "defer", "unbind"}, NEW u \in Users,
               NEW c \in Customers \cup {None}, Take(w, pc, u, c)
        PROVE  TypeOK'
    <3>1. /\ job' \in [Writers -> Jobs]
          /\ entangled' = entangled \cup {v \in {u} : Held(v)}
          /\ UNCHANGED <<hubVars, tableVars, todo, found, clock, mishaps>>
      BY <2>1, TakeEffect
    <3>2. QED
      BY <1>1, <1>2, <3>1
  <2>2. ASSUME NEW u \in Users, CreateUser(w, u) PROVE TypeOK'
    <3>1. /\ job' \in [Writers -> Jobs] /\ status' = [status EXCEPT ![u] = "ACTIVE"]
          /\ UNCHANGED <<answer, tableVars, todo, found, clock, mishaps, entangled>>
      BY <2>2, CreateEffect
    <3>2. QED
      BY <1>2, <3>1 DEF TypeOK
  <2>3. ASSUME NEW c \in Customers, CreateRequest(w, c) PROVE TypeOK'
    <3>1. /\ job' \in [Writers -> Jobs]
          /\ UNCHANGED <<hubVars, tableVars, todo, found, clock, mishaps, entangled>>
      BY <2>3, CreateRequestEffect
    <3>2. QED
      BY <1>1, <1>2, <3>1
  <2>4. QED
    BY <1>6, <2>1, <2>2, <2>3
    DEF Request, MatchRequest, SkipRequest, DeferRequest, UnbindRequest
<1>7. CASE Crash
  <2>1. job' \in [Writers -> Jobs] /\ entangled' \subseteq Users
    BY <1>2, <1>7, JobTypes DEF Crash
  <2>2. QED
    BY <1>1, <1>2, <1>7, <2>1 DEF Crash, Mishap
<1>8. CASE UNCHANGED vars
  BY <1>1, <1>2, <1>8 DEF vars
<1>9. QED
  BY WriteTypes, <1>3, <1>4, <1>5, <1>6, <1>7, <1>8 DEF Next

LEMMA InitTypes == Init => TypeOK /\ KindInv
<1> SUFFICES ASSUME Init PROVE TypeOK /\ KindInv
  OBVIOUS
<1>1. job \in [Writers -> Jobs] /\ \A w \in Writers : job[w] = Idle
  BY JobTypes DEF Init
<1>2. KindInv
  BY <1>1, Threads, JobTypes DEF KindInv
<1>3. TypeOK
  BY <1>1 DEF Init, TypeOK
<1>4. QED
  BY <1>2, <1>3

\* Every variable has its type, and no customer is bound to two users.
THEOREM TypeCorrect == Spec => []TypeOK
<1>1. TypeOK /\ KindInv /\ [Next]_vars => TypeOK' /\ KindInv'
  BY TypeStep, KindStep
<1>2. QED
  BY <1>1, InitTypes, PTL DEF Spec
-----------------------------------------------------------------------------
(***************************************************************************)
(* The steps by what they do to the hands: a statement of a writer; a step *)
(* that takes nobody in hand; a writer taking a user in hand; and the two  *)
(* steps of the mirror.                                                    *)
(***************************************************************************)
Quiet ==
  /\ UNCHANGED tableVars
  /\ found' \subseteq found /\ entangled \subseteq entangled'
  /\ \A w \in Writers, u \in Users : job'[w].pc # "idle" /\ job'[w].user = u =>
       /\ InHand(w, u)
       /\ \/ job'[w] = job[w]
          \/ w = "sync" /\ job[w].pc = "lookup" /\ job'[w].pc \in {"bind", "queue"}
  /\ \A w \in Writers, u \in Users : InHand(w, u) /\ job[w].pc \in {"unpend", "unmap"} =>
       job'[w] = job[w] \/ u \in entangled'

Taking(w, u) ==
  /\ UNCHANGED <<tableVars, found>>
  /\ job[w].pc = "idle" \/ (job[w].pc = "create" /\ ~Held(u))
  /\ \A x \in Writers \ {w} : job'[x] = job[x]
  /\ job'[w].user = u /\ job'[w].pc \in {"lookup", "bind", "skip", "defer", "unbind", "bindNew"}
  /\ job'[w].pc = "bind" => w \in Requests
  /\ job'[w].pc \in {"lookup", "bindNew"} => mapping[u] = None
  /\ job'[w].pc = "bindNew" => pending[u] = 0
  /\ job'[w].pc = "defer" => pending[u] # 0
  /\ entangled' = entangled \cup {v \in {u} : Held(v)}
  /\ status'[u] # "absent"

AbsentGrows ==
  /\ \A u \in Users : status'[u] = "absent" => status[u] = "absent"
  /\ \A u \in todo' : u \in todo \/ status'[u] # "absent"

LEMMA WriteAbsent ==
  ASSUME TypeOK, KindInv, NEW w \in Writers, Write(w)
  PROVE  AbsentGrows
<1>1. todo' = todo
  BY WriteEffect
<1>2. UNCHANGED status \/ status' = [status EXCEPT ![job[w].user] = "DEACTIVATED"]
  BY DEF Write, Bind, BindNew, Unpend, Queue, Unmap, Skip, Defer, Unbind, Requeue, UpsertPending,
         Rejected, WriteFails, hubVars
<1>3. status \in [Users -> {"ACTIVE", "DEACTIVATED", "absent"}]
  BY DEF TypeOK
<1>4. QED
  BY <1>1, <1>2, <1>3 DEF AbsentGrows

LEMMA Shape ==
  ASSUME TypeOK, KindInv, AbsentInv, [Next]_vars
  PROVE  /\ AbsentGrows
         /\ \/ \E w \in Writers : Write(w)
            \/ Quiet
            \/ \E w \in Writers, u \in Users : Taking(w, u)
            \/ RefreshStart
            \/ \E r \in found : RefreshNext(r)
<1> DEFINE Goal ==
      /\ AbsentGrows
      /\ \/ \E w \in Writers : Write(w)
         \/ Quiet
         \/ \E w \in Writers, u \in Users : Taking(w, u)
         \/ RefreshStart
         \/ \E r \in found : RefreshNext(r)
<1> SUFFICES Goal
  OBVIOUS
<1>1. ASSUME UNCHANGED <<tableVars, found, job, entangled>> PROVE Quiet
  BY <1>1 DEF Quiet, InHand
<1>2. ASSUME UNCHANGED <<status, todo>> PROVE AbsentGrows
  BY <1>2 DEF AbsentGrows
<1>3. /\ status \in [Users -> {"ACTIVE", "DEACTIVATED", "absent"}] /\ todo \subseteq Users
      /\ job \in [Writers -> Jobs]
  BY DEF TypeOK
<1> USE DEF hubVars
<1> HIDE DEF Goal
<1>4. CASE Environment
  <2>1. CASE Tick BY <1>1, <1>2, <2>1 DEF Tick, Goal
  <2>2. ASSUME NEW u \in Users, HubStatus(u) PROVE Goal
    <3>1. AbsentGrows
      BY <1>3, <2>2 DEF HubStatus, AbsentGrows
    <3>2. QED
      BY <1>1, <2>2, <3>1 DEF HubStatus, Goal
  <2>3. ASSUME NEW u \in Users, NEW c \in Customers \cup {None}, Edit(u, c) PROVE Goal
    BY <1>1, <1>2, <2>3 DEF Edit, Goal
  <2>4. QED
    BY <1>4, <2>1, <2>2, <2>3 DEF Environment
<1>5. CASE Sync
  <2>1. CASE SyncStart
    <3>1. AbsentGrows
      BY <2>1 DEF SyncStart, AbsentGrows
    <3>2. QED
      BY <1>1, <2>1, <3>1 DEF SyncStart, Goal
  <2>2. CASE SyncMatched \/ SyncUnmatched \/ SyncError
    <3>1. /\ job["sync"].pc = "lookup"
          /\ \A x \in Writers \ {"sync"} : job'[x] = job[x]
          /\ \/ job'["sync"].pc = "idle"
             \/ /\ job'["sync"].pc \in {"bind", "queue"}
                /\ job'["sync"].user = job["sync"].user
          /\ UNCHANGED <<tableVars, todo, found, entangled, status>>
      BY <2>2, SyncEffect, JobTypes
    <3>2. Quiet
      BY <3>1 DEF Quiet, InHand
    <3>3. QED
      BY <1>2, <3>1, <3>2 DEF Goal
  <2>3. ASSUME NEW u \in Users, SyncLook(u) PROVE Goal
    <3>1. /\ u \in todo /\ job["sync"].pc = "idle" /\ todo' = todo \ {u}
          /\ \A x \in Writers \ {"sync"} : job'[x] = job[x]
          /\ \/ UNCHANGED <<job, entangled>>
             \/ /\ job'["sync"].pc = "lookup" /\ job'["sync"].user = u /\ mapping[u] = None
                /\ entangled' = entangled \cup {v \in {u} : Held(v)}
          /\ UNCHANGED <<status, tableVars, found>>
      BY <2>3, SyncLookEffect, JobTypes
    <3>2. AbsentGrows
      BY <3>1 DEF AbsentGrows
    <3>3. CASE UNCHANGED <<job, entangled>>
      BY <1>1, <3>1, <3>2, <3>3 DEF Goal
    <3>4. CASE ~UNCHANGED <<job, entangled>>
      <4>1. status[u] # "absent"
        BY <3>1 DEF AbsentInv
      <4>2. Taking("sync", u)
        BY <3>1, <3>4, <4>1 DEF Taking
      <4>3. QED
        BY <3>2, <4>2, Threads DEF Goal
    <3>5. QED
      BY <3>3, <3>4
  <2>4. QED
    BY <1>5, <2>1, <2>2, <2>3 DEF Sync
<1>6. CASE Mirror
  <2>1. CASE RefreshStart BY <1>2, <2>1 DEF RefreshStart, Goal
  <2>2. ASSUME NEW r \in found, RefreshNext(r) PROVE Goal
    BY <1>2, <2>2 DEF RefreshNext, Goal
  <2>3. QED
    BY <1>6, <2>1, <2>2 DEF Mirror
<1>7. ASSUME NEW w \in Requests, Request(w) PROVE Goal
  <2>1. ASSUME NEW pc \in {"bind", "skip", "defer", "unbind"}, NEW u \in Users,
               NEW c \in Customers \cup {None}, Take(w, pc, u, c),
               status[u] # "absent", pc = "defer" => pending[u] # 0
        PROVE  Goal
    <3>1. /\ job[w].pc = "idle" /\ \A x \in Writers \ {w} : job'[x] = job[x]
          /\ job'[w].pc = pc /\ job'[w].user = u
          /\ entangled' = entangled \cup {v \in {u} : Held(v)}
          /\ UNCHANGED <<status, tableVars, todo, found>>
      BY <2>1, TakeEffect, JobTypes
    <3>2. Taking(w, u)
      BY <2>1, <3>1 DEF Taking
    <3>3. QED
      BY <1>2, <3>1, <3>2, Threads DEF Goal
  <2>2. ASSUME NEW u \in Users, CreateUser(w, u) PROVE Goal
    <3>1. /\ job[w].pc = "create" /\ status[u] = "absent"
          /\ \A x \in Writers \ {w} : job'[x] = job[x]
          /\ job'[w].pc = "bindNew" /\ job'[w].user = u
          /\ status' = [status EXCEPT ![u] = "ACTIVE"]
          /\ UNCHANGED <<tableVars, todo, found, entangled>>
      BY <2>2, CreateEffect
    <3>2. mapping[u] = None /\ pending[u] = 0 /\ ~Held(u)
      BY <3>1 DEF AbsentInv
    <3>3. entangled' = entangled \cup {v \in {u} : Held(v)}
      BY <3>1, <3>2
    <3>4. status'[u] # "absent"
      BY <1>3, <3>1
    <3>5. Taking(w, u)
      BY <3>1, <3>2, <3>3, <3>4 DEF Taking
    <3>6. AbsentGrows
      BY <1>3, <3>1 DEF AbsentGrows
    <3>7. QED
      BY <3>5, <3>6, Threads DEF Goal
  <2>3. ASSUME NEW c \in Customers, CreateRequest(w, c) PROVE Goal
    <3>1. /\ job[w].pc = "idle" /\ \A x \in Writers \ {w} : job'[x] = job[x]
          /\ job'[w].user = None
          /\ UNCHANGED <<status, tableVars, todo, found, entangled>>
      BY <2>3, CreateRequestEffect, JobTypes
    <3>2. Quiet
      BY <3>1, JobTypes DEF Quiet, InHand
    <3>3. QED
      BY <1>2, <3>1, <3>2 DEF Goal
  <2>4. QED
    BY <1>7, <2>1, <2>2, <2>3
    DEF AbsentInv, Request, MatchRequest, SkipRequest, DeferRequest, UnbindRequest
<1>8. CASE Crash
  <2>1. /\ \A w \in Writers : job'[w].pc = "idle"
        /\ todo' = {} /\ found' = {} /\ UNCHANGED <<tableVars, status>>
        /\ entangled' = entangled \cup {u \in Users : \E w \in Writers :
                                         InHand(w, u) /\ job[w].pc \in {"unpend", "unmap"}}
    BY <1>8, JobTypes DEF Crash
  <2>2. Quiet
    BY <2>1 DEF Quiet
  <2>3. AbsentGrows
    BY <2>1 DEF AbsentGrows
  <2>4. QED
    BY <2>2, <2>3 DEF Goal
<1>9. CASE UNCHANGED vars
  BY <1>1, <1>2, <1>9 DEF vars, Goal
<1>10. QED
  BY WriteAbsent, <1>4, <1>5, <1>6, <1>7, <1>8, <1>9 DEF Next, Goal

\* A statement leaves hands as they are, and the user it is about in them or free.
LEMMA WriteHands ==
  ASSUME TypeOK, KindInv, NEW w \in Writers, Write(w), NEW x \in Writers, NEW u \in Users,
         job'[x].pc # "idle" /\ job'[x].user = u
  PROVE  InHand(x, u) /\ (x # w => job'[x] = job[x])
<1>1. /\ job[w].pc # "idle"
      /\ \A y \in Writers \ {w} : job'[y] = job[y]
      /\ job'[w] = Idle \/ job'[w].user = job[w].user
  BY WriteEffect
<1>2. CASE x = w BY <1>1, <1>2, JobTypes DEF InHand
<1>3. CASE x # w BY <1>1, <1>3 DEF InHand
<1>4. QED BY <1>2, <1>3

LEMMA RefreshStartEffect ==
  ASSUME TypeOK, RefreshStart
  PROVE  \E us \in SUBSET Users :
           /\ \A u \in us : pending[u] # 0 /\ mapping[u] = None
           /\ \A r \in found' : r.user \in us
           /\ \A r, s \in found' : r.user = s.user => r = s
           /\ found = {} /\ job["mirror"] = Idle
           /\ entangled' = entangled \cup {u \in us : Held(u)}
           /\ UNCHANGED <<hubVars, tableVars, todo, job, clock, mishaps>>
<1>1. PICK us \in SUBSET Resolvable :
         /\ found' = {[user |-> u, cust |-> answer[u]] : u \in us}
         /\ TakeInHand(us)
  BY DEF RefreshStart
<1>2. us \in SUBSET Users /\ \A u \in us : pending[u] # 0 /\ mapping[u] = None
  BY <1>1 DEF Resolvable
<1>3. \A r \in found' : r.user \in us /\ r = [user |-> r.user, cust |-> answer[r.user]]
  BY <1>1
<1>4. \A r, s \in found' : r.user = s.user => r = s
  BY <1>3
<1>5. QED
  BY <1>1, <1>2, <1>3, <1>4 DEF TakeInHand, RefreshStart

LEMMA AbsentStep ==
  ASSUME TypeOK, KindInv, AbsentInv, [Next]_vars
  PROVE  AbsentInv'
<1>1. AbsentGrows
  BY Shape
<1>2. SUFFICES ASSUME NEW u \in Users, status'[u] = "absent"
               PROVE  mapping'[u] = None /\ pending'[u] = 0 /\ u \notin todo' /\ ~Held(u)'
  BY DEF AbsentInv
<1>3. /\ mapping[u] = None /\ pending[u] = 0 /\ u \notin todo'
      /\ \A w \in Writers : ~InHand(w, u)
      /\ \A r \in found : r.user # u
  BY <1>1, <1>2 DEF AbsentInv, AbsentGrows, Held
<1>4. SUFFICES /\ mapping'[u] = mapping[u] /\ pending'[u] = pending[u]
               /\ \A w \in Writers : ~(job'[w].pc # "idle" /\ job'[w].user = u)
               /\ \A r \in found' : r.user # u
  BY <1>3 DEF Held, InHand
<1>5. ASSUME NEW w \in Writers, Write(w)
      PROVE  /\ mapping'[u] = mapping[u] /\ pending'[u] = pending[u]
             /\ \A x \in Writers : ~(job'[x].pc # "idle" /\ job'[x].user = u)
             /\ \A r \in found' : r.user # u
  <2>1. mapping'[u] = mapping[u] /\ pending'[u] = pending[u] /\ found' = found
    BY <1>3, <1>5, WriteEffect
  <2>2. \A x \in Writers : ~(job'[x].pc # "idle" /\ job'[x].user = u)
    BY <1>3, <1>5, WriteHands
  <2>3. QED
    BY <1>3, <2>1, <2>2
<1>6. CASE Quiet
  BY <1>3, <1>6 DEF Quiet, tableVars
<1>7. ASSUME NEW w \in Writers, NEW v \in Users, Taking(w, v)
      PROVE  /\ mapping'[u] = mapping[u] /\ pending'[u] = pending[u]
             /\ \A x \in Writers : ~(job'[x].pc # "idle" /\ job'[x].user = u)
             /\ \A r \in found' : r.user # u
  <2>1. v # u
    BY <1>2, <1>7 DEF Taking
  <2>2. QED
    BY <1>3, <1>7, <2>1 DEF Taking, tableVars, InHand
<1>8. CASE RefreshStart
  <2>1. PICK us \in SUBSET Users :
           /\ \A v \in us : pending[v] # 0
           /\ \A r \in found' : r.user \in us
           /\ UNCHANGED <<tableVars, job>>
    BY <1>8, RefreshStartEffect
  <2>2. QED
    BY <1>3, <2>1 DEF tableVars, InHand
<1>9. ASSUME NEW r \in found, RefreshNext(r)
      PROVE  /\ mapping'[u] = mapping[u] /\ pending'[u] = pending[u]
             /\ \A x \in Writers : ~(job'[x].pc # "idle" /\ job'[x].user = u)
             /\ \A q \in found' : q.user # u
  <2>1. /\ \A x \in Writers \ {"mirror"} : job'[x] = job[x]
        /\ job'["mirror"].user = r.user /\ found' = found \ {r}
        /\ UNCHANGED tableVars
    BY <1>9, RefreshNextEffect
  <2>2. QED
    BY <1>3, <2>1 DEF tableVars, InHand
<1>10. QED
  BY Shape, <1>5, <1>6, <1>7, <1>8, <1>9

LEMMA HandStep ==
  ASSUME TypeOK, KindInv, AbsentInv, HandInv, [Next]_vars
  PROVE  HandInv'
<1> DEFINE Holds(x, u) == job'[x].pc # "idle" /\ job'[x].user = u
<1>1. ASSUME found' \subseteq found, entangled \subseteq entangled',
             \A x \in Writers, u \in Users : Holds(x, u) => InHand(x, u)
      PROVE  HandInv'
  BY <1>1 DEF HandInv, InHand
<1>2. ASSUME NEW w \in Writers, Write(w) PROVE HandInv'
  <2>1. found' \subseteq found /\ entangled \subseteq entangled'
    BY <1>2, WriteEffect
  <2>2. \A x \in Writers, u \in Users : Holds(x, u) => InHand(x, u)
    BY <1>2, WriteHands
  <2>3. QED
    BY <1>1, <2>1, <2>2
<1>3. CASE Quiet
  BY <1>1, <1>3 DEF Quiet
<1>4. ASSUME NEW w \in Writers, NEW v \in Users, Taking(w, v) PROVE HandInv'
  <2>1. /\ found' = found /\ entangled' = entangled \cup {u \in {v} : Held(u)}
        /\ job'[w].user = v /\ \A x \in Writers \ {w} : job'[x] = job[x]
    BY <1>4 DEF Taking
  <2>2. ASSUME NEW u \in Users, u \notin entangled', u # v, NEW x \in Writers, Holds(x, u)
        PROVE  InHand(x, u) /\ u \notin entangled
    BY <2>1, <2>2 DEF InHand
  <2>3. ASSUME v \notin entangled'
        PROVE  /\ \A x \in Writers : Holds(x, v) => x = w
               /\ \A r \in found : r.user # v
    BY <2>1, <2>3 DEF Held, InHand
  <2>4. \A u \in Users \ entangled' : \A x, y \in Writers : Holds(x, u) /\ Holds(y, u) => x = y
    BY <2>2, <2>3 DEF HandInv
  <2>5. \A u \in Users \ entangled' : (\E r \in found' : r.user = u) => \A x \in Writers : ~Holds(x, u)
    <3>1. ASSUME NEW u \in Users \ entangled', NEW r \in found, r.user = u, NEW x \in Writers, Holds(x, u)
          PROVE  FALSE
      <4>1. u # v
        BY <2>3, <3>1
      <4>2. InHand(x, u) /\ u \notin entangled
        BY <2>2, <3>1, <4>1
      <4>3. QED
        BY <3>1, <4>2 DEF HandInv
    <3>2. QED
      BY <2>1, <3>1
  <2>6. \A r, s \in found' : r.user = s.user => r = s
    BY <2>1 DEF HandInv
  <2>7. QED
    BY <2>4, <2>5, <2>6 DEF HandInv, InHand
<1>5. CASE RefreshStart
  <2>1. PICK us \in SUBSET Users :
           /\ \A r \in found' : r.user \in us
           /\ \A r, s \in found' : r.user = s.user => r = s
           /\ entangled' = entangled \cup {u \in us : Held(u)}
           /\ UNCHANGED job
    BY <1>5, RefreshStartEffect
  <2>2. \A u \in Users \ entangled' : (\E r \in found' : r.user = u) => \A x \in Writers : ~Holds(x, u)
    BY <2>1 DEF Held, InHand
  <2>3. \A u \in Users \ entangled' : \A x, y \in Writers : Holds(x, u) /\ Holds(y, u) => x = y
    BY <2>1 DEF HandInv, InHand
  <2>4. QED
    BY <2>1, <2>2, <2>3 DEF HandInv, InHand
<1>6. ASSUME NEW r \in found, RefreshNext(r) PROVE HandInv'
  <2>1. /\ \A x \in Writers \ {"mirror"} : job'[x] = job[x]
        /\ job'["mirror"].user = r.user /\ r.user \in Users /\ found' = found \ {r}
        /\ entangled' = entangled
    BY <1>6, RefreshNextEffect
  <2>2. ASSUME NEW u \in Users \ entangled', NEW x \in Writers, Holds(x, u)
        PROVE  (x = "mirror" /\ u = r.user) \/ (x # "mirror" /\ InHand(x, u) /\ u # r.user)
    BY <2>1, <2>2 DEF HandInv, InHand
  <2>3. \A u \in Users \ entangled' : \A x, y \in Writers : Holds(x, u) /\ Holds(y, u) => x = y
    BY <2>1, <2>2 DEF HandInv
  <2>4. ASSUME NEW u \in Users \ entangled', NEW q \in found', q.user = u, NEW x \in Writers, Holds(x, u)
        PROVE  FALSE
    <3>1. q \in found /\ q # r /\ u # r.user
      BY <2>1, <2>4 DEF HandInv
    <3>2. QED
      BY <2>1, <2>2, <2>4, <3>1 DEF HandInv
  <2>5. \A q, s \in found' : q.user = s.user => q = s
    BY <2>1 DEF HandInv
  <2>6. QED
    BY <2>3, <2>4, <2>5 DEF HandInv, InHand
<1>7. QED
  BY Shape, <1>2, <1>3, <1>4, <1>5, <1>6

\* What a statement does to the user it is about.
LEMMA WriteOwn ==
  ASSUME TypeOK, KindInv, NEW w \in Writers, Write(w), NEW u \in Users, InHand(w, u)
  PROVE  /\ \/ job'[w].pc \in {"idle", "unpend"}
            \/ /\ job'[w].pc = "unmap" /\ job[w].pc = "queue" /\ w = "sync"
               /\ mapping'[u] = mapping[u]
            \/ job'[w].pc = "requeue" /\ mapping'[u] = None
         /\ job'[w].pc = "idle" =>
              \/ mapping'[u] = None \/ pending'[u] = 0
              \/ job[w].pc = "bindNew" /\ pending'[u] = pending[u]
              \/ job[w].pc \in {"defer", "requeue"} /\ mapping'[u] = mapping[u]
              \/ /\ mapping'[u] = mapping[u] /\ pending'[u] = pending[u]
                 /\ job[w].pc \in {"unpend", "unmap"} => u \in entangled'
<1>1. job \in [Writers -> Jobs] /\ job[w] \in Jobs /\ job[w].user = u
  BY DEF TypeOK, InHand
<1>2. mapping \in [Users -> Customers \cup {None}] /\ pending \in [Users -> Nat]
  BY DEF TypeOK
<1>3. ASSUME Finish(w) PROVE job'[w].pc = "idle"
  BY <1>1, <1>3, JobTypes DEF Finish
<1>4. ASSUME NEW pc, Goto(w, pc) PROVE job'[w].pc = pc
  BY <1>1, <1>4 DEF Goto, Job
<1> USE DEF tableVars
<1>5. CASE Bind(w)
  <2>1. job'[w].pc = "unpend" BY <1>4, <1>5 DEF Bind
  <2>2. QED BY <2>1
<1>6. CASE BindNew(w) BY <1>3, <1>6 DEF BindNew
<1>7. CASE Unpend(w) BY <1>1, <1>2, <1>3, <1>7 DEF Unpend
<1>8. CASE Queue(w)
  <2>1. job'[w].pc = "unmap" BY <1>4, <1>8 DEF Queue, UpsertPending
  <2>2. w = "sync"
    BY <1>8 DEF Queue, UpsertPending, KindInv, Writers
  <2>3. QED BY <1>8, <2>1, <2>2 DEF Queue, UpsertPending
<1>9. CASE Unmap(w) BY <1>1, <1>2, <1>3, <1>9 DEF Unmap
<1>10. CASE Skip(w)
  <2>1. job'[w].pc = "unpend" BY <1>4, <1>10 DEF Skip
  <2>2. QED BY <2>1
<1>11. CASE Defer(w) BY <1>3, <1>11 DEF UpsertPending, Defer
<1>12. CASE Unbind(w)
  <2>1. job'[w].pc = "requeue" BY <1>4, <1>12 DEF Unbind
  <2>2. mapping'[u] = None BY <1>1, <1>2, <1>12 DEF Unbind
  <2>3. QED BY <2>1, <2>2
<1>13. CASE Requeue(w) BY <1>3, <1>13 DEF UpsertPending, Requeue
<1>14. CASE Rejected(w) BY <1>3, <1>14 DEF Rejected
<1>15. CASE WriteFails(w)
  <2>1. job[w].pc \in {"unpend", "unmap"} => u \in entangled'
    BY <1>1, <1>15 DEF WriteFails
  <2>2. QED BY <1>3, <1>15, <2>1 DEF WriteFails
<1>16. QED
  BY <1>5, <1>6, <1>7, <1>8, <1>9, <1>10, <1>11, <1>12, <1>13, <1>14, <1>15 DEF Write

LEMMA SeenStep ==
  ASSUME TypeOK, KindInv, AbsentInv, HandInv, SeenInv, AtMostOneTable, [Next]_vars
  PROVE  SeenInv'
<1> DEFINE
      Holds(x, u) == job'[x].pc # "idle" /\ job'[x].user = u
      FreeUser(x) == \/ x = "sync" /\ job'[x].pc \in {"lookup", "bind", "queue", "unmap"}
                     \/ x = "mirror" /\ job'[x].pc = "bind"
                     \/ job'[x].pc \in {"defer", "requeue", "bindNew"}
<1> SUFFICES ASSUME NEW u \in Users, u \notin entangled'
             PROVE  /\ \A r \in found' : r.user = u => mapping'[u] = None
                    /\ \A x \in Writers : Holds(x, u) /\ FreeUser(x) => mapping'[u] = None
                    /\ \A x \in Writers : Holds(x, u) /\ job'[x].pc = "bindNew" => pending'[u] = 0
  BY DEF SeenInv, InHand, Unbound
<1> DEFINE Goal ==
             /\ \A r \in found' : r.user = u => mapping'[u] = None
             /\ \A x \in Writers : Holds(x, u) /\ FreeUser(x) => mapping'[u] = None
             /\ \A x \in Writers : Holds(x, u) /\ job'[x].pc = "bindNew" => pending'[u] = 0
<1>1. ASSUME NEW w \in Writers, Write(w) PROVE Goal
  <2>1. u \notin entangled /\ found' = found
    BY <1>1, WriteEffect
  <2>2. ~InHand(w, u) => mapping'[u] = mapping[u] /\ pending'[u] = pending[u]
    BY <1>1, WriteEffect
  <2>3. \A r \in found' : r.user = u => mapping'[u] = None
    BY <2>1, <2>2 DEF HandInv, SeenInv
  <2>4. ASSUME NEW x \in Writers, Holds(x, u)
        PROVE  InHand(x, u) /\ (x # w => ~InHand(w, u) /\ job'[x] = job[x])
    BY <1>1, <2>1, <2>4, WriteHands DEF HandInv
  <2>5. ASSUME NEW x \in Writers, Holds(x, u), x # w
        PROVE  /\ FreeUser(x) => mapping'[u] = None
               /\ job'[x].pc = "bindNew" => pending'[u] = 0
    <3>1. InHand(x, u) /\ job'[x] = job[x] /\ mapping'[u] = mapping[u] /\ pending'[u] = pending[u]
      BY <2>2, <2>4, <2>5
    <3>2. FreeUser(x) => Unbound(x)
      BY <3>1 DEF Unbound
    <3>3. QED
      BY <2>1, <3>1, <3>2 DEF SeenInv
  <2>6. ASSUME Holds(w, u)
        PROVE  (FreeUser(w) => mapping'[u] = None) /\ job'[w].pc # "bindNew"
    <3>1. InHand(w, u)
      BY <2>4, <2>6
    <3>2. \/ job'[w].pc = "unpend"
          \/ job[w].pc = "queue" /\ w = "sync" /\ mapping'[u] = mapping[u] /\ job'[w].pc = "unmap"
          \/ job'[w].pc = "requeue" /\ mapping'[u] = None
      BY <1>1, <2>6, <3>1, WriteOwn
    <3>3. job[w].pc = "queue" /\ w = "sync" => mapping[u] = None
      BY <2>1, <3>1 DEF SeenInv, Unbound
    <3>4. QED
      BY <3>2, <3>3
  <2>7. QED
    BY <2>3, <2>5, <2>6
<1>2. CASE Quiet
  <2>1. u \notin entangled /\ found' \subseteq found /\ UNCHANGED tableVars
    BY <1>2 DEF Quiet
  <2>2. ASSUME NEW x \in Writers, Holds(x, u)
        PROVE  /\ InHand(x, u)
               /\ FreeUser(x) => Unbound(x)
               /\ job'[x].pc = "bindNew" => job[x].pc = "bindNew"
    BY <1>2, <2>2 DEF Quiet, Unbound
  <2>3. QED
    BY <2>1, <2>2 DEF SeenInv, tableVars
<1>3. ASSUME NEW w \in Writers, NEW v \in Users, Taking(w, v) PROVE Goal
  <2>1. /\ u \notin entangled /\ found' = found /\ UNCHANGED tableVars
        /\ \A x \in Writers \ {w} : job'[x] = job[x]
        /\ job'[w].user = v
    BY <1>3 DEF Taking
  <2>2. ASSUME NEW x \in Writers, x # w, Holds(x, u)
        PROVE  /\ InHand(x, u)
               /\ FreeUser(x) => Unbound(x)
               /\ job'[x].pc = "bindNew" => job[x].pc = "bindNew"
    BY <2>1, <2>2 DEF InHand, Unbound
  <2>3. ASSUME Holds(w, u)
        PROVE  /\ FreeUser(w) => mapping[u] = None
               /\ job'[w].pc = "bindNew" => pending[u] = 0
    <3>1. u = v /\ ~Held(u)
      BY <1>3, <2>1, <2>3 DEF Taking
    <3>2. job'[w].pc = "defer" => mapping[u] = None
      BY <1>3, <2>1, <3>1 DEF Taking, AtMostOneTable, Both, Held
    <3>3. QED
      BY <1>3, <3>1, <3>2, Threads DEF Taking
  <2>4. QED
    BY <2>1, <2>2, <2>3 DEF SeenInv, tableVars
<1>4. CASE RefreshStart
  <2>1. PICK us \in SUBSET Users :
           /\ \A v \in us : mapping[v] = None
           /\ \A r \in found' : r.user \in us
           /\ entangled' = entangled \cup {v \in us : Held(v)}
           /\ UNCHANGED <<tableVars, job>>
    BY <1>4, RefreshStartEffect
  <2>2. ASSUME NEW x \in Writers, Holds(x, u)
        PROVE  InHand(x, u) /\ (FreeUser(x) => Unbound(x))
    BY <2>1, <2>2 DEF InHand, Unbound
  <2>3. u \notin entangled /\ UNCHANGED tableVars /\ \A r \in found' : r.user = u => mapping[u] = None
    BY <2>1
  <2>4. QED
    BY <2>1, <2>2, <2>3 DEF SeenInv, tableVars
<1>5. ASSUME NEW r \in found, RefreshNext(r) PROVE Goal
  <2>1. /\ \A x \in Writers \ {"mirror"} : job'[x] = job[x]
        /\ job'["mirror"].pc = "bind" /\ job'["mirror"].user = r.user
        /\ found' = found \ {r} /\ UNCHANGED tableVars /\ entangled' = entangled
    BY <1>5, RefreshNextEffect
  <2>2. ASSUME NEW x \in Writers, x # "mirror", Holds(x, u)
        PROVE  /\ InHand(x, u)
               /\ FreeUser(x) => Unbound(x)
               /\ job'[x].pc = "bindNew" => job[x].pc = "bindNew"
    BY <2>1, <2>2 DEF InHand, Unbound
  <2>3. Holds("mirror", u) => mapping[u] = None
    BY <2>1 DEF SeenInv
  <2>4. QED
    BY <2>1, <2>2, <2>3 DEF SeenInv, tableVars
<1>6. QED
  BY Shape, <1>1, <1>2, <1>3, <1>4, <1>5

LEMMA TableStep ==
  ASSUME TypeOK, KindInv, AbsentInv, HandInv, SeenInv, AtMostOneTable, [Next]_vars
  PROVE  AtMostOneTable'
<1> DEFINE
      Holds(x, u) == job'[x].pc # "idle" /\ job'[x].user = u
      Witness(u) == \E x \in Writers : InHand(x, u) /\ job[x].pc \in {"unpend", "unmap"}
<1> SUFFICES ASSUME NEW u \in Users, u \notin entangled', mapping'[u] # None, pending'[u] # 0
             PROVE  \E x \in Writers : Holds(x, u) /\ job'[x].pc \in {"unpend", "unmap"}
  BY DEF AtMostOneTable, Both, InHand
<1> DEFINE Goal == \E x \in Writers : Holds(x, u) /\ job'[x].pc \in {"unpend", "unmap"}
<1>1. ASSUME NEW w \in Writers, Write(w) PROVE Goal
  <2>1. u \notin entangled /\ \A x \in Writers \ {w} : job'[x] = job[x]
    BY <1>1, WriteEffect
  <2>2. ASSUME mapping'[u] = mapping[u], pending'[u] = pending[u],
               InHand(w, u) => job[w].pc \notin {"unpend", "unmap"}
        PROVE  Goal
    <3>1. PICK x \in Writers : InHand(x, u) /\ job[x].pc \in {"unpend", "unmap"}
      BY <2>1, <2>2 DEF AtMostOneTable, Both
    <3>2. job'[x] = job[x]
      BY <2>1, <2>2, <3>1
    <3>3. QED
      BY <3>1, <3>2 DEF InHand
  <2>3. CASE ~InHand(w, u)
    BY <1>1, <2>2, <2>3, WriteEffect
  <2>4. CASE InHand(w, u)
    <3>1. job'[w].pc = "idle" \/ job'[w].user = u
      BY <1>1, <2>4, WriteEffect, JobTypes DEF InHand
    <3>2. CASE job'[w].pc \in {"unpend", "unmap"}
      BY <3>1, <3>2
    <3>3. CASE job'[w].pc = "idle"
      <4>1. job[w].pc = "bindNew" => pending[u] = 0
        BY <2>1, <2>4 DEF SeenInv
      <4>2. job[w].pc \in {"defer", "requeue"} => mapping[u] = None
        BY <2>1, <2>4 DEF SeenInv, Unbound
      <4>3. /\ mapping'[u] = mapping[u] /\ pending'[u] = pending[u]
            /\ job[w].pc \notin {"unpend", "unmap"}
        BY <1>1, <2>4, <3>3, <4>1, <4>2, WriteOwn
      <4>4. QED
        BY <2>2, <4>3
    <3>4. CASE job'[w].pc \notin {"idle", "unpend", "unmap"}
      BY <1>1, <2>4, <3>4, WriteOwn
    <3>5. QED
      BY <3>2, <3>3, <3>4
  <2>5. QED
    BY <2>3, <2>4
<1>2. CASE Quiet
  <2>1. u \notin entangled /\ UNCHANGED tableVars
    BY <1>2 DEF Quiet
  <2>2. PICK x \in Writers : InHand(x, u) /\ job[x].pc \in {"unpend", "unmap"}
    BY <2>1 DEF AtMostOneTable, Both, tableVars
  <2>3. job'[x] = job[x]
    BY <1>2, <2>2 DEF Quiet
  <2>4. QED
    BY <2>2, <2>3 DEF InHand
<1>3. ASSUME UNCHANGED tableVars, u \notin entangled,
             \A x \in Writers : job[x].pc \in {"unpend", "unmap"} => job'[x] = job[x]
      PROVE  Goal
  BY <1>3 DEF AtMostOneTable, Both, tableVars, InHand
<1>4. ASSUME NEW w \in Writers, NEW v \in Users, Taking(w, v) PROVE Goal
  BY <1>3, <1>4 DEF Taking
<1>5. CASE RefreshStart
  <2>1. UNCHANGED <<tableVars, job>> /\ entangled \subseteq entangled'
    BY <1>5, RefreshStartEffect
  <2>2. QED
    BY <1>3, <2>1
<1>6. ASSUME NEW r \in found, RefreshNext(r) PROVE Goal
  BY <1>3, <1>6, RefreshNextEffect, JobTypes
<1>7. QED
  BY Shape, <1>1, <1>2, <1>4, <1>5, <1>6
-----------------------------------------------------------------------------
BindingInv == TypeOK /\ KindInv /\ AbsentInv /\ HandInv /\ SeenInv /\ AtMostOneTable

LEMMA InitBinding == Init => BindingInv
<1> SUFFICES ASSUME Init PROVE BindingInv
  OBVIOUS
<1>1. \A w \in Writers : job[w].pc = "idle"
  BY JobTypes DEF Init
<1>2. AbsentInv
  BY <1>1 DEF Init, AbsentInv, Held, InHand
<1>3. HandInv /\ SeenInv
  BY <1>1 DEF Init, HandInv, SeenInv, InHand
<1>4. AtMostOneTable
  BY DEF Init, AtMostOneTable, Both
<1>5. QED
  BY <1>2, <1>3, <1>4, InitTypes DEF BindingInv

LEMMA BindingStep == BindingInv /\ [Next]_vars => BindingInv'
BY TypeStep, KindStep, AbsentStep, HandStep, SeenStep, TableStep DEF BindingInv

\* Nobody is bound and pending at once, but between the two statements of the
\* writer at work on the user, after an overlap, or after a cut-short writer.
THEOREM OneTable == Spec => []AtMostOneTable
<1>1. BindingInv => AtMostOneTable
  BY DEF BindingInv
<1>2. QED
  BY <1>1, InitBinding, BindingStep, PTL DEF Spec

LEMMA KeptStep ==
  ASSUME BindingInv, [Next]_vars
  PROVE  \A u \in Users : mapping[u] # None /\ mapping'[u] # mapping[u] =>
           ByStaff(u, {"bind", "unbind"}) \/ u \in entangled
<1> USE DEF BindingInv
<1>1. SUFFICES ASSUME NEW u \in Users, mapping[u] # None, mapping'[u] # mapping[u], u \notin entangled
               PROVE  ByStaff(u, {"bind", "unbind"})
  OBVIOUS
<1>2. PICK w \in Writers : Write(w)
  <2>1. ~Quiet
    BY <1>1 DEF Quiet, tableVars
  <2>2. \A x \in Writers, v \in Users : ~Taking(x, v)
    BY <1>1 DEF Taking, tableVars
  <2>3. ~RefreshStart /\ \A r \in found : ~RefreshNext(r)
    BY <1>1 DEF RefreshStart, RefreshNext, tableVars
  <2>4. QED
    BY <2>1, <2>2, <2>3, Shape
<1>3. InHand(w, u)
  BY <1>1, <1>2, WriteEffect
<1>4. job[w].pc \in {"bind", "bindNew", "unmap", "unbind"}
  BY <1>1, <1>2
  DEF Write, Bind, BindNew, Unpend, Queue, Unmap, Skip, Defer, Unbind, Requeue, UpsertPending,
      Rejected, WriteFails, tableVars
<1>5. job[w].pc \in {"bind", "unbind"} /\ w \in Requests
  <2>1. ~Unbound(w)
    BY <1>1, <1>3 DEF SeenInv
  <2>2. CASE w = "sync" BY <1>4, <2>1, <2>2 DEF Unbound, KindInv
  <2>3. CASE w = "mirror" BY <1>4, <2>1, <2>3 DEF Unbound, KindInv
  <2>4. CASE w \in Requests BY <1>4, <2>1, <2>4 DEF Unbound, KindInv
  <2>5. QED BY <2>2, <2>3, <2>4 DEF Writers
<1>6. job'[w] # job[w]
  BY <1>2, <1>5, WriteEffect, JobTypes
<1>7. QED
  BY <1>3, <1>5, <1>6 DEF ByStaff

\* Only a staff request changes or removes the binding of a user nobody else
\* worked on at the time.
THEOREM BindingsKept == Spec => BindingsAreKept
<1>1. BindingInv /\ [Next]_vars =>
        [\A u \in Users : mapping[u] # None /\ mapping'[u] # mapping[u] =>
           ByStaff(u, {"bind", "unbind"}) \/ u \in entangled]_vars
  BY KeptStep
<1>2. QED
  BY <1>1, InitBinding, BindingStep, PTL DEF Spec, BindingsAreKept
-----------------------------------------------------------------------------
\* A user once entangled stays so.
LEMMA Grows == [Next]_vars => entangled \subseteq entangled'
BY DEF Next, Environment, Tick, HubStatus, Edit, Sync, SyncStart, SyncLook,
   SyncMatched, SyncUnmatched, SyncError, Mirror, RefreshStart, RefreshNext,
   Request, MatchRequest, SkipRequest, DeferRequest, UnbindRequest,
   CreateRequest, CreateUser, Take, TakeInHand, Write, Bind, BindNew, Unpend,
   Queue, Unmap, Skip, Defer, Unbind, Requeue, Rejected, WriteFails, Crash, vars

LEMMA GraceStep ==
  ASSUME BindingInv, GraceInv, [Next]_vars
  PROVE  GraceInv'
<1> USE DEF BindingInv
<1>1. /\ pending \in [Users -> Nat] /\ clock \in Nat /\ Grace \in Nat /\ Snooze \in Nat
      /\ job \in [Writers -> Jobs] /\ "sync" \in Writers
      /\ job["sync"].pc = "queue" => job["sync"].user \in Users
  BY ClockAssumption, Threads DEF TypeOK, ClockAssumption, KindInv
<1>2. job["sync"].grace \in Nat
  BY <1>1, JobTypes
<1>3. ASSUME UNCHANGED pending, clock' = clock \/ clock' = clock + 1,
             job'["sync"] = job["sync"] \/ job'["sync"].pc # "queue"
      PROVE  GraceInv'
  BY <1>1, <1>2, <1>3, Grows DEF GraceInv, Overwritten
<1> USE DEF hubVars, tableVars
<1>4. CASE Environment
  BY <1>3, <1>4 DEF Environment, Tick, HubStatus, Edit
<1>5. CASE Sync
  <2>1. CASE SyncStart BY <1>3, <2>1 DEF SyncStart
  <2>2. CASE SyncMatched
    <3>1. job'["sync"].pc = "bind"
      BY <1>1, <2>2 DEF SyncMatched, Job
    <3>2. QED
      BY <1>3, <2>2, <3>1 DEF SyncMatched
  <2>3. CASE SyncUnmatched
    <3> DEFINE u == job["sync"].user
    <3>1. u \in Users /\ UNCHANGED <<pending, clock>>
      BY <1>1, <2>3, SyncEffect
    <3>2. job'["sync"].user = u /\ job'["sync"].grace = GraceUntil(u)
      BY <1>1, <2>3 DEF SyncUnmatched, Job
    <3>3. /\ Grace <= Snooze => GraceUntil(u) <= clock + Snooze
          /\ pending[u] # 0 => GraceUntil(u) <= pending[u]
      BY <1>1, <3>1 DEF GraceUntil, GraceInv
    <3>4. QED
      BY <1>1, <3>1, <3>2, <3>3 DEF GraceInv
  <2>4. CASE SyncError
    BY <1>1, <1>3, <2>4, JobTypes DEF SyncError, Finish
  <2>5. ASSUME NEW u \in Users, SyncLook(u) PROVE GraceInv'
    BY <1>3, <2>5, SyncLookEffect
  <2>6. QED
    BY <1>5, <2>1, <2>2, <2>3, <2>4, <2>5 DEF Sync
<1>6. CASE Mirror
  BY <1>1, <1>3, <1>6, RefreshNextEffect, Threads, RefreshStartEffect DEF Mirror
<1>7. ASSUME NEW w \in Requests, Request(w) PROVE GraceInv'
  <2>1. w # "sync"
    BY Threads
  <2>2. job'["sync"] = job["sync"] /\ UNCHANGED <<pending, clock>>
    BY <1>1, <1>7, <2>1
    DEF Request, MatchRequest, SkipRequest, DeferRequest, UnbindRequest, Take,
        CreateRequest, CreateUser
  <2>3. QED
    BY <1>3, <2>2
<1>8. ASSUME NEW w \in Writers, Write(w) PROVE GraceInv'
  <2>1. /\ clock' = clock
        /\ w # "sync" => job'["sync"] = job["sync"]
        /\ w = "sync" => job'["sync"].pc # "queue"
    BY <1>1, <1>8, WriteEffect, JobTypes
  <2>2. \/ UNCHANGED pending
        \/ pending' = [pending EXCEPT ![job[w].user] = 0]
        \/ /\ w \in Requests /\ job[w].user \in Users /\ InHand(w, job[w].user)
           /\ pending' = [pending EXCEPT ![job[w].user] = clock + Snooze]
        \/ w = "sync" /\ job[w].pc = "queue" /\ pending' = [pending EXCEPT ![job[w].user] = job[w].grace]
    BY <1>8, Threads
    DEF Write, Bind, BindNew, Unpend, Queue, Unmap, Skip, Defer, Unbind, Requeue, UpsertPending,
        Rejected, WriteFails, KindInv, Writers, InHand
  <2>3. CASE UNCHANGED pending
    BY <1>3, <2>1, <2>3
  <2>4. CASE pending' = [pending EXCEPT ![job[w].user] = 0]
    BY <1>1, <1>2, <2>1, <2>4, Grows DEF GraceInv, Overwritten
  <2>5. CASE /\ w \in Requests /\ job[w].user \in Users /\ InHand(w, job[w].user)
             /\ pending' = [pending EXCEPT ![job[w].user] = clock + Snooze]
    <3> DEFINE u == job["sync"].user
    <3>1. w # "sync" BY <2>5, Threads
    <3>2. /\ job'["sync"] = job["sync"]
          /\ \A v \in Users : pending'[v] = pending[v] \/ pending'[v] = clock + Snooze
      BY <1>1, <2>1, <2>5, <3>1
    <3>3. Grace <= Snooze =>
            /\ \A v \in Users : pending'[v] <= clock' + Snooze
            /\ job'["sync"].pc = "queue" => job'["sync"].grace <= clock' + Snooze
      BY <1>1, <2>1, <3>2 DEF GraceInv
    <3>4. ASSUME job'["sync"].pc = "queue", pending'[u] # 0
          PROVE  job["sync"].grace <= pending'[u] \/ Overwritten(u)'
      <4>1. u \in Users /\ job["sync"].pc = "queue" BY <1>1, <3>2, <3>4
      <4>0. entangled \subseteq entangled' BY Grows
      <4>2. CASE job[w].user # u
        <5>1. pending'[u] = pending[u] BY <1>1, <2>5, <4>1, <4>2
        <5>2. job["sync"].grace <= pending[u] \/ Overwritten(u)
          BY <3>4, <4>1, <5>1 DEF GraceInv
        <5>3. Overwritten(u) => Overwritten(u)'
          BY <3>2, <4>0 DEF Overwritten
        <5> QED BY <5>1, <5>2, <5>3
      <4>3. CASE job[w].user = u /\ Grace <= Snooze
        BY <1>1, <2>5, <4>1, <4>3 DEF GraceInv
      <4>4. CASE job[w].user = u /\ ~(Grace <= Snooze)
        <5>1. InHand("sync", u) BY <4>1 DEF InHand
        <5>2. u \in entangled
          BY <1>1, <2>5, <3>1, <4>1, <4>4, <5>1 DEF HandInv, Writers
        <5>3. Grace > Snooze BY <1>1, <4>4
        <5>4. u' \in entangled' BY <3>2, <4>0, <5>2
        <5> QED BY <5>3, <5>4 DEF Overwritten
      <4> QED BY <4>2, <4>3, <4>4
    <3> QED BY <3>2, <3>3, <3>4 DEF GraceInv
  <2>6. CASE w = "sync" /\ job[w].pc = "queue" /\ pending' = [pending EXCEPT ![job[w].user] = job[w].grace]
    BY <1>1, <1>2, <2>1, <2>6 DEF GraceInv
  <2>7. QED
    BY <2>2, <2>3, <2>4, <2>5, <2>6
<1>9. CASE Crash
  BY <1>1, <1>3, <1>9, JobTypes DEF Crash
<1>10. CASE UNCHANGED vars
  BY <1>3, <1>10 DEF vars
<1>11. QED
  BY <1>4, <1>5, <1>6, <1>7, <1>8, <1>9, <1>10 DEF Next

LEMMA AnchoredStep ==
  ASSUME TypeOK, KindInv, GraceInv, [Next]_vars
  PROVE  \A u \in Users : pending[u] # 0 /\ pending'[u] > pending[u] =>
           ByStaff(u, {"defer", "requeue"}) \/ Overwritten(u)
<1>1. SUFFICES ASSUME NEW u \in Users, pending[u] # 0, pending'[u] > pending[u],
                      ~Overwritten(u)
               PROVE  ByStaff(u, {"defer", "requeue"})
  OBVIOUS
<1>2. pending \in [Users -> Nat] /\ job \in [Writers -> Jobs]
  BY DEF TypeOK
<1>3. pending'[u] # pending[u]
  BY <1>1, <1>2
<1>4. PICK w \in Writers : Write(w)
  BY <1>3
  DEF Next, Environment, Tick, HubStatus, Edit, Sync, SyncStart, SyncLook, SyncMatched,
      SyncUnmatched, SyncError, Mirror, RefreshStart, RefreshNext, Request, MatchRequest,
      SkipRequest, DeferRequest, UnbindRequest, CreateRequest, CreateUser, Take, Crash,
      vars, tableVars
<1>5. job[w].user = u
  BY <1>3, <1>4, WriteEffect DEF InHand
<1>6. job[w].pc \in {"unpend", "queue", "defer", "requeue"}
  BY <1>3, <1>4
  DEF Write, Bind, BindNew, Unpend, Queue, Unmap, Skip, Defer, Unbind, Requeue, UpsertPending,
      Rejected, WriteFails, tableVars
<1>7. job[w].pc # "unpend"
  <2>1. job[w].pc = "unpend" => pending'[u] = 0 \/ pending'[u] = pending[u]
    BY <1>2, <1>4, <1>5
    DEF Write, Bind, BindNew, Unpend, Queue, Unmap, Skip, Defer, Unbind, Requeue, UpsertPending,
        Rejected, WriteFails, tableVars
  <2>2. QED
    BY <1>1, <1>2, <2>1
<1>8. job[w].pc # "queue"
  <2>1. SUFFICES ASSUME job[w].pc = "queue" PROVE FALSE
    OBVIOUS
  <2>2. w = "sync"
    BY <2>1 DEF KindInv, Writers
  <2>3. pending'[u] = job[w].grace
    BY <1>2, <1>3, <1>4, <1>5, <2>1
    DEF Write, Bind, BindNew, Unpend, Queue, Unmap, Skip, Defer, Unbind, Requeue, UpsertPending,
        Rejected, WriteFails, tableVars
  <2>4. job[w].grace <= pending[u]
    BY <1>1, <1>5, <2>1, <2>2 DEF GraceInv
  <2>5. job[w].grace \in Nat
    BY <1>2, JobTypes
  <2>6. QED
    BY <1>1, <1>2, <2>3, <2>4, <2>5
<1>9. w \in Requests
  BY <1>6, <1>7, <1>8 DEF KindInv, Writers
<1>10. job'[w] # job[w]
  BY <1>4, <1>6, <1>7, <1>8, WriteEffect, JobTypes
<1>11. QED
  BY <1>5, <1>6, <1>7, <1>8, <1>9, <1>10 DEF ByStaff, InHand

\* The grace window of a pending user is extended by snoozing and unbinding
\* alone: seeing the user again never moves it, save that the sync may write
\* over an unbind made meanwhile where its own window is the longer one.
THEOREM GraceAnchored == Spec => GraceIsAnchored
<1>1. Init => GraceInv
  <2>1. Init => job["sync"].pc = "idle" /\ clock = 1 /\ \A u \in Users : pending[u] = 0
    BY Threads, JobTypes DEF Init
  <2>2. QED
    BY <2>1, ClockAssumption DEF GraceInv, ClockAssumption
<1>2. BindingInv /\ GraceInv /\ [Next]_vars => BindingInv' /\ GraceInv'
  BY BindingStep, GraceStep
<1>3. BindingInv /\ GraceInv /\ [Next]_vars =>
        [\A u \in Users : pending[u] # 0 /\ pending'[u] > pending[u] =>
           ByStaff(u, {"defer", "requeue"}) \/ Overwritten(u)]_vars
  BY AnchoredStep DEF BindingInv
<1>4. QED
  BY <1>1, <1>2, <1>3, InitBinding, PTL DEF Spec, GraceIsAnchored
=============================================================================

------------------------------- MODULE Binding -------------------------------
(***************************************************************************)
(* Which Redpoint customer a UA-Hub user stands for.                       *)
(*                                                                         *)
(* The answer lives in two tables: ua_user_mappings (a user is bound to a  *)
(* customer) and ua_user_mappings_pending (a user waits in Needs Match).   *)
(* Five parties write them, each as a sequence of single statements with   *)
(* upstream calls in between and no transaction around them:               *)
(*   "sync"    the matching phase of the status sync, one run at a time    *)
(*             (statusync.Syncer.runMatchingPhase, matchOne,               *)
(*             persistDecision);                                           *)
(*   "mirror"  the recheck of the pending queue at the end of a refresh of *)
(*             the UA-Hub mirror (unifimirror.Syncer.recheckPending);      *)
(*   Requests  HTTP requests of the staff: match, skip, snooze (Defer),    *)
(*             unbind, and creation of a new member.                       *)
(* A writer is a thread whose program counter names its next statement.    *)
(*                                                                         *)
(* What a Redpoint lookup decides about a user is answer[u]; the decision  *)
(* tree itself is a pure function.  Writes can fail (a cancelled request   *)
(* context, SQLITE_BUSY), reads do not.  The match_audit rows and the      *)
(* members table, which no step here reads back, are left out.             *)
(***************************************************************************)
EXTENDS Integers, FiniteSets

CONSTANTS
  Users,        \* UA-Hub users, present or still to be created
  Customers,    \* Redpoint customers
  Requests,     \* bound: staff requests served at a time
  Staff,        \* what the staff does: a subset of StaffOperations
  None,
  Grace,        \* the sync's grace window, UnmatchedGraceDays, in ticks
  Snooze,       \* the staff's, of a snooze or an unbind: always 7 days
  MaxClock,     \* bound: last tick
  MaxMishaps    \* bound: failed statements and lookups, crashes, and changes
                \* that others make to a user in the hub or in Redpoint

StaffOperations == {"match", "skip", "defer", "unbind", "create"}

ASSUME NoneAssumption == None \notin Users /\ None \notin Customers
ASSUME WriterAssumption == "sync" \notin Requests /\ "mirror" \notin Requests
ASSUME StaffAssumption == Staff \subseteq StaffOperations
ASSUME ClockAssumption == {Grace, Snooze} \subseteq Nat \ {0} /\ MaxClock \in Nat
ASSUME BoundAssumption == MaxMishaps \in Nat

VARIABLES
  (* The UA-Hub and Redpoint. *)
  status,      \* status[u]: "ACTIVE", "DEACTIVATED", or "absent"
  answer,      \* answer[u]: the one customer the lookups yield, or None
  (* The tables. *)
  mapping,     \* mapping[u]: the customer u is bound to, or None
  pending,     \* pending[u]: grace_until of the pending row of u, or 0
  (* The process. *)
  todo,        \* users the running sync has still to look at
  found,       \* rows of FindResolvablePending still to be promoted
  job,         \* job[w]: what writer w is doing
  (* Time and history. *)
  clock,
  mishaps,
  entangled    \* users on whom two writers worked at a time, or whose writer
               \* was cut short between its statements

hubVars   == <<status, answer>>
tableVars == <<mapping, pending>>
vars == <<hubVars, tableVars, todo, found, job, clock, mishaps, entangled>>

Writers == {"sync", "mirror"} \cup Requests

Steps == {"idle", "lookup", "bind", "unpend", "queue", "unmap",
          "unbind", "requeue", "skip", "defer", "create", "bindNew"}
Jobs  == [pc : Steps, user : Users \cup {None}, cust : Customers \cup {None}, grace : Nat]
Idle  == [pc |-> "idle", user |-> None, cust |-> None, grace |-> 0]
Job(pc, u, c, g) == [pc |-> pc, user |-> u, cust |-> c, grace |-> g]

\* Writer w has taken user u in hand.
InHand(w, u) == job[w].pc # "idle" /\ job[w].user = u

\* The schema lacks the constraint.
FreeAnyway(c, u) == TRUE
\* UNIQUE(redpoint_customer_id): c is free for u.
Free(c, u) == \A v \in Users \ {u} : mapping[v] # c

\* A user the mirror has found is in hand until it has been dealt with.
Held(u) == (\E w \in Writers : InHand(w, u)) \/ (\E r \in found : r.user = u)

\* Taking users in hand that another writer holds entangles them.
TakeInHand(us) == entangled' = entangled \cup {u \in us : Held(u)}

Init ==
  /\ status \in [Users -> {"ACTIVE", "absent"}]
  /\ answer \in [Users -> Customers \cup {None}]
  /\ mapping = [u \in Users |-> None]
  /\ pending = [u \in Users |-> 0]
  /\ todo = {}
  /\ found = {}
  /\ job = [w \in Writers |-> Idle]
  /\ clock = 1
  /\ mishaps = 0
  /\ entangled = {}
-----------------------------------------------------------------------------
(***************************************************************************)
(* The surroundings.                                                       *)
(***************************************************************************)
Mishap == mishaps < MaxMishaps /\ mishaps' = mishaps + 1

Tick ==
  /\ clock < MaxClock
  /\ clock' = clock + 1
  /\ UNCHANGED <<hubVars, tableVars, todo, found, job, mishaps, entangled>>

\* Somebody else changes the status of u: an administrator of the hub, the
\* status pass of the sync, or the Reactivate button.
HubStatus(u) ==
  /\ status[u] # "absent"
  /\ Mishap
  /\ status' = [status EXCEPT ![u] = IF @ = "ACTIVE" THEN "DEACTIVATED" ELSE "ACTIVE"]
  /\ UNCHANGED <<answer, tableVars, todo, found, job, clock, entangled>>

\* The e-mail or the name of u changes in the hub or in Redpoint.
Edit(u, c) ==
  /\ Mishap
  /\ answer' = [answer EXCEPT ![u] = c]
  /\ UNCHANGED <<status, tableVars, todo, found, job, clock, entangled>>
-----------------------------------------------------------------------------
(***************************************************************************)
(* Single statements, shared by the writers.                               *)
(***************************************************************************)
Finish(w) == job' = [job EXCEPT ![w] = Idle]
Goto(w, pc) == job' = [job EXCEPT ![w] = Job(pc, job[w].user, None, 0)]

\* UpsertMapping.  A violation of UNIQUE is an error like any other.
Bind(w) ==
  LET u == job[w].user  c == job[w].cust IN
  /\ job[w].pc = "bind"
  /\ Free(c, u)
  /\ mapping' = [mapping EXCEPT ![u] = c]
  /\ Goto(w, "unpend")
  /\ UNCHANGED <<hubVars, pending, todo, found, clock, mishaps, entangled>>

\* A new member is bound without a look at the pending queue.
BindNew(w) ==
  LET u == job[w].user  c == job[w].cust IN
  /\ job[w].pc = "bindNew"
  /\ Free(c, u)
  /\ mapping' = [mapping EXCEPT ![u] = c]
  /\ Finish(w)
  /\ UNCHANGED <<hubVars, pending, todo, found, clock, mishaps, entangled>>

\* The row stays in the queue of somebody who has been bound.
UnpendForgotten(w) ==
  /\ job[w].pc = "unpend"
  /\ Finish(w)
  /\ UNCHANGED <<hubVars, tableVars, todo, found, clock, mishaps, entangled>>

\* DeletePending.
Unpend(w) ==
  /\ job[w].pc = "unpend"
  /\ pending' = [pending EXCEPT ![job[w].user] = 0]
  /\ Finish(w)
  /\ UNCHANGED <<hubVars, mapping, todo, found, clock, mishaps, entangled>>

\* UpsertPending: a new row, or the row with another end of its window.  A name
\* and e-mail that are missing are filled in from the mirror of the hub.
UpsertPending(u, grace) == pending' = [pending EXCEPT ![u] = grace]

\* persistDecision, pending path: UpsertPending with the grace it has read...
Queue(w) ==
  /\ job[w].pc = "queue"
  /\ UpsertPending(job[w].user, job[w].grace)
  /\ Goto(w, "unmap")
  /\ UNCHANGED <<hubVars, mapping, todo, found, clock, mishaps, entangled>>

\* ... then DeleteMapping.
Unmap(w) ==
  /\ job[w].pc = "unmap"
  /\ mapping' = [mapping EXCEPT ![job[w].user] = None]
  /\ Finish(w)
  /\ UNCHANGED <<hubVars, pending, todo, found, clock, mishaps, entangled>>

\* The customer is bound to somebody else by now.
Rejected(w) ==
  /\ job[w].pc \in {"bind", "bindNew"}
  /\ ~Free(job[w].cust, job[w].user)
  /\ Finish(w)
  /\ UNCHANGED <<hubVars, tableVars, todo, found, clock, mishaps, entangled>>

\* Any other failure: every writer gives the user up at that point.
WriteFails(w) ==
  /\ job[w].pc \notin {"idle", "lookup"}
  /\ Mishap
  /\ entangled' = IF job[w].pc \in {"unpend", "unmap"}
                  THEN entangled \cup {job[w].user} ELSE entangled
  /\ Finish(w)
  /\ UNCHANGED <<hubVars, tableVars, todo, found, clock>>
-----------------------------------------------------------------------------
(***************************************************************************)
(* The matching phase of the status sync.                                  *)
(***************************************************************************)
\* ListAllUsersWithStatus; the phase passes over deactivated users.
SyncStart ==
  /\ todo = {} /\ job["sync"] = Idle
  /\ todo' = {u \in Users : status[u] = "ACTIVE"}
  /\ UNCHANGED <<hubVars, tableVars, found, job, clock, mishaps, entangled>>

\* Bound users are matched again.
SyncPassesOverNobody(u) == FALSE
\* The user is bound already.
SyncPassesOver(u) == mapping[u] # None

SyncLook(u) ==
  /\ u \in todo /\ job["sync"] = Idle
  /\ todo' = todo \ {u}
  /\ IF SyncPassesOver(u)
     THEN UNCHANGED <<job, entangled>>
     ELSE /\ job' = [job EXCEPT !["sync"] = Job("lookup", u, None, 0)]
          /\ TakeInHand({u})
  /\ UNCHANGED <<hubVars, tableVars, found, clock, mishaps>>

SyncMatched ==
  LET u == job["sync"].user IN
  /\ job["sync"].pc = "lookup"
  /\ answer[u] # None
  /\ job' = [job EXCEPT !["sync"] = Job("bind", u, answer[u], 0)]
  /\ UNCHANGED <<hubVars, tableVars, todo, found, clock, mishaps, entangled>>

\* The grace window starts over whenever the user is seen.
GraceUntilAnew(u) == clock + Grace
\* The grace window is anchored to the first time the user was seen.
GraceUntil(u) == IF pending[u] # 0 THEN pending[u] ELSE clock + Grace

\* A user without a match is not written down.
SyncUnmatchedDropped ==
  /\ job["sync"].pc = "lookup"
  /\ answer[job["sync"].user] = None
  /\ Finish("sync")
  /\ UNCHANGED <<hubVars, tableVars, todo, found, clock, mishaps, entangled>>

SyncUnmatched ==
  LET u == job["sync"].user IN
  /\ job["sync"].pc = "lookup"
  /\ answer[u] = None
  /\ job' = [job EXCEPT !["sync"] = Job("queue", u, None, GraceUntil(u))]
  /\ UNCHANGED <<hubVars, tableVars, todo, found, clock, mishaps, entangled>>

\* The lookup fails; the next run tries again.
SyncError ==
  /\ job["sync"].pc = "lookup"
  /\ Mishap
  /\ Finish("sync")
  /\ UNCHANGED <<hubVars, tableVars, todo, found, clock, entangled>>
-----------------------------------------------------------------------------
(***************************************************************************)
(* The recheck of the pending queue.                                       *)
(***************************************************************************)
\* FindResolvablePending on the mirrors of the hub and of Redpoint, which may
\* lag behind: any part of the queue may be found.
Resolvable ==
  {u \in Users : /\ pending[u] # 0 /\ mapping[u] = None
                 /\ answer[u] # None /\ Free(answer[u], u)}

RefreshStart ==
  /\ found = {} /\ job["mirror"] = Idle
  /\ \E us \in SUBSET Resolvable :
       /\ found' = {[user |-> u, cust |-> answer[u]] : u \in us}
       /\ TakeInHand(us)
  /\ UNCHANGED <<hubVars, tableVars, todo, job, clock, mishaps>>

RefreshNext(r) ==
  /\ r \in found /\ job["mirror"] = Idle
  /\ found' = found \ {r}
  /\ job' = [job EXCEPT !["mirror"] = Job("bind", r.user, r.cust, 0)]
  /\ UNCHANGED <<hubVars, tableVars, todo, clock, mishaps, entangled>>
-----------------------------------------------------------------------------
(***************************************************************************)
(* Staff requests.                                                         *)
(***************************************************************************)
Take(w, pc, u, c) ==
  /\ job[w] = Idle
  /\ job' = [job EXCEPT ![w] = Job(pc, u, c, 0)]
  /\ TakeInHand({u})
  /\ UNCHANGED <<hubVars, tableVars, todo, found, clock, mishaps>>

\* The collision check of handleFragUnmatchedMatch, ahead of GetCustomer.
MatchRequest(w, u, c) ==
  "match" \in Staff /\ status[u] # "absent" /\ Free(c, u) /\ Take(w, "bind", u, c)

SkipRequest(w, u) ==
  "skip" \in Staff /\ status[u] # "absent" /\ Take(w, "skip", u, None)

DeferRequest(w, u) ==
  "defer" \in Staff /\ pending[u] # 0 /\ Take(w, "defer", u, None)

UnbindRequest(w, u) ==
  "unbind" \in Staff /\ mapping[u] # None /\ Take(w, "unbind", u, None)

\* The collision check of handleMembersNewCreate; the user does not exist yet.
CreateRequest(w, c) ==
  /\ "create" \in Staff
  /\ \A v \in Users : mapping[v] # c
  /\ job[w] = Idle
  /\ job' = [job EXCEPT ![w] = Job("create", None, c, 0)]
  /\ UNCHANGED <<hubVars, tableVars, todo, found, clock, mishaps, entangled>>

\* CreateUser: from here on the sync can see the user.
CreateUser(w, u) ==
  /\ job[w].pc = "create"
  /\ status[u] = "absent"
  /\ status' = [status EXCEPT ![u] = "ACTIVE"]
  /\ job' = [job EXCEPT ![w].pc = "bindNew", ![w].user = u]
  /\ UNCHANGED <<answer, tableVars, todo, found, clock, mishaps, entangled>>

\* Skip: UpdateUserStatus, then DeletePending.
Skip(w) ==
  /\ job[w].pc = "skip"
  /\ status' = [status EXCEPT ![job[w].user] = "DEACTIVATED"]
  /\ Goto(w, "unpend")
  /\ UNCHANGED <<answer, tableVars, todo, found, clock, mishaps, entangled>>

\* Snooze: the row that was read is written back with a new grace_until.
Defer(w) ==
  /\ job[w].pc = "defer"
  /\ UpsertPending(job[w].user, clock + Snooze)
  /\ Finish(w)
  /\ UNCHANGED <<hubVars, mapping, todo, found, clock, mishaps, entangled>>

\* Unbind: DeleteMapping, then UpsertPending.
Unbind(w) ==
  /\ job[w].pc = "unbind"
  /\ mapping' = [mapping EXCEPT ![job[w].user] = None]
  /\ Goto(w, "requeue")
  /\ UNCHANGED <<hubVars, pending, todo, found, clock, mishaps, entangled>>

Requeue(w) ==
  /\ job[w].pc = "requeue"
  /\ UpsertPending(job[w].user, clock + Snooze)
  /\ Finish(w)
  /\ UNCHANGED <<hubVars, mapping, todo, found, clock, mishaps, entangled>>
-----------------------------------------------------------------------------
\* The process dies; the tables stay.
Crash ==
  /\ Mishap
  /\ job' = [w \in Writers |-> Idle]
  /\ todo' = {} /\ found' = {}
  /\ entangled' = entangled \cup {u \in Users : \E w \in Writers :
                                    InHand(w, u) /\ job[w].pc \in {"unpend", "unmap"}}
  /\ UNCHANGED <<hubVars, tableVars, clock>>

Environment ==
  \/ Tick
  \/ \E u \in Users : HubStatus(u) \/ \E c \in Customers \cup {None} : Edit(u, c)

Sync == SyncStart \/ SyncMatched \/ SyncUnmatched \/ SyncError \/ \E u \in Users : SyncLook(u)

Mirror == RefreshStart \/ \E r \in found : RefreshNext(r)

Request(w) ==
  \/ \E u \in Users : \/ \E c \in Customers : MatchRequest(w, u, c)
                      \/ SkipRequest(w, u) \/ DeferRequest(w, u) \/ UnbindRequest(w, u)
                      \/ CreateUser(w, u)
  \/ \E c \in Customers : CreateRequest(w, c)

Write(w) ==
  \/ Bind(w) \/ BindNew(w) \/ Unpend(w) \/ Queue(w) \/ Unmap(w)
  \/ Skip(w) \/ Defer(w) \/ Unbind(w) \/ Requeue(w)
  \/ Rejected(w) \/ WriteFails(w)

Next ==
  \/ Environment
  \/ Sync
  \/ Mirror
  \/ \E w \in Requests : Request(w)
  \/ \E w \in Writers : Write(w)
  \/ Crash

\* The sync and the mirror refresh are loops: a run ends, whatever fails in
\* it, and the next one starts.  Staff, hub and Redpoint owe nothing.
Fairness ==
  /\ WF_vars(Sync) /\ WF_vars(Write("sync"))
  /\ WF_vars(Mirror) /\ WF_vars(Write("mirror"))

Spec == Init /\ [][Next]_vars /\ Fairness
-----------------------------------------------------------------------------
\* With the UNIQUE constraint of migration 3.
TypeOK ==
  /\ status \in [Users -> {"ACTIVE", "DEACTIVATED", "absent"}]
  /\ answer \in [Users -> Customers \cup {None}]
  /\ mapping \in [Users -> Customers \cup {None}]
  /\ \A u, v \in Users : u # v /\ mapping[u] # None => mapping[u] # mapping[v]
  /\ pending \in [Users -> Nat]
  /\ todo \subseteq Users
  /\ found \subseteq [user : Users, cust : Customers]
  /\ job \in [Writers -> Jobs]
  /\ clock \in Nat /\ mishaps \in Nat
  /\ entangled \subseteq Users

Both(u)     == mapping[u] # None /\ pending[u] # 0
Unlisted(u) == mapping[u] = None /\ pending[u] = 0

\* A user is never bound and pending at once, except between the two
\* statements of the writer that has it in hand, unless two writers worked on
\* it at a time or one was cut short between its two statements
\* (persistDecision, invariant 1).
AtMostOneTable ==
  \A u \in Users : Both(u) =>
    \/ u \in entangled
    \/ \E w \in Writers : InHand(w, u) /\ job[w].pc \in {"unpend", "unmap"}

\* The staff's own statements: u is being changed by a request.
ByStaff(u, pcs) == \E w \in Requests : InHand(w, u) /\ job[w].pc \in pcs /\ job'[w] # job[w]

\* Only the staff changes or removes a binding: the sync and the mirror never
\* touch one, except of a user somebody else worked on meanwhile.
BindingsAreKept ==
  [][\A u \in Users : mapping[u] # None /\ mapping'[u] # mapping[u] =>
       ByStaff(u, {"bind", "unbind"}) \/ u \in entangled]_vars

\* Seeing an unmatched user again never extends its grace window; only
\* snoozing or unbinding it does (persistDecision, invariant 2).  The window is
\* read before it is written: an unbind in between is overwritten, which
\* extends what it wrote only where the configured window exceeds the 7 days.
Overwritten(u) == u \in entangled /\ Grace > Snooze
GraceIsAnchored ==
  [][\A u \in Users : pending[u] # 0 /\ pending'[u] > pending[u] =>
       ByStaff(u, {"defer", "requeue"}) \/ Overwritten(u)]_vars

\* The customer the lookups yield for u is bound to another user.
Contested(u) == answer[u] # None /\ ~Free(answer[u], u)

\* Every active user ends up bound or in the queue, whatever crashes, failed
\* statements and staff requests come in between (handleFragMemberUnbind:
\* "the next sync will re-queue"), unless its customer is bound to another.
NobodyIsLost ==
  \A u \in Users :
    (Unlisted(u) /\ status[u] = "ACTIVE") ~>
      (~Unlisted(u) \/ status[u] # "ACTIVE" \/ Contested(u))
-----------------------------------------------------------------------------
(***************************************************************************)
(* Inductive invariants, proved in Binding_proofs.                         *)
(***************************************************************************)
\* Which statements a writer can be at, and that it has somebody in hand.
KindInv ==
  /\ job["sync"].pc \in {"idle", "lookup", "bind", "unpend", "queue", "unmap"}
  /\ job["mirror"].pc \in {"idle", "bind", "unpend"}
  /\ \A w \in Requests : job[w].pc \notin {"lookup", "queue", "unmap"}
  /\ \A w \in Writers : job[w].pc \notin {"idle", "create"} => job[w].user \in Users

\* A user that does not exist yet appears nowhere.
AbsentInv ==
  \A u \in Users : status[u] = "absent" =>
    mapping[u] = None /\ pending[u] = 0 /\ u \notin todo /\ ~Held(u)

\* A user who is not entangled is in one writer's hands at most.
HandInv ==
  /\ \A u \in Users \ entangled : \A w, v \in Writers : InHand(w, u) /\ InHand(v, u) => w = v
  /\ \A u \in Users \ entangled : (\E r \in found : r.user = u) => \A w \in Writers : ~InHand(w, u)
  /\ \A r, s \in found : r.user = s.user => r = s

\* What a writer has seen of the tables is still so when it writes.
Unbound(w) ==
  \/ w = "sync" /\ job[w].pc \in {"lookup", "bind", "queue", "unmap"}
  \/ w = "mirror" /\ job[w].pc = "bind"
  \/ job[w].pc \in {"defer", "requeue", "bindNew"}
SeenInv ==
  \A u \in Users \ entangled :
    /\ (\E r \in found : r.user = u) => mapping[u] = None
    /\ \A w \in Writers : InHand(w, u) /\ Unbound(w) => mapping[u] = None
    /\ \A w \in Writers : InHand(w, u) /\ job[w].pc = "bindNew" => pending[u] = 0

\* The grace_until the sync is about to write is not later than the one in
\* the table, nor, where the staff's window is the longer one, than one the
\* staff may still write.
GraceInv ==
  /\ Grace <= Snooze =>
       /\ \A u \in Users : pending[u] <= clock + Snooze
       /\ job["sync"].pc = "queue" => job["sync"].grace <= clock + Snooze
  /\ job["sync"].pc = "queue" =>
       LET u == job["sync"].user
       IN  pending[u] # 0 => job["sync"].grace <= pending[u] \/ Overwritten(u)
=============================================================================

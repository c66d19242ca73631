-------------------------------- MODULE Outage --------------------------------
(***************************************************************************)
(* What a call to Redpoint goes through, and the callers that share the    *)
(* client: the denied-tap rechecks of Breaker, each looking up one         *)
(* customer under a context of its own, and the walk of the cache refresh, *)
(* which looks up every customer, one after the other and without a        *)
(* deadline.  Each lookup is execWithRetry: it waits for the pacer, sends, *)
(* and after a transient error backs off and tries again.  The pacer's     *)
(* wait sleeps outside its mutex and looks again when it wakes, so callers *)
(* compete for the next token; a 429 answered to one of them pauses all.   *)
(*                                                                         *)
(* The unit of time is that of one token or more (Rate tokens a tick), so  *)
(* the jittered backoff, a fraction of a second, is less than a tick.  The *)
(* bucket is refilled when it is looked at; here it is at every tick,      *)
(* which is the same.  pausedFor is pausedUntil - now while that is        *)
(* positive.                                                               *)
(***************************************************************************)
EXTENDS Breaker

CONSTANTS
  Walker,           \* the caller that refreshes the cache
  Customers,        \* how many customers it looks up
  Walks,            \* bound: the refreshes that begin
  Mixes,            \* bound: which callers take part, a set of sets of them
  AbortAfter,       \* outageAbortAfter (25)
  MaxAttempts,      \* attempts of a lookup (3)
  Rate, Burst,      \* tokens a tick; capacity of the bucket
  RetryAfters,      \* ticks a Retry-After may ask for; 0 is "none or garbage"
  DefaultCooldown,  \* ticks of a pause without a usable Retry-After
  Horizon           \* bound of the history: ticks after a cooldown it covers

ASSUME OutageAssumption ==
  /\ Walker \notin Taps /\ Mixes \in SUBSET SUBSET (Taps \cup {Walker})
  /\ Customers \in Nat \ {0} /\ Walks \in Nat /\ AbortAfter \in Nat \ {0}
  /\ MaxAttempts \in Nat \ {0}
  /\ Rate \in Nat \ {0} /\ Burst \in Nat \ {0}
  /\ RetryAfters \in SUBSET Nat /\ 0 \in RetryAfters
  /\ DefaultCooldown \in Nat \ {0}
  /\ Horizon \in Nat

VARIABLES
  tokens, pausedFor,  \* the pacer
  call,               \* the lookup of a caller: where it is, attempt, timer
  walk,               \* RefreshCustomers of the cache refresh
  began,              \* how many refreshes began
  part,               \* the callers that take part
  first,              \* history: tokens there were when it starts
  granted, since      \* history: requests let through and ticks since then

pacerVars  == <<tokens, pausedFor, first, granted, since>>
walkVars   == <<walk, began, part>>
outageVars == <<vars, pacerVars, call, walkVars>>

Callers == Taps \cup {Walker}
Phases  == {"none", "pacing", "sent", "backoff"}
None    == [phase |-> "none", tries |-> 0, wait |-> 0]
AtRest  == [todo |-> 0, reached |-> 0, failed |-> 0, streak |-> 0, pass |-> 0]

OutageTypeOK ==
  /\ TypeOK
  /\ tokens \in 0..Burst /\ pausedFor \in Nat
  /\ call \in [Callers -> [phase : Phases, tries : 0..MaxAttempts, wait : Nat]]
  /\ walk \in [todo : 0..Customers, reached : 0..Customers, failed : 0..Customers,
               streak : 0..Customers, pass : 0..2]
  /\ began \in 0..Walks /\ part \in SUBSET Callers
  /\ first \in Nat /\ granted \in Nat /\ since \in 0..Horizon
  /\ \A t \in Taps : call[t].phase # "none" <=> at[t] = "calling"

(* newPacer starts with a full bucket.                                      *)
OutageInit ==
  /\ Init
  /\ tokens = Burst /\ pausedFor = 0
  /\ call = [c \in Callers |-> None]
  /\ walk = AtRest /\ began = 0 /\ part \in Mixes
  /\ first = Burst /\ granted = 0 /\ since = 0

-----------------------------------------------------------------------------
(* The pacer, whose operations run under its mutex.                         *)

\* The bucket keeps what it had.
pauseUndrained(r) ==
  LET d == IF r = 0 THEN DefaultCooldown ELSE r
  IN  IF d > pausedFor
      THEN /\ pausedFor' = d
           /\ first' = 1 /\ granted' = 0 /\ since' = 0
           /\ UNCHANGED tokens
      ELSE UNCHANGED pacerVars
(* pause: it opens the cooldown or extends it, never shortens it, and       *)
(* leaves one token, refilled from the end of the cooldown on.              *)
pause(r) ==
  LET d == IF r = 0 THEN DefaultCooldown ELSE r
  IN  IF d > pausedFor
      THEN /\ pausedFor' = d /\ tokens' = 1
           /\ first' = 1 /\ granted' = 0 /\ since' = 0
      ELSE UNCHANGED pacerVars

(* refillLocked, a tick at a time.                                          *)
refill ==
  /\ pausedFor' = IF pausedFor > 0 THEN pausedFor - 1 ELSE 0
  /\ tokens' = IF pausedFor > 0 THEN tokens
               ELSE IF tokens + Rate < Burst THEN tokens + Rate ELSE Burst
  /\ since' = IF pausedFor > 0 \/ since = Horizon THEN since ELSE since + 1
  /\ UNCHANGED <<first, granted>>

Moves(c, p, n, w) == call' = [call EXCEPT ![c] = [phase |-> p, tries |-> n, wait |-> w]]

(* wait, at the top of its loop: the caller is awake.                       *)
Looks(c) == call[c].phase = "pacing" /\ call[c].wait = 0

Granted(c) ==
  /\ Looks(c) /\ pausedFor = 0 /\ tokens >= 1
  /\ tokens' = tokens - 1
  /\ granted' = IF since = Horizon THEN granted ELSE granted + 1
  /\ Moves(c, "sent", call[c].tries, 0)
  /\ UNCHANGED <<vars, pausedFor, first, since, walkVars>>

SleepsOutCooldown(c) ==
  /\ Looks(c) /\ pausedFor > 0
  /\ Moves(c, "pacing", call[c].tries, pausedFor)
  /\ UNCHANGED <<vars, pacerVars, walkVars>>

SleepsForToken(c) ==
  /\ Looks(c) /\ pausedFor = 0 /\ tokens = 0
  /\ Moves(c, "pacing", call[c].tries, 1)
  /\ UNCHANGED <<vars, pacerVars, walkVars>>

-----------------------------------------------------------------------------
(* The walk: RefreshCustomers over all customers, with refreshOne for each. *)

Looking(c) == Moves(c, "pacing", 1, 0)

WalkBegins ==
  /\ Walker \in part /\ walk.pass = 0 /\ began < Walks
  /\ walk' = [AtRest EXCEPT !.todo = Customers, !.pass = 1]
  /\ began' = began + 1
  /\ UNCHANGED <<vars, pacerVars, call, part>>

GivesUp == walk.pass = 1 /\ walk.streak >= AbortAfter /\ walk.reached = 0

WalkLooksUp ==
  /\ call[Walker] = None /\ walk.todo > 0 /\ ~GivesUp
  /\ Looking(Walker)
  /\ UNCHANGED <<vars, pacerVars, walkVars>>

(* Nothing but failures: Redpoint is taken to be down, the rest fails too.  *)
WalkAborts ==
  /\ call[Walker] = None /\ walk.todo > 0 /\ GivesUp
  /\ walk' = [walk EXCEPT !.failed = @ + walk.todo, !.todo = 0]
  /\ UNCHANGED <<vars, pacerVars, call, began, part>>

\* The list of failures is kept for the second pass.
SecondPassKeeps == [walk EXCEPT !.todo = walk.failed, !.streak = 0, !.pass = 2]
SecondPass == [walk EXCEPT !.todo = walk.failed, !.failed = 0, !.streak = 0, !.pass = 2]

WorthAnother == walk.pass = 1 /\ walk.failed \in 1..(Customers - 1)

WalkTurns ==
  /\ call[Walker] = None /\ walk.pass > 0 /\ walk.todo = 0 /\ WorthAnother
  /\ walk' = SecondPass
  /\ UNCHANGED <<vars, pacerVars, call, began, part>>

WalkEnds ==
  /\ call[Walker] = None /\ walk.pass > 0 /\ walk.todo = 0 /\ ~WorthAnother
  /\ walk' = AtRest
  /\ UNCHANGED <<vars, pacerVars, call, began, part>>

(* Its context is cancelled: whatever has no answer counts as failed.       *)
WalkCancelled ==
  /\ walk.pass > 0
  /\ walk' = [walk EXCEPT !.failed = @ + walk.todo, !.todo = 0, !.pass = 2]
  /\ call' = [call EXCEPT ![Walker] = None]
  /\ UNCHANGED <<vars, pacerVars, began, part>>

-----------------------------------------------------------------------------
(* The lookups.                                                             *)

OutageDeny(t) == t \in part /\ Deny(t) /\ UNCHANGED <<pacerVars, call, walkVars>>
OutageShort(t) == ShortCircuit(t) /\ UNCHANGED <<pacerVars, call, walkVars>>
OutageCall(t) == Call(t) /\ Looking(t) /\ UNCHANGED <<pacerVars, walkVars>>

(* The lookup of c ends: with an answer ("no such customer" is one) or      *)
(* among the failed ids.  A tap reports it to the breaker.                  *)
Ends(c, answered) ==
  /\ call' = [call EXCEPT ![c] = None]
  /\ IF c \in Taps
     THEN /\ IF answered THEN Answered(c) ELSE Failed(c)
          /\ UNCHANGED walkVars
     ELSE /\ walk' = IF answered
                     THEN [walk EXCEPT !.todo = @ - 1, !.reached = @ + 1, !.streak = 0]
                     ELSE [walk EXCEPT !.todo = @ - 1, !.failed = @ + 1,
                                       !.streak = IF walk.pass = 1 THEN @ + 1 ELSE @]
          /\ UNCHANGED <<vars, began, part>>

(* A retryable error: back off, for a Retry-After at least, and go again.   *)
Retries(c, r) ==
  IF call[c].tries < MaxAttempts
  THEN /\ Moves(c, "backoff", call[c].tries, r)
       /\ UNCHANGED <<vars, walkVars>>
  ELSE Ends(c, FALSE)

Replied(c) == call[c].phase = "sent" /\ Ends(c, TRUE) /\ UNCHANGED pacerVars

(* 429: the window is closed for everybody on this key.                     *)
RateLimited(c, r) == call[c].phase = "sent" /\ pause(r) /\ Retries(c, r)

(* A transport error or 5xx, which may carry a Retry-After too.             *)
Transient(c, r) == call[c].phase = "sent" /\ Retries(c, r) /\ UNCHANGED pacerVars

(* Another 4xx, a GraphQL error, an answer that does not parse.             *)
Permanent(c) == call[c].phase = "sent" /\ Ends(c, FALSE) /\ UNCHANGED pacerVars

Resumes(c) ==
  /\ call[c].phase = "backoff" /\ call[c].wait = 0
  /\ Moves(c, "pacing", call[c].tries + 1, 0)
  /\ UNCHANGED <<vars, pacerVars, walkVars>>

(* The context of a tap ends, wherever its lookup is.                       *)
Expires(t) ==
  /\ call[t].phase # "none" /\ age[t] = Timeout
  /\ Ends(t, FALSE)
  /\ UNCHANGED pacerVars

OutageReset == ResetBreaker /\ UNCHANGED <<pacerVars, call, walkVars>>

OutageTick ==
  /\ Tick
  /\ refill
  /\ call' = [c \in Callers |-> [call[c] EXCEPT !.wait = IF @ > 0 THEN @ - 1 ELSE 0]]
  /\ UNCHANGED walkVars

OutageNext ==
  \/ \E t \in Taps : OutageDeny(t) \/ OutageShort(t) \/ OutageCall(t) \/ Expires(t)
  \/ \E c \in Callers :
       \/ Granted(c) \/ SleepsOutCooldown(c) \/ SleepsForToken(c)
       \/ Replied(c) \/ Permanent(c) \/ Resumes(c)
       \/ \E r \in RetryAfters : RateLimited(c, r) \/ Transient(c, r)
  \/ WalkBegins \/ WalkLooksUp \/ WalkAborts \/ WalkTurns \/ WalkEnds \/ WalkCancelled
  \/ OutageReset
  \/ OutageTick

(* Goroutines run, the HTTP client has a timeout, a context ends and time   *)
(* passes.  Nobody has to tap and Redpoint may answer what it likes.        *)
Proceeds(c) ==
  \/ Granted(c) \/ SleepsOutCooldown(c) \/ SleepsForToken(c) \/ Resumes(c)
  \/ Replied(c) \/ Permanent(c)
  \/ \E r \in RetryAfters : RateLimited(c, r) \/ Transient(c, r)
OutageFairness ==
  /\ \A t \in Taps : WF_outageVars(OutageShort(t) \/ OutageCall(t))
  /\ \A t \in Taps : WF_outageVars(Proceeds(t) \/ Expires(t))
  /\ WF_outageVars(Proceeds(Walker))
  /\ WF_outageVars(WalkLooksUp \/ WalkAborts \/ WalkTurns \/ WalkEnds)
  /\ WF_outageVars(OutageTick)

OutageSpec == OutageInit /\ [][OutageNext]_outageVars /\ OutageFairness

-----------------------------------------------------------------------------
(* Properties.                                                              *)

(* Nobody sends during a cooldown, and after it the callers together get    *)
(* one request and then Rate a tick, however many had slept through it and  *)
(* whatever 429s still come in for requests that were under way             *)
(* (pacer.go:119-122, "resuming with a full burst right after a 429 is      *)
(* exactly how you earn the next one").                                     *)
BudgetIsKept ==
  since < Horizon =>
    granted <= IF pausedFor > 0 THEN 0 ELSE first + Rate * since

(* RefreshCustomers accounts for every customer exactly once, through the   *)
(* abort, the second pass and a cancellation (client.go:712, "mutually      *)
(* exclusive and together cover every requested ID").                       *)
EveryCustomerOnce ==
  walk.pass > 0 => walk.todo + walk.reached + walk.failed = Customers
=============================================================================

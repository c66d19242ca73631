------------------------------ MODULE Schedules ------------------------------
(***************************************************************************)
(* When things happen: the waits of the scheduler loops (jobs.Loop), of    *)
(* the status sync (statusync.scheduleNext) and of the Redpoint retries,   *)
(* when a refresh counts as failed (cache.RefreshAllStatuses), and when the *)
(* watchdog speaks (watchdog.check, watchdog.condition).  Lifecycle and    *)
(* Outage leave these times open; here they are compared with what they    *)
(* should be over every small input.                                        *)
(***************************************************************************)
EXTENDS Integers, Sequences

Larger(a, b) == IF a < b THEN b ELSE a

-----------------------------------------------------------------------------
(* Scheduler loops.                                                         *)

\* nextBackoff; a ceiling of 0 is no ceiling.
NextBackoff(current, start, ceiling) ==
  CASE start = 0 -> 0
    [] start > 0 /\ current = 0 -> start
    [] OTHER -> IF ceiling > 0 /\ 2 * current > ceiling THEN ceiling ELSE 2 * current

\* Loop: the backoff after a run, and the wait it leads to before jitter.
AfterRun(backoff, failed, start, ceiling) ==
  IF failed THEN NextBackoff(backoff, start, ceiling) ELSE 0

LoopWait(backoff, interval) == IF backoff > 0 THEN backoff ELSE interval

\* The backoff after n failures in a row.
Backoffs(start, ceiling, n) ==
  LET b[i \in 0..n] == IF i = 0 THEN 0 ELSE AfterRun(b[i-1], TRUE, start, ceiling) IN b[n]

\* Failures of a loop are retried after start, 2 start, 4 start, ... up to the
\* ceiling, and after a success at the interval again (app/scheduler.go: 5 s up
\* to 1 h for jobs that run once a day).
ASSUME BackoffAssumption ==
  \A start \in 1..3, ceiling \in {0} \cup 3..20, n \in 1..6, interval \in {5, 50} :
    LET doubled == start * 2^(n - 1) IN
    /\ Backoffs(start, ceiling, n) =
         IF ceiling > 0 /\ doubled > ceiling THEN ceiling ELSE doubled
    /\ LoopWait(AfterRun(Backoffs(start, ceiling, n), FALSE, start, ceiling), interval) = interval
    /\ LoopWait(Backoffs(0, ceiling, n), interval) = interval

-----------------------------------------------------------------------------
(* The daily status sync.  Instants are hours since a local midnight; the  *)
(* clock of the host is set forward or back by an hour at clock.at.         *)

Local(clock, t) == IF t < clock.at THEN t ELSE t + clock.shift
Instant(clock, l) == IF l < clock.at THEN l ELSE l - clock.shift

\* scheduleNext with SyncTimeLocal: today's occurrence, or 24 hours on.
DailyNext(clock, hour, now, minLead) ==
  LET today == Instant(clock, 24 * (Local(clock, now) \div 24) + hour)
      next == IF today > now THEN today ELSE today + 24
  IN IF minLead > 0 /\ next - now < minLead THEN next + 24 ELSE next

\* scheduleNext without it.
IntervalNext(now, interval, minLead) == now + Larger(interval, minLead)

Clocks == [at : {26}, shift : {-1, 0, 1}]

\* The next run is the first occurrence of the hour that leaves the lead.
\* Where the clock of the host is set on the day or before the run, it is at
\* most an hour off, for the code adds 24 hours, not a day; at the end of a day
\* of 25 hours it may not even lie ahead.
ASSUME DailyAssumption ==
  \A clock \in Clocks, hour \in {0, 3, 23}, now \in 0..72, minLead \in {0, 2} :
    LET next == DailyNext(clock, hour, now, minLead)
        midnight == Instant(clock, 24 * (Local(clock, now) \div 24))
        fits(t) == t > now /\ t >= now + minLead /\ Local(clock, t) % 24 = hour
    IN /\ next >= now + minLead /\ next - now <= 24 + minLead
       /\ ~(midnight < clock.at /\ clock.at <= next) =>
            fits(next) /\ \A t \in now..next - 1 : ~fits(t)
       /\ (Local(clock, next) - hour) % 24 \in {0, 1, 23}

-----------------------------------------------------------------------------
(* The watchdog.                                                            *)

\* check: how old the last completed sync is; the time of the start counts
\* when the process has seen none (the gauge is not kept over a restart).
SyncAge(now, last, started) == IF last > 0 THEN now - last ELSE now - started

Stale(age, limit) == age > limit
SyncStalenessMax == 26

\* A daily sync that takes up to two hours is never stale while it succeeds,
\* and is stale before the next one begins when a single run of it fails.
ASSUME StalenessAssumption ==
  \A clock \in Clocks, hour \in {0, 3, 23}, begun \in 1..48, took, takes \in 0..2 :
    Local(clock, begun) % 24 = hour =>
      LET done == begun + took
          next == DailyNext(clock, hour, done, 0)
          after == DailyNext(clock, hour, next + takes, 0)
      IN /\ ~Stale(SyncAge(next + takes, done, 0), SyncStalenessMax)
         /\ ~(begun < clock.at /\ clock.at <= after) =>
              Stale(SyncAge(after, done, 0), SyncStalenessMax)

\* condition: one observation of one condition.
Condition(st, active, now, renotify) ==
  CASE active /\ (~st.active \/ now - st.last >= renotify) ->
         [active |-> TRUE, last |-> now, sends |-> "alert"]
    [] ~active /\ st.active -> [st EXCEPT !.active = FALSE, !.sends = "recovery"]
    [] OTHER -> [st EXCEPT !.sends = "nothing"]

\* The states after the observations of a run of the process; whether a message
\* arrives is not looked at (Send's error is dropped).
Watched(seen, renotify) ==
  LET w[i \in 0..Len(seen)] ==
        IF i = 0 THEN [active |-> FALSE, last |-> 0, sends |-> "nothing"]
        ELSE Condition(w[i-1], seen[i], i, renotify)
  IN w

Ticks == 1..6

\* A condition that lasts is told at once and then every renotify ticks,
\* neither later nor more often, and its end is told exactly once.
ASSUME AlertsAssumption ==
  \A seen \in [Ticks -> BOOLEAN], renotify \in 1..3 :
    LET w == Watched(seen, renotify)
        \* the tick the present run of equal observations began at
        Since(i) == CHOOSE j \in 1..i :
                      /\ \A k \in j..i : seen[k] = seen[i]
                      /\ j > 1 => seen[j-1] # seen[i]
    IN \A i \in Ticks :
         w[i].sends = CASE seen[i] /\ (i - Since(i)) % renotify = 0 -> "alert"
                        [] ~seen[i] /\ Since(i) = i /\ i > 1 -> "recovery"
                        [] OTHER -> "nothing"

-----------------------------------------------------------------------------
(* Retries against Redpoint, in units of a twentieth of a second.           *)

BackoffBase == 4
MaxAttempts == 3

\* backoffFor: the waits there may be after an attempt; a quarter either way.
BackoffFor(attempt) ==
  LET base == BackoffBase * 2^(Larger(attempt, 1) - 1)
  IN (base - base \div 4)..(base + base \div 4 - 1)

\* parseRetryAfter: a number of seconds or a date; 0 for anything else, and for
\* what lies in the past.
ParseRetryAfter(header, now) ==
  CASE header.kind = "seconds" -> Larger(header.value, 0)
    [] header.kind = "date" -> Larger(header.value - now, 0)
    [] OTHER -> 0

\* exec's retry loop: the server's hint lengthens the wait, it never shortens it.
RetryWait(wait, hint) == Larger(wait, hint)

\* Two waits of a call without hints never come in the wrong order, whatever the
\* jitter, and a hint of 0 or rubbish does not make a wait vanish.
ASSUME RetriesAssumption ==
  /\ \A n \in 1..MaxAttempts, m \in 1..MaxAttempts :
       n < m => \A a \in BackoffFor(n), b \in BackoffFor(m) : a < b
  /\ \A n \in 0..MaxAttempts, now \in 3..4,
        header \in [kind : {"none", "seconds", "date", "rubbish"}, value : -1..9] :
       \A wait \in BackoffFor(n) :
         LET hint == ParseRetryAfter(header, now) IN
         RetryWait(wait, hint) >= Larger(BackoffBase - BackoffBase \div 4, hint)

-----------------------------------------------------------------------------
(* When a refresh of all statuses has failed.                               *)

\* RefreshAllStatuses: of the customers asked about, those not reached; the
\* tolerance in hundredths, 5 unless configured.
Tolerance(configured) == IF configured > 0 THEN configured ELSE 5

RefreshFails(asked, failed, configured) ==
  /\ failed > 0
  /\ \/ asked - failed = 0
     \/ 100 * failed > Tolerance(configured) * asked

\* No tolerance makes a refresh that reached nobody a success, and one that
\* reached more never fails where one that reached fewer succeeds.
ASSUME RefreshAssumption ==
  \A asked \in 1..30, configured \in {0, 1, 50, 100} : \A failed \in 0..asked :
    /\ RefreshFails(asked, asked, configured) /\ ~RefreshFails(asked, 0, configured)
    /\ RefreshFails(asked, failed, configured) =>
         \A more \in failed..asked : RefreshFails(asked, more, configured)

=============================================================================

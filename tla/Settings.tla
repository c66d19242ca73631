------------------------------ MODULE Settings ------------------------------
(***************************************************************************)
(* Where a setting comes from and which settings the bridge starts with    *)
(* (config.Load, config.validate), and what the parts make of those that   *)
(* validate accepts.  The other modules have settings as constants under   *)
(* assumptions; here is shown which of the assumptions every accepted      *)
(* configuration meets.  The capabilities are in DoorAccess.               *)
(***************************************************************************)
EXTENDS Schedules, FiniteSets

-----------------------------------------------------------------------------
(* One setting: the environment of the process, the .env file, the config   *)
(* file, the default.                                                       *)

\* loadDotEnv: the file fills in what the process was started without.
Raw(env, dotenv) == IF env # "" THEN env ELSE dotenv

\* envStr, envInt, envBool, envDuration, envStringSlice: texts is the texts of
\* that kind that can be read, with their values; any other changes nothing.
Override(value, raw, texts) == IF raw \in DOMAIN texts THEN texts[raw] ELSE value

\* Load, of one setting.
Load(env, dotenv, file, default, texts) ==
  Override(IF file = "absent" THEN default ELSE file, Raw(env, dotenv), texts)

\* A sample of texts, of which those of Readable can be read as the kind asks.
Texts == {"", "one", "two", "typo"}
Readable == [one |-> "1", two |-> "2"]

\* The most specific layer wins that says anything.  A text that cannot be read
\* is passed over without a word, and hides the one in .env all the same; the
\* environment cannot make a setting empty.
ASSUME LayersAssumption ==
  \A env, dotenv \in Texts, file \in {"absent", "0", "1", ""} :
    LET value == Load(env, dotenv, file, "default", Readable)
        below == IF file = "absent" THEN "default" ELSE file
    IN /\ env \in DOMAIN Readable => value = Readable[env]
       /\ env = "" /\ dotenv \in DOMAIN Readable => value = Readable[dotenv]
       /\ env = "typo" \/ (env = "" /\ dotenv \in {"", "typo"}) => value = below
       /\ value = "" => file = ""

-----------------------------------------------------------------------------
(* The settings that are checked.                                           *)

\* ParseHHMM of the parts of the text; a part that is no number is -1 here.
IsHHMM(parts) == Len(parts) = 2 /\ parts[1] \in 0..23 /\ parts[2] \in 0..59

MaxPort == 65535

\* Load: what it derives from the settings.
Interval(hours) == IF hours > 0 THEN hours ELSE 0
ControlPort(c) == IF c.control = 0 /\ c.port > 0 THEN c.port + 1 ELSE c.control

Required == {"UNIFI_API_TOKEN", "REDPOINT_API_KEY", "REDPOINT_FACILITY_CODE",
             "STAFF_PASSWORD", "ADMIN_API_KEY"}

\* validate, but for the capabilities.
Accepted(c) ==
  /\ Required \subseteq c.given
  /\ c.timeLocal # << >> => IsHHMM(c.timeLocal)
  /\ c.allowNew => c.policies # {}
  /\ c.graceDays >= 0
  /\ c.staleness >= 0
  /\ ControlPort(c) \in 1..MaxPort
  /\ ControlPort(c) # c.port

\* statusync.New, persistDecision, newPacer, RefreshAllStatuses: the values the
\* parts put in the place of those they cannot work with.
GraceDays(c) == IF c.graceDays <= 0 THEN 7 ELSE c.graceDays
PerRun(configured) == IF configured <= 0 THEN 10 ELSE configured
Burst(c) == IF c.burst < 1 THEN 1 ELSE c.burst

\* jobs.Loop, unifimirror.New, scheduleNext: the waits that follow a run which
\* succeeded; none where the loop stops for good.
RunsAgainAfter(task, c) ==
  CASE task = "mirror" -> {IF Interval(c.hours) = 0 THEN 24 ELSE Interval(c.hours)}
    [] task = "status" /\ c.timeLocal = << >> -> {IntervalNext(0, Interval(c.hours), 0)}
    [] task = "status" /\ c.timeLocal # << >> ->
         {DailyNext([at |-> 0, shift |-> 0], c.timeLocal[1], now, 0) - now : now \in 0..23}
    [] OTHER -> {LoopWait(0, Interval(c.hours))} \ {0}

JobLoops == {"directory", "ingest", "refresh"}

Sample ==
  [given : {Required, Required \ {"ADMIN_API_KEY"}}, allowNew : BOOLEAN,
   policies : SUBSET {"members"}, graceDays : {-1, 0, 7}, staleness : {-1, 0, 2},
   timeLocal : {<< >>, <<3, 0>>, <<24, 0>>, <<3>>, <<-1, 0>>}, hours : {-1, 0, 6},
   port : {0, 3500, 65535, 70000}, control : {-1, 0, 3500, 65536}, burst : {0, 5}]

\* A configuration that is otherwise in order and names no control port starts
\* exactly when the port after its own is one; a control port that is named is
\* all that is looked at, the other port may be no port at all.
ASSUME PortsAssumption ==
  \A c \in Sample : Accepted([c EXCEPT !.port = 3500, !.control = 0]) =>
    /\ c.control = 0 => (Accepted(c) <=> c.port \in 1..MaxPort - 1)
    /\ c.control = 3500 => (Accepted(c) <=> c.port # 3500)

\* What an accepted configuration leaves to the other modules: a user created by
\* staff has a door policy, a grace window is a day at least (no setting makes
\* the window nothing, though 0 is accepted for that), the guard and the pacer
\* let one through at least.
ASSUME AcceptedAssumption ==
  \A c \in Sample, configured \in -1..2 : Accepted(c) =>
    /\ c.allowNew => c.policies # {}
    /\ GraceDays(c) >= 1 /\ (c.graceDays = 0 => GraceDays(c) = 7)
    /\ Burst(c) >= 1 /\ PerRun(configured) >= 1

\* A positive interval brings every job back after it, and a time of day brings
\* the status sync back within a day, whatever the interval.  An interval of 0
\* or less is accepted as well: three loops then run once and stop, the user
\* mirror runs daily, and the status sync never rests.
ASSUME IntervalAssumption ==
  \A c \in Sample : Accepted(c) =>
    /\ c.hours > 0 => \A task \in JobLoops \cup {"mirror"} : RunsAgainAfter(task, c) = {c.hours}
    /\ c.timeLocal # << >> => RunsAgainAfter("status", c) \subseteq 1..24
    /\ c.timeLocal = << >> => RunsAgainAfter("status", c) = {Interval(c.hours)}
    /\ c.hours <= 0 => /\ \A task \in JobLoops : RunsAgainAfter(task, c) = {}
                       /\ RunsAgainAfter("mirror", c) = {24}
=============================================================================

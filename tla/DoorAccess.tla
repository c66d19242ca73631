----------------------------- MODULE DoorAccess -----------------------------
(***************************************************************************)
(* Whether a resolved member may pass a door (store.DoorPolicy, and the    *)
(* part of checkin.HandleEvent that applies it, before and after the live  *)
(* recheck), and what the settings allow the bridge to do about it         *)
(* (config.validate and the capabilities).  TapPipeline, Membership and     *)
(* Outage have the outcomes as choices and constants; here are the         *)
(* decisions, compared over every member, policy and setting of a sample.  *)
(***************************************************************************)
EXTENDS Naturals, Sequences, FiniteSets

-----------------------------------------------------------------------------
(* Members and policies.                                                    *)

NoPolicy == [kind |-> "none"]

\* Member.IsAllowed, Member.DenyReason.
IsAllowed(m) == m.active /\ m.badge = "ACTIVE"

BadgeReasons == [FROZEN |-> "membership frozen", EXPIRED |-> "membership expired",
                 PENDING_SYNC |-> "pending initial sync", DELETED |-> "membership deleted"]

DenyReason(m) ==
  CASE ~m.active -> "account inactive"
    [] m.active /\ m.badge \in DOMAIN BadgeReasons -> BadgeReasons[m.badge]
    [] OTHER -> "badge status"

Allow == [allowed |-> TRUE, reason |-> ""]
Denied(reason) == [allowed |-> FALSE, reason |-> reason]

\* AllowedBadgeList: the parts of the list that are not blank, in any order;
\* they are compared without case.
AllowedBadgeList(list) == {list[i] : i \in DOMAIN list} \ {""}

\* EvaluateAccess.  Of the kinds of a policy only "open" and "staff_only" are
\* looked at; RequireWaiver is not.
EvaluateAccess(policy, m) ==
  LET badges == AllowedBadgeList(policy.badges) IN
  CASE policy.kind = "open" -> Allow
    [] policy.kind = "staff_only" -> Denied("staff-only door")
    [] policy.kind \notin {"open", "staff_only"} /\ ~IsAllowed(m) -> Denied(DenyReason(m))
    [] policy.kind \notin {"open", "staff_only"} /\ IsAllowed(m) /\ badges # {} /\ m.badgeName \notin badges ->
         Denied("membership type not allowed")
    [] OTHER -> Allow

\* HandleEvent: without a policy of the door, the member decides.
Verdict(policy, m) ==
  IF policy # NoPolicy THEN EvaluateAccess(policy, m)
  ELSE IF IsAllowed(m) THEN Allow ELSE Denied(DenyReason(m))

\* A denied member is looked up again, and judged again by what it became; a
\* tap denied for the second time keeps its first reason.
AfterRecheck(policy, m, renewed) ==
  IF Verdict(policy, renewed).allowed THEN Allow ELSE Verdict(policy, m)

Members ==
  [active : BOOLEAN, badgeName : {"gold", "day"},
   badge : {"ACTIVE", "FROZEN", "EXPIRED", "PENDING_SYNC", "DELETED", ""}]

Policies ==
  [kind : {"membership", "waiver", "staff_only", "open"}, waiver : BOOLEAN,
   badges : {<< >>, <<"">>, <<"gold">>, <<"", "day">>, <<"gold", "day">>}]

\* Whom a door with policy p lets pass.
Admits(p) == {m \in Members : Verdict(p, m).allowed}

\* A policy other than "open" only narrows: it lets nobody pass who has no
\* valid membership, whatever its list says.
ASSUME PoliciesNarrowAssumption ==
  \A p \in Policies : p.kind # "open" => Admits(p) \subseteq Admits(NoPolicy)

\* A list of separators restricts nobody; it reads like no list at all.
ASSUME BlankListAssumption ==
  \A p, q \in Policies :
    AllowedBadgeList(p.badges) = {} /\ AllowedBadgeList(q.badges) = {} /\ p.kind = q.kind =>
      Admits(p) = Admits(q)

\* A recheck opens a door to a renewed member exactly where the policy would
\* have opened it to that member, and never to the others; a door no status
\* can open stays shut.
ASSUME RenewalAssumption ==
  \A p \in Policies \cup {NoPolicy}, m \in Members, renewed \in Members :
    renewed.badgeName = m.badgeName /\ ~Verdict(p, m).allowed =>
      /\ AfterRecheck(p, m, renewed).allowed <=> renewed \in Admits(p)
      /\ ~AfterRecheck(p, m, renewed).allowed => AfterRecheck(p, m, renewed) = Verdict(p, m)

-----------------------------------------------------------------------------
(* The settings.                                                            *)

\* config.validate, of the settings that decide whether the bridge acts.
Valid(s) ==
  /\ s.checkins \in {"", "true", "false"}
  /\ s.writes \in {"", "off", "activate-only", "full"}
  /\ s.unlock \in {"", "true", "false"}
  /\ s.instance = "stage" =>
       /\ s.shadow
       /\ s.checkins # "true" /\ s.unlock # "true" /\ s.writes \notin {"activate-only", "full"}

\* An override wins; without one a capability is live outside shadow mode.
Live(override, shadow) == override = "true" \/ (override # "false" /\ ~shadow)

CheckinRecordingLive(s) == Live(s.checkins, s.shadow)
RecheckUnlockLive(s) == Live(s.unlock, s.shadow)
StatusWritesMode(s) ==
  CASE s.writes # "" -> s.writes
    [] s.writes = "" /\ s.shadow -> "off"
    [] OTHER -> "full"

\* ladderRungs: what the health page shows as live.
LadderRungs(s) ==
  (IF CheckinRecordingLive(s) THEN {1} ELSE {}) \cup
  (IF StatusWritesMode(s) \in {"activate-only", "full"} THEN {2} ELSE {}) \cup
  (IF StatusWritesMode(s) = "full" THEN {3} ELSE {}) \cup
  (IF RecheckUnlockLive(s) THEN {4} ELSE {})

\* Overrides may be anything an operator types.
Settings ==
  [instance : {"stage", "prod", ""}, shadow : BOOLEAN,
   checkins : {"", "true", "false", "ture"}, unlock : {"", "true", "false", "ture"},
   writes : {"", "off", "activate-only", "full", "ful"}]

\* A stage instance that boots does nothing to the doors, the hub or Redpoint
\* (config.go: "stage observes, prod acts"); shadow mode without overrides holds
\* every rung, its absence without overrides none.
ASSUME StageObservesAssumption ==
  \A s \in Settings : Valid(s) =>
    /\ s.instance = "stage" => LadderRungs(s) = {}
    /\ s.shadow /\ {s.checkins, s.unlock, s.writes} = {""} => LadderRungs(s) = {}
    /\ ~s.shadow /\ {s.checkins, s.unlock, s.writes} = {""} => LadderRungs(s) = 1..4
    /\ 3 \in LadderRungs(s) => 2 \in LadderRungs(s)
=============================================================================

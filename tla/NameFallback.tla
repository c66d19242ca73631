---------------------------- MODULE NameFallback ----------------------------
(* One pass of the matching phase over a user of the hub who is not bound:  *)
(* whoever the user is and whatever the directory holds.                    *)
EXTENDS Matching

VARIABLES
  ua,        \* the user, as the hub lists it
  dir,       \* the customers, at Redpoint and in the directory
  decision   \* what persistDecision writes

vars == <<ua, dir, decision>>

Init ==
  /\ ua \in Clean
  /\ dir \in Directories
  /\ decision = Parked("unseen")

\* runMatchingPhase comes to the user.
Syncs ==
  /\ decision = Parked("unseen")
  /\ decision' = MatchOne(ua, dir, dir)
  /\ UNCHANGED <<ua, dir>>

Spec == Init /\ [][Syncs]_vars

\* A user bound by name has the name of the customer: the search of the
\* directory is for equal names (docs/architecture-review.md:124), not for
\* names that begin alike.
AutoNameIsExact ==
  decision.source = "auto:name" => FullNamesMatch(dir[decision.customer], ua)
=============================================================================

----------------------------- MODULE MCStaffDesk -----------------------------
(* StaffDesk with the values TLC checks it under.                           *)
EXTENDS StaffDesk

CONSTANTS u1, u2, u3, m1, m2, f1, p1, p2, r1, r2, w1, d1, d2

\* The hub's list at the start; the third user may join it.
MCKnown == <<u1, u2>>

\* Two panels, each enrolling its own user.
MCEnrols == p1 :> u1 @@ p2 :> u2

Mix(who, c, f, t, s, e) ==
  [who |-> who, changes |-> c, failures |-> f, troubles |-> t, sessions |-> s, edits |-> e]

\* Two refreshes; a refresh and a search; a refresh and a panel; two panels;
\* a panel alone, with troubles; a panel and a reader of the table; two
\* readers and a member of the staff; two desks.
MCMixes == {Mix({m1, m2}, 1, 1, 0, 0, 0), Mix({m1, f1}, 1, 1, 0, 0, 0), Mix({m1, p1}, 1, 0, 0, 1, 0),
            Mix({p1, p2}, 0, 0, 0, 2, 0), Mix({p1}, 0, 0, 1, 2, 0), Mix({p1, r1}, 0, 0, 0, 1, 0),
            Mix({r1, r2, w1}, 0, 0, 0, 0, 0), Mix({d1, d2}, 0, 0, 0, 0, 3)}
=============================================================================

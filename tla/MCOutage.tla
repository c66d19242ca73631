------------------------------- MODULE MCOutage -------------------------------
(* Outage with the values TLC checks it under, beside DoorAccess, whose     *)
(* assumptions TLC evaluates at the start.                                  *)
EXTENDS Outage, DoorAccess
CONSTANTS t1, t2, walker
MCTaps == {t1, t2}
(* Two taps with each other, and a tap with the refresh.                    *)
MCMixes == {{t1, t2}, {t1, walker}}
=============================================================================

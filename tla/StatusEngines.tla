---------------------------- MODULE StatusEngines ----------------------------
(***************************************************************************)
(* The two engines a status sync may run after its matching phase          *)
(* (statusync.RunSync, step 2): the loop over cards, which is the default, *)
(* and the pass over bindings, whose interleavings are in Membership.      *)
(* Here both decide about the same users and rows, with nothing between    *)
(* reading and writing, and are compared.                                  *)
(***************************************************************************)
EXTENDS Naturals, Sequences, FiniteSets

\* What a lookup of a member's row gives: no row, a row of a member who is
\* allowed or not, or an error.
Lookups == {"none", "allowed", "denied", "failed"}

\* GetMemberByNFC gives a row without any content along with an error.
RowFor(lookup) == IF lookup = "failed" THEN "denied" ELSE lookup

\* Both engines: the status a row asks for, if it is not the user's already.
Converge(row, status) ==
  CASE row = "allowed" /\ status # "ACTIVE" -> {"ACTIVE"}
    [] row = "denied" /\ status = "ACTIVE" -> {"DEACTIVATED"}
    [] OTHER -> {}

\* The loop: the cards of the user in their order, up to the first that has a
\* row or whose lookup fails.
FirstKnown(u) ==
  {i \in DOMAIN u.cards : /\ u.cards[i] # "none"
                          /\ \A j \in 1..i - 1 : u.cards[j] = "none"}

LoopWants(u) == UNION {Converge(RowFor(u.cards[i]), u.status) : i \in FirstKnown(u)}

\* The pass: what it may want, from the row of the customer the user is bound to
\* that comes first.
PassWants(u) ==
  IF u.bound THEN UNION {Converge(u.cards[i], u.status) :
                           i \in {j \in DOMAIN u.cards : u.cards[j] # "none"}}
  ELSE {}

\* The capability decides what is written and what is only counted.
MayWrite(mode, status) == IF status = "ACTIVE" THEN mode # "off" ELSE mode = "full"

LoopWrites(users, mode) ==
  [i \in DOMAIN users |-> {s \in LoopWants(users[i]) : MayWrite(mode, s)}]

\* The guard holds all deactivations of a run that wants too many.
GuardTripped(users, max) ==
  Cardinality({i \in DOMAIN users : "DEACTIVATED" \in PassWants(users[i])}) > max

PassWrites(users, mode, max) ==
  [i \in DOMAIN users |->
     {s \in PassWants(users[i]) :
        MayWrite(mode, s) /\ (s = "ACTIVE" \/ ~GuardTripped(users, max))}]

\* UpdateUserStatus, for every user.
Applied(users, writes) ==
  [i \in DOMAIN users |->
     IF writes[i] = {} THEN users[i]
     ELSE [users[i] EXCEPT !.status = CHOOSE s \in writes[i] : TRUE]]

-----------------------------------------------------------------------------
(* Two users with up to two cards each, and what the engines may do.        *)

\* A user's cards stand for the rows their lookups give; they all belong to
\* the customer the user is bound to.
UAUsers ==
  [cards : UNION {[1..n -> Lookups] : n \in 0..2}, bound : BOOLEAN,
   status : {"ACTIVE", "DEACTIVATED"}]

Modes == {"off", "activate-only", "full"}
Pairs == [1..2 -> UAUsers]

Known(u)  == {u.cards[i] : i \in DOMAIN u.cards} \ {"none"}
Plain(u)  == Known(u) \in {{"allowed"}, {"denied"}}

\* The pass replaces the loop (syncer.go: "the C2-completing replacement"): of
\* a bound user whose cards are read and agree, both write the same, as long as
\* the guard lets the deactivations through.
ASSUME ReplacementAssumption ==
  \A users \in Pairs, mode \in Modes, max \in 1..2 : \A i \in DOMAIN users :
    users[i].bound /\ Plain(users[i]) /\ ~GuardTripped(users, max) =>
      PassWrites(users, mode, max)[i] = LoopWrites(users, mode)[i]

\* Where nothing is known of a user, or its row cannot be read, the pass leaves
\* it alone.  The loop leaves alone whom it finds no card of, but it takes a
\* lookup that fails for a member who is not allowed; and no guard holds it.
ASSUME UnknownAssumption ==
  /\ \A users \in Pairs, mode \in Modes, max \in 1..2 : \A i \in DOMAIN users :
       /\ Known(users[i]) \subseteq {"failed"} => PassWrites(users, mode, max)[i] = {}
       /\ Known(users[i]) = {} => LoopWrites(users, mode)[i] = {}
       /\ Known(users[i]) = {"failed"} =>
            LoopWrites(users, mode)[i] =
              IF mode = "full" /\ users[i].status = "ACTIVE" THEN {"DEACTIVATED"} ELSE {}
       /\ Cardinality({j \in DOMAIN users :
             "DEACTIVATED" \in PassWrites(users, mode, max)[j]}) <= max
  /\ \E users \in Pairs : \A i \in DOMAIN users : LoopWrites(users, "full")[i] = {"DEACTIVATED"}

\* No mode below "full" takes an access away, "off" gives none, and an engine
\* that has written everything it wanted has nothing left to write.
ASSUME ModesAssumption ==
  \A users \in Pairs, mode \in Modes :
    LET loop == LoopWrites(users, mode)
        pass == PassWrites(users, mode, 2)
    IN \A i \in DOMAIN users :
         /\ mode # "full" => "DEACTIVATED" \notin loop[i] \cup pass[i]
         /\ mode = "off" => loop[i] \cup pass[i] = {}
         /\ LoopWrites(Applied(users, loop), mode)[i] = {}
         /\ Plain(users[i]) => PassWrites(Applied(users, pass), mode, 2)[i] = {}
=============================================================================

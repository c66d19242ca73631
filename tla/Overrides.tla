------------------------------ MODULE Overrides ------------------------------
(* The cards that stand for a customer of the staff's choice (cardmap):     *)
(* a map in memory, which the tap handler asks, and its copy on disk, which *)
(* a restart loads.  A change takes three steps, and two requests may take  *)
(* them at once: the map is changed, the whole map is marshalled, the file  *)
(* is replaced by a rename.  A save may fail at any file operation; the map *)
(* has the change then all the same.                                        *)
EXTENDS Naturals

CONSTANTS
  Desks,      \* requests that add or delete an override
  Tags,       \* cards
  Targets,    \* customers, or tags, that a card is made to stand for
  Itself,     \* no override
  MaxEdits    \* bound: changes

ASSUME OverrideAssumption == Itself \notin Targets /\ MaxEdits \in Nat

VARIABLES
  overrides,  \* the map in memory
  file,       \* card_overrides.json
  desk,       \* desk[d]: how far a request is, what it is about to write, and
              \* whether it has marshalled the map with nobody else at work
  astray,     \* a save failed, or two overlapped, since the file was whole
  edits

overrideVars == <<overrides, file, desk, astray, edits>>

Maps == [Tags -> Targets \cup {Itself}]
NoOverrides == [t \in Tags |-> Itself]
Ready == [at |-> "idle", data |-> NoOverrides, alone |-> FALSE]

OverrideInit(used) ==
  /\ overrides = NoOverrides /\ file = NoOverrides
  /\ desk = [d \in Desks |-> Ready]
  /\ astray = FALSE
  /\ edits = used

AtWork == {d \in Desks : desk[d].at # "idle"}

\* SetOverride, DeleteOverride: the map changes; whoever marshalled it before
\* has not seen it.
Changes(d, t, c) ==
  /\ desk[d].at = "idle" /\ edits < MaxEdits
  /\ overrides' = [overrides EXCEPT ![t] = c]
  /\ desk' = [e \in Desks |-> IF e = d THEN [Ready EXCEPT !.at = "changed"]
                              ELSE [desk[e] EXCEPT !.alone = FALSE]]
  /\ astray' = (astray \/ AtWork # {})
  /\ edits' = edits + 1
  /\ UNCHANGED file

\* save: the map is marshalled under the read lock.
Marshals(d) ==
  /\ desk[d].at = "changed"
  /\ desk' = [desk EXCEPT ![d] = [at |-> "saving", data |-> overrides, alone |-> AtWork = {d}]]
  /\ UNCHANGED <<overrides, file, astray, edits>>

\* The mistake of a save that goes by the file.
WrittenOnto(f, data) == [t \in Tags |-> IF data[t] = Itself THEN f[t] ELSE data[t]]

\* The file that replaces f.
Written(f, data) == data

\* save: the rename.  A save that had the map to itself mends the file.
Saves(d) ==
  /\ desk[d].at = "saving"
  /\ file' = Written(file, desk[d].data)
  /\ desk' = [desk EXCEPT ![d] = Ready]
  /\ astray' = (astray /\ ~desk[d].alone)
  /\ UNCHANGED <<overrides, edits>>

\* save: a file operation fails; the request is told, the map is not.
SaveFails(d) ==
  /\ desk[d].at = "saving"
  /\ desk' = [desk EXCEPT ![d] = Ready]
  /\ astray' = TRUE
  /\ UNCHANGED <<overrides, file, edits>>

\* New, load: after a restart, in the middle of whatever requests there were.
Reloads ==
  /\ overrides' = file
  /\ desk' = [d \in Desks |-> Ready]
  /\ astray' = FALSE
  /\ UNCHANGED <<file, edits>>

OverrideTypeOK ==
  /\ overrides \in Maps /\ file \in Maps
  /\ desk \in [Desks -> [at : {"idle", "changed", "saving"}, data : Maps, alone : BOOLEAN]]
  /\ astray \in BOOLEAN /\ edits \in 0..MaxEdits

\* What a request was told is saved survives a restart: with no request at
\* work the file is the map, unless a save failed or two overlapped since; and
\* the next save that has the map to itself mends the file for all of them.
OverridesSurvive == AtWork = {} /\ ~astray => file = overrides
=============================================================================

---------------------------- MODULE MembersPage ----------------------------
(* What the staff may rely on when they look at the members' table: it is   *)
(* the table as it stood at some moment not longer than Window ago, and     *)
(* Delay after an announced change (one that invalidates the cache) made    *)
(* while nobody was reading, never a table from before that change.  Until  *)
(* then a browser may show once more what it has just been sent.            *)
EXTENDS Naturals, Sequences

CONSTANTS Readers, Window, Delay

VARIABLES
  now,       \* the time
  replaced,  \* replaced[v]: when version v of the table gave way to v + 1
  announced, \* the changes announced in quiet: when, and the version then
  reading,   \* the requests that read the table at the moment
  shown      \* the version the last step has shown, 0 if it showed none

pageVars == <<now, replaced, announced, reading, shown>>

\* The version of the table in the store.
Current == Len(replaced) + 1

\* Whether version v was the current one at some moment of the last Window.
RecentlyCurrent(v) == v \in 1..Len(replaced) => replaced[v] + Window >= now

\* Whether v has every change announced at least Delay ago.
UpToDate(v) == \A a \in announced : a.at + Delay <= now => v >= a.version

PageInit ==
  /\ now = 0 /\ replaced = <<>> /\ announced = {} /\ reading = {} /\ shown = 0

\* Nothing is shown.
Quietly == shown' = 0

Passes == now' = now + 1 /\ Quietly /\ UNCHANGED <<replaced, announced, reading>>

Changes == replaced' = Append(replaced, now) /\ Quietly /\ UNCHANGED <<now, announced, reading>>

Announces ==
  /\ announced' = IF reading = {} THEN announced \cup {[at |-> now, version |-> Current]}
                  ELSE announced
  /\ Quietly /\ UNCHANGED <<now, replaced, reading>>

Reads(r) == reading' = reading \cup {r} /\ Quietly /\ UNCHANGED <<now, replaced, announced>>

\* A request is answered: from what it read itself, or from what another
\* did, or out of the browser that sent it.
Shows(r) ==
  /\ \E v \in 1..Current : RecentlyCurrent(v) /\ UpToDate(v) /\ shown' = v
  /\ reading' = reading \ {r}
  /\ UNCHANGED <<now, replaced, announced>>

\* Something else happens.
Idles == Quietly /\ UNCHANGED <<now, replaced, announced, reading>>

PageNext ==
  \/ Idles \/ Passes \/ Changes \/ Announces
  \/ \E r \in Readers : Reads(r) \/ Shows(r)

PageSpec == PageInit /\ [][PageNext]_pageVars
=============================================================================

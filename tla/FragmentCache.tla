---------------------------- MODULE FragmentCache ----------------------------
(* The cache of the members' table (api.htmlCache, handleFragMemberTable).  *)
(*                                                                          *)
(* A request looks for the rendered table, and renders and stores it when   *)
(* there is none of the current version or it is older than its TTL.  Those *)
(* who change the members announce it afterwards by moving the version on   *)
(* (the staff's actions), or do not (ingest, refresh, recheck).  Nothing is *)
(* held between the look, the reading, the storing, and the announcement.   *)
(* Each answer allows the browser it is sent to (private, max-age) to show  *)
(* the same table again without asking: no announcement reaches it there.   *)
EXTENDS Naturals, Sequences, FiniteSets

CONSTANTS
  Readers,      \* browsers that ask for the table, one request at a time
  Writers,      \* the staff's actions on the members
  TTL,          \* how long a stored table is served (30 s in the code)
  MaxAge,       \* how long a browser may show it again (5 s in the code)
  MaxRender,    \* assumed: the longest time from reading to storing
  MaxWrites,    \* bound: changes of the table
  MaxNow        \* bound: the clock

ASSUME PageAssumption ==
  /\ TTL \in Nat /\ MaxAge \in Nat /\ MaxRender \in Nat /\ MaxWrites \in Nat /\ MaxNow \in Nat

VARIABLES
  now, replaced, announced, shown,   \* as MembersPage has them
  ver,       \* htmlCache.ver
  entry,     \* the entry of the table: its body, version and expiry
  browser,   \* browser[r]: the table it was sent last, and until when that is fresh
  reader,    \* reader[r]: how far its request is, what it read and when
  owing      \* the writers that have written and not yet announced it

cacheVars == <<now, replaced, announced, shown, ver, entry, browser, reader, owing>>

Current == Len(replaced) + 1

Nothing == [body |-> 0, until |-> 0]
Away == [at |-> "away", body |-> 0, since |-> 0]

CacheInit ==
  /\ now = 0 /\ replaced = <<>> /\ announced = {} /\ shown = 0
  /\ ver = 1 /\ entry = [body |-> 0, ver |-> 0, expires |-> 0]
  /\ browser = [r \in Readers |-> Nothing]
  /\ reader = [r \in Readers |-> Away]
  /\ owing = {}

\* The requests that have read the table and not yet stored it.
Rendering == {r \in Readers : reader[r].at = "rendering"}

\* htmlCache.Get finds a table.
Valid == entry.ver = ver /\ now <= entry.expires

\* A step that shows no table.
Quietly == shown' = 0

\* A table is sent and shown, with the header that lets the browser keep it.
Sent(r, body) ==
  /\ shown' = body
  /\ browser' = [browser EXCEPT ![r] = [body |-> body, until |-> now + MaxAge]]

\* The browser shows it again.  It need not: it may be made to ask, or may
\* have dropped it.
ShowsAgain(r) ==
  /\ reader[r].at = "away" /\ now < browser[r].until
  /\ shown' = browser[r].body
  /\ UNCHANGED <<now, replaced, announced, ver, entry, browser, reader, owing>>

\* A request is answered out of the cache.
Hits(r) ==
  /\ reader[r].at = "away" /\ Valid
  /\ Sent(r, entry.body)
  /\ UNCHANGED <<now, replaced, announced, ver, entry, reader, owing>>

Misses(r) ==
  /\ reader[r].at = "away" /\ ~Valid
  /\ reader' = [reader EXCEPT ![r].at = "missed"]
  /\ Quietly /\ UNCHANGED <<now, replaced, announced, ver, entry, browser, owing>>

\* AllMembersPaged.
ReadsTable(r) ==
  /\ reader[r].at = "missed"
  /\ reader' = [reader EXCEPT ![r] = [at |-> "rendering", body |-> Current, since |-> now]]
  /\ Quietly /\ UNCHANGED <<now, replaced, announced, ver, entry, browser, owing>>

\* It fails: an alert is shown, nothing stored.
ReadFails(r) ==
  /\ reader[r].at = "missed"
  /\ reader' = [reader EXCEPT ![r] = Away]
  /\ Quietly /\ UNCHANGED <<now, replaced, announced, ver, entry, browser, owing>>

\* htmlCache.Set: the entry carries the version of this moment.
Stored(body) == [body |-> body, ver |-> ver, expires |-> now + TTL]

\* The table is stored and served.
Stores(r) ==
  /\ reader[r].at = "rendering"
  /\ entry' = Stored(reader[r].body)
  /\ Sent(r, reader[r].body)
  /\ reader' = [reader EXCEPT ![r] = Away]
  /\ UNCHANGED <<now, replaced, announced, ver, owing>>

\* The members change.
Writes ==
  /\ Len(replaced) < MaxWrites
  /\ replaced' = Append(replaced, now)
  /\ Quietly /\ UNCHANGED <<now, announced, ver, entry, browser, reader>>

\* A writer that will announce the change.
StaffWrites(w) == w \notin owing /\ Writes /\ owing' = owing \cup {w}

\* One that will not: ingest, the refresh of the cache, the recheck.
LoopWrites == Writes /\ UNCHANGED owing

\* The mistake of an invalidation without effect.
BumpedNot(v) == v

\* htmlCache.Invalidate: whatever was stored so far is stale.
Bumped(v) == v + 1

Invalidate ==
  /\ ver' = Bumped(ver)
  /\ announced' = IF Rendering = {} THEN announced \cup {[at |-> now, version |-> Current]}
                  ELSE announced
  /\ Quietly /\ UNCHANGED <<now, replaced, entry, browser, reader>>

Invalidates(w) == w \in owing /\ Invalidate /\ owing' = owing \ {w}

\* Time passes; a request stores what it read within MaxRender, and what a
\* browser keeps goes stale.
TimePasses ==
  /\ now < MaxNow
  /\ \A r \in Rendering : now < reader[r].since + MaxRender
  /\ now' = now + 1
  /\ browser' = [r \in Readers |-> IF now' < browser[r].until THEN browser[r] ELSE Nothing]
  /\ Quietly /\ UNCHANGED <<replaced, announced, ver, entry, reader, owing>>

CacheNext ==
  \/ TimePasses \/ LoopWrites
  \/ \E w \in Writers : StaffWrites(w) \/ Invalidates(w)
  \/ \E r \in Readers : \/ ShowsAgain(r) \/ Hits(r) \/ Misses(r)
                         \/ ReadsTable(r) \/ ReadFails(r) \/ Stores(r)

CacheSpec == CacheInit /\ [][CacheNext]_cacheVars

-----------------------------------------------------------------------------
(* Properties.                                                              *)

\* The types of the variables; a request that renders has read the table.
CacheTypeOK ==
  /\ now \in 0..MaxNow
  /\ replaced \in Seq(0..MaxNow) /\ Len(replaced) <= MaxWrites
  /\ announced \subseteq [at : 0..now, version : 1..Current] /\ shown \in 0..Current
  /\ ver \in Nat
  /\ entry \in [body : 0..Current, ver : 0..ver, expires : Nat]
  /\ browser \in [Readers -> [body : 0..Current, until : 0..now + MaxAge]]
  /\ reader \in [Readers -> [at : {"away", "missed", "rendering"}, body : 0..Current, since : 0..now]]
  /\ \A r \in Readers : reader[r].at = "rendering" => reader[r].body \in 1..Current
  /\ owing \subseteq Writers

\* The cache and the browsers keep what MembersPage promises, with the time
\* of one rendering, the TTL and the browsers' max-age as its window and the
\* max-age as its delay: a table stored after the announcement of a change it
\* does not have is served, but only if it was being rendered then, and a
\* browser that re-fetches the table upon the announcement may show the old
\* one, but no longer than max-age.
Page == INSTANCE MembersPage WITH reading <- Rendering, Window <- TTL + MaxRender + MaxAge,
                                  Delay <- MaxAge
ServesThePage == Page!PageSpec
=============================================================================

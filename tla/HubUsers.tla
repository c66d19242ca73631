------------------------------ MODULE HubUsers ------------------------------
(* The users of UA-Hub and the copy the bridge keeps of them.               *)
(*                                                                          *)
(* A refresh of the mirror (unifimirror.Syncer, posted by the staff or      *)
(* started by its scheduler) lists the whole directory page by page, writes *)
(* one row of ua_users per entry, and then asks user by user for the        *)
(* e-mails the list left out.  A search (unifi.Client.ListUsers, made by    *)
(* the denied-tap recheck and GET /unifi/users) walks the same pages for    *)
(* the users who carry a card.  Nothing keeps two refreshes apart, and the  *)
(* directory changes underneath them.                                       *)
EXTENDS Naturals, FiniteSets, SequencesExt

CONSTANTS
  Users,        \* the users UA-Hub may know
  Known,        \* those it knows at the start, in the order of its list
  Omits,        \* users whose e-mail the list endpoint leaves out
  Carded,       \* users who carry a card
  Refreshes,    \* the refreshes of the mirror that may overlap
  Searches,     \* the searches that may overlap them
  PageSize,     \* users per page (100 in the code)
  MaxChanges,   \* bound: changes of the directory
  MaxFailures   \* bound: failed calls, failed writes and cancellations

ASSUME HubAssumption ==
  /\ Known \in Seq(Users) /\ IsInjective(Known)
  /\ Omits \subseteq Users /\ Carded \subseteq Users
  /\ PageSize \in Nat \ {0} /\ MaxChanges \in Nat /\ MaxFailures \in Nat
  /\ Refreshes \cap Searches = {}

VARIABLES
  hub,       \* the directory: its users in the order of the list
  version,   \* version[u]: how often the record of u has changed
  row,       \* row[u]: the ua_users row of u, Absent before the first
  walk,      \* walk[w]: what a refresh or a search knows
  floor,     \* history: the versions when the running refreshes began
  changes, failures

mirrorVars == <<hub, version, row, walk, floor, changes, failures>>

Walks == Refreshes \cup Searches
Versions == 0..(MaxChanges + 1)
Absent == [version |-> 0, mail |-> FALSE]
Entries == [user : Users, version : Versions, mail : BOOLEAN]

\* A walk that is not under way: its variables are locals of the call.
\* "there", "shrunk", "clean" and "alone" are history: who was in the
\* directory when it began, whether somebody has left while it listed,
\* whether every call of it succeeded, whether it had the mirror to itself.
Rest == [at |-> "idle", page |-> 1, got |-> <<>>, queue |-> <<>>, held |-> <<>>,
         there |-> {}, shrunk |-> FALSE, clean |-> TRUE, alone |-> TRUE]

MirrorInit(changed, failed) ==
  /\ hub = Known
  /\ version = [u \in Users |-> 1]
  /\ row = [u \in Users |-> Absent]
  /\ walk = [w \in Walks |-> Rest]
  /\ floor = [u \in Users |-> 0]
  /\ changes = changed /\ failures = failed

Running == {w \in Refreshes : walk[w].at # "idle"}

Spends == failures < MaxFailures /\ failures' = failures + 1

-----------------------------------------------------------------------------
(* The list.                                                                *)

\* RefreshWithStats up to its call; for a search, ListUsers.
Begins(w) ==
  /\ walk[w].at = "idle"
  /\ LET alone == w \in Refreshes /\ Running = {} IN
     /\ walk' = [v \in Walks |->
          IF v = w THEN [walk[w] EXCEPT !.at = "listing", !.there = ToSet(hub), !.alone = alone]
          ELSE IF w \in Refreshes THEN [walk[v] EXCEPT !.alone = @ /\ walk[v].at = "idle"]
          ELSE walk[v]]
     /\ floor' = IF alone THEN version ELSE floor
  /\ UNCHANGED <<hub, version, row, changes, failures>>

\* parseUniFiUser of an element of a page: a record of the list.
Listed(u) == [user |-> u, version |-> version[u], mail |-> u \notin Omits]

Least(a, b) == IF a < b THEN a ELSE b

\* What page n of the directory holds at this moment.
PageAt(n) == LET from == (n - 1) * PageSize + 1 IN
  [i \in 1..Len(SubSeq(hub, from, Least(n * PageSize, Len(hub)))) |-> Listed(hub[from + i - 1])]

\* The mistake of taking a full page for the last one.
IsLastWhenFull(n) == n <= PageSize

\* Whether a page of n users is the last one.
IsLast(n) == n < PageSize

\* The mistake of not leaving the loop over the rows.
WritingOn(r) == [r EXCEPT !.at = "writing"]

\* After the list the rows are written, then the e-mails are asked for.
Writing(r) == [r EXCEPT !.at = IF r.got = <<>> THEN "hydrating" ELSE "writing"]

\* ListAllUsersWithStatus: the next page.
ListsPage(w) ==
  /\ w \in Refreshes /\ walk[w].at = "listing"
  /\ LET found == PageAt(walk[w].page)
         read  == [walk[w] EXCEPT !.page = @ + 1, !.got = @ \o found] IN
     walk' = [walk EXCEPT ![w] = IF IsLast(Len(found)) THEN Writing([read EXCEPT !.page = 1]) ELSE read]
  /\ UNCHANGED <<hub, version, row, floor, changes, failures>>

\* extractNfcTokens finds a token in one of the fields it knows.
HasCard(e) == e.user \in Carded

\* The users of a page who carry a card, in its order: SelectSeq(page, HasCard)
\* as a function of the part of the page the loop has seen.
WithCard(page) ==
  LET kept[n \in 0..Len(page)] ==
        IF n = 0 THEN <<>>
        ELSE IF HasCard(page[n]) THEN Append(kept[n - 1], page[n])
        ELSE kept[n - 1]
  IN kept[Len(page)]

\* ListUsers: the next page.  It keeps the users with a card only, and a
\* page without users does not decode: the search fails on it.
SearchesPage(w) ==
  /\ w \in Searches /\ walk[w].at = "listing"
  /\ LET found == PageAt(walk[w].page)
         kept  == WithCard(found)
         read  == [walk[w] EXCEPT !.page = @ + 1, !.got = @ \o kept] IN
     walk' = [walk EXCEPT ![w] =
       IF found = <<>> THEN [Rest EXCEPT !.at = "failed", !.clean = walk[w].clean]
       ELSE IF IsLast(Len(found)) THEN [read EXCEPT !.at = "found", !.page = 1]
       ELSE read]
  /\ UNCHANGED <<hub, version, row, floor, changes, failures>>

\* The mistake of keeping what was listed for the next attempt.
ListFailsKeeping(w) ==
  /\ walk[w].at = "listing" /\ Spends
  /\ walk' = [walk EXCEPT ![w].at = "idle", ![w].page = 1]
  /\ UNCHANGED <<hub, version, row, floor, changes>>

\* The request of a page fails, or the caller's context ends: nothing is
\* written, and what was read is dropped.
ListFails(w) ==
  /\ walk[w].at = "listing" /\ Spends
  /\ walk' = [walk EXCEPT ![w] =
       IF w \in Searches THEN [Rest EXCEPT !.at = "failed", !.clean = FALSE] ELSE Rest]
  /\ UNCHANGED <<hub, version, row, floor, changes>>

\* The caller of ListUsers goes on with the users, or without.
SearchEnds(w) ==
  /\ walk[w].at \in {"found", "failed"}
  /\ walk' = [walk EXCEPT ![w] = Rest]
  /\ UNCHANGED <<hub, version, row, floor, changes, failures>>

-----------------------------------------------------------------------------
(* upsertAndHydrate.                                                        *)

\* UpsertUAUser: every column of the row is what was observed.
RowOf(e) == [version |-> e.version, mail |-> e.mail]

\* The first loop: one row per listed user; the blank ones are queued.
Upserts(w) ==
  /\ walk[w].at = "writing"
  /\ LET e    == Head(walk[w].got)
         rest == [walk[w] EXCEPT !.got = Tail(@),
                                 !.queue = IF e.mail THEN @ ELSE Append(@, e.user)] IN
     /\ row' = [row EXCEPT ![e.user] = RowOf(e)]
     /\ walk' = [walk EXCEPT ![w] = Writing(rest)]
  /\ UNCHANGED <<hub, version, floor, changes, failures>>

\* A row that cannot be written is passed over, and not queued either.
UpsertFails(w) ==
  /\ walk[w].at = "writing" /\ Spends
  /\ LET rest == [walk[w] EXCEPT !.got = Tail(@), !.clean = FALSE] IN
     walk' = [walk EXCEPT ![w] = Writing(rest)]
  /\ UNCHANGED <<hub, version, row, floor, changes>>

Hydrating(w) == walk[w].at = "hydrating" /\ walk[w].queue # <<>>

\* FetchUser: the record of the next queued user, with its e-mail.
Fetches(w) ==
  /\ Hydrating(w) /\ walk[w].held = <<>>
  /\ LET u == Head(walk[w].queue) IN
     /\ u \in ToSet(hub)
     /\ walk' = [walk EXCEPT ![w].held = <<[user |-> u, version |-> version[u], mail |-> TRUE]>>]
  /\ UNCHANGED <<hub, version, row, floor, changes, failures>>

\* The loop goes on with the next user.
Dequeued(w, clean) ==
  walk' = [walk EXCEPT ![w].queue = Tail(@), ![w].held = <<>>, ![w].clean = @ /\ clean]

\* The user is gone, the call fails, its answer has no e-mail, or the row
\* cannot be written: the row of the list stays.
HydrateFails(w) ==
  /\ Hydrating(w)
  /\ \/ walk[w].held = <<>> /\ Head(walk[w].queue) \notin ToSet(hub) /\ UNCHANGED failures
     \/ Spends
  /\ Dequeued(w, FALSE)
  /\ UNCHANGED <<hub, version, row, floor, changes>>

Hydrates(w) ==
  /\ Hydrating(w) /\ walk[w].held # <<>>
  /\ LET e == Head(walk[w].held) IN row' = [row EXCEPT ![e.user] = RowOf(e)]
  /\ Dequeued(w, TRUE)
  /\ UNCHANGED <<hub, version, floor, changes, failures>>

\* The context ends: the rest of both loops has no effect.
Cancelled(w) ==
  /\ walk[w].at \in {"writing", "hydrating"} /\ Spends
  /\ walk' = [walk EXCEPT ![w] = Rest]
  /\ UNCHANGED <<hub, version, row, floor, changes>>

\* The refresh reports its counts (the recheck of the pending rows that it
\* makes before is an action of Binding).
Finishes(w) ==
  /\ walk[w].at = "hydrating" /\ walk[w].queue = <<>>
  /\ walk' = [walk EXCEPT ![w] = Rest]
  /\ UNCHANGED <<hub, version, row, floor, changes, failures>>

-----------------------------------------------------------------------------
(* The directory, at UA-Hub.                                                *)

Change == changes < MaxChanges /\ changes' = changes + 1

\* A record changes: a name, an e-mail, a status, a card.
Edited(u) == version' = [version EXCEPT ![u] = @ + 1]

Edits(u) ==
  /\ Change /\ u \in ToSet(hub)
  /\ Edited(u)
  /\ UNCHANGED <<hub, row, walk, floor, failures>>

\* A user appears anywhere in the list.
Joins(u) ==
  /\ Change /\ u \notin ToSet(hub)
  /\ \E i \in 1..(Len(hub) + 1) : hub' = InsertAt(hub, i, u)
  /\ Edited(u)
  /\ UNCHANGED <<row, walk, floor, failures>>

\* A user goes, and those behind it move up: a walk that has read the page
\* before misses the one who moves onto it.
Leaves(u) ==
  /\ Change
  /\ \E i \in 1..Len(hub) : hub[i] = u /\ hub' = RemoveAt(hub, i)
  /\ walk' = [w \in Walks |-> [walk[w] EXCEPT !.shrunk = @ \/ walk[w].at = "listing"]]
  /\ UNCHANGED <<version, row, floor, failures>>

-----------------------------------------------------------------------------
(* Properties.                                                              *)

\* The types of the variables, and what a refresh keeps at each point.
MirrorTypeOK ==
  /\ hub \in Seq(Users) /\ IsInjective(hub)
  /\ version \in [Users -> Versions] /\ floor \in [Users -> Versions]
  /\ row \in [Users -> [version : Versions, mail : BOOLEAN]]
  /\ changes \in 0..MaxChanges /\ failures \in 0..MaxFailures
  /\ \A w \in Walks :
       /\ walk[w].at \in {"idle", "listing", "writing", "hydrating", "found", "failed"}
       /\ walk[w].got \in Seq(Entries) /\ walk[w].held \in Seq(Entries)
       /\ walk[w].queue \in Seq(Users)
       /\ walk[w].at = "writing" => walk[w].got # <<>>
       /\ walk[w].held # <<>> => Head(walk[w].held).user = Head(walk[w].queue)

\* A row is never put back behind the moment the refreshes under way began:
\* however they overlap, fail and are cancelled, no refresh writes what it
\* kept from an earlier one.
RowsAreRecent ==
  [][\A u \in Users : row'[u] # row[u] => row'[u].version >= floor[u]]_mirrorVars

UsersOf(entries) == {entries[i].user : i \in 1..Len(entries)}

\* A refresh that had the mirror to itself, lost no call and saw nobody leave
\* while it listed ends with everybody who was there in the mirror, as recent
\* as its start and with the e-mail, however the pages shifted, and also
\* when the last page is full; a search under the same terms has found every
\* user who carries a card.
WalksAreWhole ==
  [][\A w \in Walks : (walk[w].clean /\ ~walk[w].shrunk) =>
       /\ (Finishes(w) /\ walk[w].alone) =>
            \A u \in walk[w].there : row[u].mail /\ row[u].version >= floor[u]
       /\ (walk[w].at = "found") =>
            walk[w].there \cap Carded \subseteq UsersOf(walk[w].got)]_mirrorVars
=============================================================================

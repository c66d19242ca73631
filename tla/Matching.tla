------------------------------ MODULE Matching ------------------------------
(***************************************************************************)
(* Whom a UA-Hub user is taken for.                                        *)
(*                                                                         *)
(* Four parts of the bridge decide it, each with rules of its own:         *)
(*   the status sync (statusync.matchOne), which asks Redpoint for the     *)
(*   e-mail and the local directory for the name;                          *)
(*   the ingest (ingest.Run), which asks the directory for both;           *)
(*   the recheck of the queue (store.FindResolvablePending), the e-mail    *)
(*   only;                                                                 *)
(*   the form for a new member (resolveByEmailWithName), which asks        *)
(*   Redpoint for the e-mail.                                              *)
(* Binding has the outcome of a decision as answer[u].  Here are the       *)
(* decisions, and how they compare over every user and directory of a      *)
(* sample.                                                                 *)
(*                                                                         *)
(* Every comparison folds case, so a word stands for all its capitals.     *)
(* What differs is the blanks around a word: the matcher and the form trim *)
(* them, SQL does not.  A word is "" when there is none.  A directory maps *)
(* the ids of customers to their records.                                  *)
(***************************************************************************)
EXTENDS Naturals, Sequences, FiniteSets

Nobody == "nobody"

\* A word as it is written: with or without blanks around it.
Bare(w) == [word |-> w, padded |-> FALSE]
Padded(w) == [word |-> w, padded |-> TRUE]

\* The words a LIKE 'w%' finds: all that begin with it.
Begins(w, v) == w \in {"", v} \/ (w = "jo" /\ v = "john")

\* SQL compares what is written.
Equals(s, w) == s = Bare(w)
BeginsWith(s, w) == ~s.padded /\ Begins(s.word, w)

IsOne(rows) == Cardinality(rows) = 1
The(rows) == CHOOSE c \in rows : TRUE

Matched(c, source) == [customer |-> c, source |-> source]
Parked(reason) == [customer |-> Nobody, source |-> reason]

-----------------------------------------------------------------------------
(* What the lookups find.  Their limits (10 rows, 50 rows) lie beyond the   *)
(* sample.                                                                  *)

\* CustomersByEmail: active or not; nothing is asked about no e-mail.
RedpointByEmail(redpoint, email) ==
  {c \in DOMAIN redpoint : email.word # "" /\ redpoint[c].email = email.word}

\* SearchAllCustomersByEmail.
DirectoryByEmail(dir, email) == {c \in DOMAIN dir : Equals(email, dir[c].email)}

\* SearchCustomersByName: a name that is missing is no condition.
DirectoryByName(dir, first, last) ==
  {c \in DOMAIN dir : BeginsWith(first, dir[c].first) /\ BeginsWith(last, dir[c].last)}

-----------------------------------------------------------------------------
(* The status sync.                                                         *)

\* namesMatch: no name matches none.
NamesMatch(a, b) == a # "" /\ a = b

FullNamesMatch(customer, ua) ==
  NamesMatch(customer.first, ua.first.word) /\ NamesMatch(customer.last, ua.last.word)

HasName(ua) == ua.first.word # "" /\ ua.last.word # ""
HasMatchableSignal(ua) == ua.email.word # "" \/ HasName(ua)

DecideFromEmailResults(ua, redpoint, rows) ==
  LET hits == {c \in rows : FullNamesMatch(redpoint[c], ua)} IN
  CASE IsOne(rows) -> Matched(The(rows), "auto:email")
    [] ~IsOne(rows) /\ IsOne(hits) -> Matched(The(hits), "auto:email+name")
    [] OTHER -> Parked("ambiguous_email")

NothingFound(ua) == Parked(IF ua.email.word = "" THEN "no_email" ELSE "no_match")

DecideFromNameResults(ua, rows) ==
  CASE IsOne(rows) -> Matched(The(rows), "auto:name")
    [] rows = {} -> NothingFound(ua)
    [] OTHER -> Parked("ambiguous_name")

\* The name is asked for only if the e-mail finds nobody and both parts of
\* the name are there.
MatchOne(ua, redpoint, dir) ==
  LET rows == RedpointByEmail(redpoint, ua.email) IN
  CASE ~HasMatchableSignal(ua) -> Parked("no_email")
    [] rows # {} -> DecideFromEmailResults(ua, redpoint, rows)
    [] rows = {} /\ HasMatchableSignal(ua) /\ ~HasName(ua) -> NothingFound(ua)
    [] OTHER -> DecideFromNameResults(ua, DirectoryByName(dir, ua.first, ua.last))

-----------------------------------------------------------------------------
(* The ingest.                                                              *)

\* parseUAUserName: the two fields, or else the ends of the full name.
UAUserName(ua) ==
  IF ua.first # Bare("") \/ ua.last # Bare("") THEN <<ua.first, ua.last>>
  ELSE CASE Len(ua.name) = 0 -> <<Bare(""), Bare("")>>
         [] Len(ua.name) = 1 -> <<Bare(ua.name[1]), Bare("")>>
         [] OTHER -> <<Bare(ua.name[1]), Bare(ua.name[Len(ua.name)])>>

\* namesEqualFold: one part of the name may be missing on both sides.
NamesEqualFold(customer, name) ==
  /\ name[1].word # "" \/ name[2].word # ""
  /\ customer.first = name[1].word /\ customer.last = name[2].word

IngestByEmail(dir, rows, name) ==
  LET hits == {c \in rows : NamesEqualFold(dir[c], name)} IN
  CASE IsOne(rows) -> Matched(The(rows), "email")
    [] ~IsOne(rows) /\ IsOne(hits) -> Matched(The(hits), "email")
    [] OTHER -> Parked("shared email")

IngestByName(dir, name) ==
  LET rows == DirectoryByName(dir, name[1], name[2]) IN
  CASE name = <<Bare(""), Bare("")>> \/ rows = {} -> Parked("no customer")
    [] name # <<Bare(""), Bare("")>> /\ IsOne(rows) -> Matched(The(rows), "name")
    [] OTHER -> Parked("shared name")

\* A binding that points into the directory is honoured; an e-mail that
\* several share ends the search.
IngestMatch(ua, bound, dir) ==
  LET rows == DirectoryByEmail(dir, ua.email)
      name == UAUserName(ua) IN
  CASE bound \in DOMAIN dir -> Matched(bound, "mapping")
    [] bound \notin DOMAIN dir /\ ua.email # Bare("") /\ rows # {} -> IngestByEmail(dir, rows, name)
    [] OTHER -> IngestByName(dir, name)

\* The badge of the row the ingest writes.
IngestedBadge(badge) == IF badge = "" THEN "PENDING_SYNC" ELSE badge

-----------------------------------------------------------------------------
(* The recheck of the queue, and the form.                                  *)

\* FindResolvablePending: the one customer with the e-mail, unless the user
\* or the customer is bound.
StillResolvable(ua, bound, taken, dir) ==
  LET rows == DirectoryByEmail(dir, ua.email) IN
  IF ua.email # Bare("") /\ bound = Nobody /\ IsOne(rows) /\ rows \cap taken = {}
  THEN Matched(The(rows), "auto:email:recheck") ELSE Parked("pending")

\* resolveByEmailWithName: as the matcher, without a search for the name.
ResolveByEmailWithName(form, redpoint) ==
  LET rows == RedpointByEmail(redpoint, form.email)
      hits == {c \in rows : HasName(form) /\ FullNamesMatch(redpoint[c], form)} IN
  CASE IsOne(rows) -> Matched(The(rows), "auto:email")
    [] ~IsOne(rows) /\ IsOne(hits) -> Matched(The(hits), "auto:email+name")
    [] rows = {} -> Parked("no customer")
    [] OTHER -> Parked("shared email")

-----------------------------------------------------------------------------
(* The sample: three customers of one surname or none, two of whom may be   *)
(* of one household, and whatever the hub may have of a user.               *)

SampleCustomers == [first : {"jo", "john"}, last : {"", "lee"}, email : {"x", "y"}]
Directories == [{"c1", "c2", "c3"} -> SampleCustomers]

UAUsers ==
  [email : {Bare(""), Bare("x"), Padded("x")},
   first : {Bare(""), Padded(""), Bare("jo"), Padded("jo"), Bare("john")},
   last : {Bare(""), Bare("lee"), Padded("lee")},
   name : {<< >>, <<"jo">>, <<"jo", "lee">>}]

\* Users whose fields have no blanks around them.
Clean == {ua \in UAUsers : ~ua.email.padded /\ ~ua.first.padded /\ ~ua.last.padded}

\* The customers of the directory with the e-mail of the user.
Household(ua, dir) == {c \in DOMAIN dir : ua.email.word # "" /\ dir[c].email = ua.email.word}

-----------------------------------------------------------------------------
(* Checks.                                                                  *)

\* An e-mail that one customer has decides, and for all four alike, whatever
\* the names are (blanks around it, and only the two that trim see it).
ASSUME UniqueEmailAssumption ==
  \A ua \in UAUsers, dir \in Directories : IsOne(Household(ua, dir)) =>
    LET c == The(Household(ua, dir)) IN
    /\ MatchOne(ua, dir, dir).customer = c
    /\ ResolveByEmailWithName(ua, dir).customer = c
    /\ ~ua.email.padded => /\ IngestMatch(ua, Nobody, dir).customer = c
                           /\ StillResolvable(ua, Nobody, {}, dir).customer = c

\* Of a household nobody is guessed: the sync, the form and the recheck take
\* the user only for the one member that has the user's full name.
ASSUME HouseholdAssumption ==
  \A ua \in UAUsers, dir \in Directories : Cardinality(Household(ua, dir)) > 1 =>
    LET named == {c \in Household(ua, dir) : FullNamesMatch(dir[c], ua)} IN
    /\ \A d \in {MatchOne(ua, dir, dir), ResolveByEmailWithName(ua, dir)} :
         d.customer # Nobody <=> named = {d.customer}
    /\ StillResolvable(ua, Nobody, {}, dir).customer = Nobody

\* Where the sync and the ingest both decide about a user without a binding,
\* they decide alike; the ingest goes further, with part of a name.
ASSUME IngestAgreesAssumption ==
  \A ua \in Clean, dir \in Directories :
    LET sync == MatchOne(ua, dir, dir)
        ingest == IngestMatch(ua, Nobody, dir) IN
    /\ sync.customer # Nobody => ingest.customer = sync.customer
    /\ ingest.customer # sync.customer => ~HasName(ua)

\* Whom the form resolves, the next sync binds: a new member is not queued.
ASSUME FormAgreesAssumption ==
  \A ua \in UAUsers, dir \in Directories :
    LET form == ResolveByEmailWithName(ua, dir) IN
    form.customer # Nobody => MatchOne(ua, dir, dir) = form
=============================================================================

SPECIFICATION DeskSpec
CONSTANTS
  u1 = u1
  u2 = u2
  u3 = u3
  m1 = m1
  m2 = m2
  f1 = f1
  p1 = p1
  p2 = p2
  r1 = r1
  r2 = r2
  w1 = w1
  d1 = d1
  d2 = d2
  Users = {u1, u2, u3}
  Known <- MCKnown
  Omits = {u1}
  Carded = {u1, u2}
  Refreshes = {m1, m2}
  Searches = {f1}
  PageSize = 2
  MaxChanges = 1
  MaxFailures = 1
  Panels = {p1, p2}
  Enrols <- MCEnrols
  Cards = {c1}
  Nobody = Nobody
  MaxPolls = 1
  MaxSessions = 2
  MaxTroubles = 1
  Readers = {r1, r2}
  Writers = {w1}
  TTL = 1
  MaxRender = 1
  MaxAge = 1
  MaxWrites = 1
  MaxNow = 4
  Desks = {d1, d2}
  Tags = {k1, k2}
  Targets = {t1}
  Itself = Itself
  MaxEdits = 3
  Mixes <- MCMixes
INVARIANTS DeskTypeOK ReadersAreFreed OverridesSurvive
PROPERTIES SpinnersEnd WalksAreWhole RowsAreRecent CardsStay ServesThePage
CHECK_DEADLOCK FALSE

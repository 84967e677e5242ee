CONSTANTS
    qb = qb  rb = rb  wr = wr  pick = pick  p1 = p1  p2 = p2  o1 = o1  o2 = o2
    s1 = s1  s2 = s2  r1 = r1  u1 = u1  u2 = u2  t1 = t1  t2 = t2  k1 = k1  k2 = k2
    None = None
    Offers = {o1, o2}
    Assets = {qb, wr, pick}
    Picks = {pick}
    Packages = {p1}
    Roster = {qb}
    PackageOf <- RacePackages
    Give <- RaceGive
    Receive <- RaceReceive
    Selections <- RaceSelection
    Sends = {s1}
    Refreshers = {r1}
    Reporters = {u1}
    Tokens = {t1}
    Keys = {k1}
    Reportable = {"declined"}
    ReadsFail = TRUE
    MaxRestarts = 1
SPECIFICATION FairSpec
INVARIANTS EndsAreTrue NoOrphanReservation
PROPERTIES Refines NothingStuck Reconciled

SPECIFICATION WebSpec
CONSTANTS
    u1 = u1  u2 = u2  u3 = u3  d1 = d1  s1 = s1  t1 = t1  t2 = t2
    q1 = q1  q2 = q2  cli = cli
    UserIDs = {u1, u2}
    DiscussionIDs = {d1}
    SlotIDs = {s1}
    Titles = {t1, t2}
    NoTitle = NoTitle
    Usernames = {"admin", "bob"}
    AdminUsername = "admin"
    InterestMax = 1
    MaxLocations = 1
    MaxDays = 1
    maxDiscussionsPerUser = 1
    Timetables <- OneSession
    Schedulers = {q1, q2, cli}
    Requests = {q1, q2}
    NoRequest = NoRequest
    NoPlan = NoPlan
SYMMETRY Symmetry
CONSTRAINT RequestBound
INVARIANTS WebTypeOK
PROPERTIES OnlyTrustedPublish

SPECIFICATION RunsSpec
CONSTANTS
    u1 = u1  u2 = u2  d1 = d1  d2 = d2  t1 = t1  t2 = t2  s1 = s1  s2 = s2
    UserIDs = {u1, u2}
    DiscussionIDs = {d1, d2}
    SlotIDs = {s1, s2}
    Titles = {t1, t2}
    NoTitle = NoTitle
    Usernames = {"admin", "bob"}
    AdminUsername = "admin"
    InterestMax = 1
    MaxLocations = 2
    MaxDays = 1
    maxDiscussionsPerUser = 2
    Timetables <- OneMoreSlot
    Schedulers = {"server", "schedule"}
    Runner = "server"
    NoPlan = NoPlan
SYMMETRY Symmetry
INVARIANTS ScheduledOnce

SPECIFICATION MCSpec
CONSTANTS
    u1 = u1  u2 = u2  d1 = d1  d2 = d2  d3 = d3
    s1 = s1  s2 = s2  t1 = t1  t2 = t2  t3 = t3
    UserIDs = {u1, u2}
    DiscussionIDs = {d1, d2, d3}
    SlotIDs = {s1, s2}
    Titles = {t1, t2, t3}
    NoTitle = NoTitle
    Usernames = {"admin", "bob"}
    AdminUsername = "admin"
    InterestMax = 2
    MaxLocations = 2
    MaxDays = 1
    maxDiscussionsPerUser = 3
    Timetables = {}
    Schedulers = {"server"}
    Runner = "server"
    NoPlan = NoPlan
    Restricted = {d1}
    LocationSets <- LocationsWithGap
INVARIANTS LeftOutForPopular
PROPERTIES PlanMeetsContract PlanMade
CHECK_DEADLOCK FALSE

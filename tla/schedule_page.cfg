SPECIFICATION Spec
CONSTANTS
    u1 = u1  u2 = u2  u3 = u3  d1 = d1  d2 = d2
    s1 = s1  s2 = s2  s3 = s3  t1 = t1  t2 = t2
    UserIDs = {u1}
    DiscussionIDs = {d1}
    SlotIDs = {s1, s2}
    Titles = {t1, t2}
    NoTitle = NoTitle
    Usernames = {"admin", "bob"}
    AdminUsername = "admin"
    InterestMax = 1
    MaxLocations = 1
    MaxDays = 2
    maxDiscussionsPerUser = 1
    Timetables <- GrowTimetables
    Schedulers = {"server"}
    NoPlan = NoPlan
SYMMETRY Symmetry
INVARIANTS SchedulePageApproved

SPECIFICATION ClubSpec
CONSTANTS
    None = None
    Components = {"device"}
    MaxRequests <- MCRequests
    MaxFaults <- MCFaults
    Bookings = {b1, b2}
    Codes = {k1, k2}
    OtherCodes = {k1}
    MaxCommands = 2
    MaxEvents = 1
    MaxPolls = 1
    Notices = {n1, n2}
    Dispatchers = {d1, d2}
    MaxAttempts = 2
    Hooks = {w1, w2}
    Refunders = {r1, r2}
    PackPrice = 2
    Slots = {s1}
    Phones = {u1, u2}
    Players = {a1, a2}
    Writers = {z1, z2}
    Capacity = 2
    Clients = {c1, c2}
    Emails = {e1}
    Invitations = {i1}
    LegacyBookings = {l1}
    Users = {p1}
    Sessions = {t1, t2}
    MaxFailures = 1
    MaxPasswords = 2
    Courts = {"t1"}
    DayMinutes = 4
    StepMinutes = 1
    MarginBefore = 1
    MarginAfter = 0
    OpeningRules <- MCOpeningRules
    DurationRules <- MCDurationRules
    Closures <- MCClosures
    Occupations <- MCOccupations
    FreeTimes <- MCFreeTimes
    Students = {y1}
    Searches = {q1}
    Links = {v1, v2}
    Lessons = {x1}
    Handlers = {h1, h2}
    Places = {"p1", "p2"}
    TariffRules <- MCTariffRules
    Orders = {o1, o2}
    Funds = 2
    Prefills = {0}
    Members = {m1, m2, m3, m4}
    PageSize = 2
    MaxPages = 2
    Imports = {g1, g2}
    BankRows = {e2, e3}
    CardPayments = {f1, f2}
    TillPayments <- MCTillPayments
    StatementRows <- MCStatementRows
    MatchWindow = 3
PROPERTY
    NothingHiddenBy304
CHECK_DEADLOCK FALSE

-------------------------------- MODULE Academy --------------------------------
(***************************************************************************)
(* The calendar of the courts and the lessons of the academy               *)
(* (modules/academy, modules/availability, admin/scheduling-admin).  The   *)
(* back office edits the opening hours and the closures, bookings come and *)
(* go, a coach and students give the times they are free, and a search     *)
(* intersects all of it.  A search reads the rows of the coach, of each    *)
(* student and of each court in separate queries, between which everything *)
(* may change.  A lesson changes status in two calls: its status is read,  *)
(* then written.                                                           *)
(*                                                                         *)
(* One coach and one day.  A student is his e-mail.  The bookings are      *)
(* those of the other modules: here they only appear and change status.    *)
(***************************************************************************)
EXTENDS Availability

CONSTANTS
    Students, Searches, Links, Lessons, Handlers,
    Closures,
    Occupations,   \* bookings that may appear, without their status
    FreeTimes      \* times that a coach or a student may give

ASSUME AcademyAssumption ==
    /\ "coach" \notin Students /\ IsFiniteSet(Students)
    /\ Closures \subseteq [court : Courts, from : Int, to : Int]
    /\ Occupations \subseteq [court : Courts, origin : {"V2", "LEGACY"}, from : Int, to : Int]
    /\ \A o \in Occupations : o.from < o.to
    /\ FreeTimes \subseteq [from : Int, to : Int]

VARIABLES
    calendar,   \* opening_rules, duration_rules, court_closures, bookings of V2 and of Doinsport
    windows,    \* academy_availabilities: [owner, from, to]
    search,     \* computePossibleSlots, by request: what it has read, and its answer
    lessons,    \* academy_lessons, and the notices enqueued for each
    deciding,   \* transitionLesson, by request
    links,      \* academy_invitations
    inviting,   \* createInvitation, by request (of the same handlers)
    asked       \* students with a row in academy_course_requests

academyVars == <<calendar, windows, search, lessons, deciding, links, inviting, asked>>

Owners == Students \cup {"coach"}
NoSearch == [step |-> "idle", duration |-> 0, teacherRows |-> {}, studentRows |-> << >>,
             courtSlots |-> << >>, offers |-> {}]
NoDecision == [lesson |-> None, to |-> None]
LessonStatuses == {"absent", "PROPOSED", "CONFIRMED", "CANCELLED"}

AcademyTypeOK ==
    /\ \A b \in calendar.bookings : [court |-> b.court, origin |-> b.origin, from |-> b.from, to |-> b.to] \in Occupations
    /\ calendar.closures \subseteq Closures
    /\ windows \subseteq [owner : Owners, row : FreeTimes]
    /\ \A q \in Searches : search[q].step \in {"idle", "rows", "courts", "answered"}
    /\ lessons \in [Lessons -> [status : LessonStatuses, notices : SUBSET LessonStatuses]]
    /\ deciding \in [Handlers -> [lesson : Lessons \cup {None}, to : LessonStatuses \cup {None}]]
    /\ links \in [Links -> [student : Students \cup {None}, used : BOOLEAN, dead : BOOLEAN]]
    /\ inviting \in [Handlers -> Students \cup {None}]
    /\ asked \subseteq Students

AcademyInit ==
    /\ calendar = [opening |-> OpeningRules, durations |-> DurationRules, closures |-> {}, bookings |-> {}]
    /\ windows = {}
    /\ search = [q \in Searches |-> NoSearch]
    /\ lessons = [l \in Lessons |-> [status |-> "absent", notices |-> {}]]
    /\ deciding = [h \in Handlers |-> NoDecision]
    /\ links = [k \in Links |-> [student |-> None, used |-> FALSE, dead |-> FALSE]]
    /\ inviting = [h \in Handlers |-> None]
    /\ asked = {}

-----------------------------------------------------------------------------
(* The calendar *)
EditCalendar(c) ==
    /\ Request("academy")
    /\ calendar' = c /\ calendar' # calendar
    /\ UNCHANGED <<windows, search, lessons, deciding, links, inviting, asked>>

deactivateOpeningRule(r) ==
    EditCalendar([calendar EXCEPT !.opening = (@ \ {r}) \cup {[r EXCEPT !.active = FALSE]}])
createOpeningRule(r) ==
    EditCalendar([calendar EXCEPT !.opening = @ \cup {[r EXCEPT !.active = TRUE]}])
createCourtClosure(c) == EditCalendar([calendar EXCEPT !.closures = @ \cup {c}])
deleteCourtClosure(c) == EditCalendar([calendar EXCEPT !.closures = @ \ {c}])

At(o, s) == [court |-> o.court, origin |-> o.origin, from |-> o.from, to |-> o.to, status |-> s]

BookingAppears(o) ==
    /\ \A b \in calendar.bookings : At(o, b.status) # b
    /\ \E s \in IF o.origin = "V2" THEN {"CHECKOUT_PENDING", "CONFIRMED"} ELSE {"CONFIRMED"} :
        EditCalendar([calendar EXCEPT !.bookings = @ \cup {At(o, s)}])

BookingMoves(b) ==
    \E s \in {"CONFIRMED", "CANCELED"} :
        EditCalendar([calendar EXCEPT !.bookings = (@ \ {b}) \cup {[b EXCEPT !.status = s]}])

-----------------------------------------------------------------------------
(* The free times: a student writes with the token of his link *)
resolveInvitation(k, s) == links[k].student = s /\ ~links[k].dead
MarkedUsed(k) == [links EXCEPT ![k].used = TRUE]

addTeacherAvailability(row) ==
    /\ Request("academy")
    /\ windows' = windows \cup {[owner |-> "coach", row |-> row]}
    /\ UNCHANGED <<calendar, search, lessons, deciding, links, inviting, asked>>

addStudentAvailability(k, s, row) ==
    /\ Request("academy")
    /\ resolveInvitation(k, s) /\ links' = MarkedUsed(k)
    /\ windows' = windows \cup {[owner |-> s, row |-> row]}
    /\ UNCHANGED <<calendar, search, lessons, deciding, inviting, asked>>

\* only the owner of the row
deleteAvailability(w) ==
    /\ Request("academy")
    /\ w \in windows /\ windows' = windows \ {w}
    /\ \/ w.owner = "coach" /\ UNCHANGED links
       \/ \E k \in Links : resolveInvitation(k, w.owner) /\ links' = MarkedUsed(k)
    /\ UNCHANGED <<calendar, search, lessons, deciding, inviting, asked>>

submitCourseRequest(k, s) ==
    /\ Request("academy")
    /\ resolveInvitation(k, s) /\ links' = MarkedUsed(k)
    /\ asked' = asked \cup {s}
    /\ UNCHANGED <<calendar, windows, search, lessons, deciding, inviting>>

-----------------------------------------------------------------------------
(* The links of the students *)
\* createInvitation: the unused links are revoked first; the new row comes in a later call
RevokeActiveInvitations(h, s) ==
    /\ Request("academy")
    /\ inviting[h] = None /\ deciding[h] = NoDecision
    /\ inviting' = [inviting EXCEPT ![h] = s]
    /\ links' = [k \in Links |-> IF links[k].student = s /\ ~links[k].used
                                 THEN [links[k] EXCEPT !.dead = TRUE] ELSE links[k]]
    /\ UNCHANGED <<calendar, windows, search, lessons, deciding, asked>>

createInvitation(h, k) ==
    /\ Step("academy")
    /\ inviting[h] # None /\ links[k].student = None
    /\ links' = [links EXCEPT ![k].student = inviting[h]]
    /\ inviting' = [inviting EXCEPT ![h] = None]
    /\ UNCHANGED <<calendar, windows, search, lessons, deciding, asked>>

\* revoked by the staff, or DEFAULT_INVITATION_TTL_HOURS have passed
LinkEnds(k) ==
    /\ Request("academy")
    /\ links[k].student # None /\ ~links[k].dead
    /\ links' = [links EXCEPT ![k].dead = TRUE]
    /\ UNCHANGED <<calendar, windows, search, lessons, deciding, inviting, asked>>

-----------------------------------------------------------------------------
(* computePossibleSlots: the rows of the coach, of each student, of each court *)
RowsOf(owner) == {toMinuteRange(w.row) : w \in {w \in windows : w.owner = owner
                                                             /\ rangesOverlap(w.row, WholeDay)}}

SearchBegins(q, d) ==
    /\ Request("academy")
    /\ search[q].step = "idle"
    /\ search' = [search EXCEPT ![q] = [NoSearch EXCEPT !.step = "rows", !.duration = d,
                                                        !.teacherRows = RowsOf("coach")]]
    /\ UNCHANGED <<calendar, windows, lessons, deciding, links, inviting, asked>>

\* what has been read so far and the answer for one more
Read(answers, x, answer) == [y \in DOMAIN answers \cup {x} |-> IF y = x THEN answer ELSE answers[y]]

ReadStudent(q, s) ==
    /\ Step("academy")
    /\ search[q].step = "rows" /\ s \notin DOMAIN search[q].studentRows
    /\ search' = [search EXCEPT ![q].studentRows = Read(@, s, RowsOf(s))]
    /\ UNCHANGED <<calendar, windows, lessons, deciding, links, inviting, asked>>

ReadCourt(q, c) ==
    /\ Step("academy")
    /\ search[q].step = "rows" /\ DOMAIN search[q].studentRows = Students
    /\ c \notin DOMAIN search[q].courtSlots
    /\ search' = [search EXCEPT ![q].courtSlots = Read(@, c, getAvailability(calendar, c))]
    /\ UNCHANGED <<calendar, windows, lessons, deciding, links, inviting, asked>>

\* product of the two lists; windows that touch are not joined
intersectRangeLists(a, b) ==
    {r \in UNION {{intersectRange(x, y) : y \in b} : x \in a} : r.from < r.to}

computePossibleLessonSlots(teacherRows, studentRows, courtSlots, d) ==
    LET common == FoldSet(LAMBDA s, w : intersectRangeLists(w, studentRows[s]),
                          teacherRows, DOMAIN studentRows)
        courtsAt(m) == {c \in DOMAIN courtSlots :
                          \E slot \in courtSlots[c] : slot.start = m /\ d \in slot.durations}
        fits(m) == isWithinAnyWindow([from |-> m, to |-> m + d], common)
    IN  {[from |-> m, to |-> m + d, courts |-> courtsAt(m)] :
            m \in {m \in SlotStarts : fits(m) /\ courtsAt(m) # {}}}

SearchAnswers(q) ==
    /\ Step("academy")
    /\ search[q].step = "rows" /\ DOMAIN search[q].courtSlots = Courts
    /\ search' = [search EXCEPT ![q].step = "answered",
                  ![q].offers = computePossibleLessonSlots(search[q].teacherRows, search[q].studentRows,
                                                           search[q].courtSlots, search[q].duration)]
    /\ UNCHANGED <<calendar, windows, lessons, deciding, links, inviting, asked>>

-----------------------------------------------------------------------------
(* The lessons.  No court is reserved by any of this. *)
proposeLesson(l) ==
    /\ Request("academy")
    /\ lessons[l].status = "absent"
    /\ lessons' = [lessons EXCEPT ![l] = [status |-> "PROPOSED", notices |-> {"PROPOSED"}]]
    /\ UNCHANGED <<calendar, windows, search, deciding, links, inviting, asked>>

AllowedFrom(to) == IF to = "CONFIRMED" THEN {"PROPOSED"} ELSE {"PROPOSED", "CONFIRMED"}

\* transitionLesson: the check, then updateLessonStatus and the notices
CheckTransition(h, l, to) ==
    /\ Request("academy")
    /\ deciding[h] = NoDecision /\ inviting[h] = None
    /\ lessons[l].status \in AllowedFrom(to)
    /\ deciding' = [deciding EXCEPT ![h] = [lesson |-> l, to |-> to]]
    /\ UNCHANGED <<calendar, windows, search, lessons, links, inviting, asked>>

updateLessonStatus(h) ==
    /\ Step("academy")
    /\ deciding[h] # NoDecision
    /\ lessons' = [lessons EXCEPT ![deciding[h].lesson].status = deciding[h].to,
                                  ![deciding[h].lesson].notices = @ \cup {deciding[h].to}]
    /\ deciding' = [deciding EXCEPT ![h] = NoDecision]
    /\ UNCHANGED <<calendar, windows, search, links, inviting, asked>>

-----------------------------------------------------------------------------
AcademyNext ==
    \/ \E r \in OpeningRules : deactivateOpeningRule(r) \/ createOpeningRule(r)
    \/ \E c \in Closures : createCourtClosure(c) \/ deleteCourtClosure(c)
    \/ \E o \in Occupations : BookingAppears(o)
    \/ \E b \in calendar.bookings : BookingMoves(b)
    \/ \E row \in FreeTimes :
        \/ addTeacherAvailability(row)
        \/ \E k \in Links, s \in Students : addStudentAvailability(k, s, row)
    \/ \E w \in windows : deleteAvailability(w)
    \/ \E k \in Links, s \in Students : submitCourseRequest(k, s)
    \/ \E h \in Handlers, s \in Students : RevokeActiveInvitations(h, s)
    \/ \E h \in Handlers, k \in Links : createInvitation(h, k)
    \/ \E k \in Links : LinkEnds(k)
    \/ \E q \in Searches :
        \/ \E d \in UNION {r.durations : r \in DurationRules} : SearchBegins(q, d)
        \/ \E s \in Students : ReadStudent(q, s)
        \/ \E c \in Courts : ReadCourt(q, c)
        \/ SearchAnswers(q)
    \/ \E l \in Lessons : proposeLesson(l)
    \/ \E h \in Handlers, l \in Lessons, to \in {"CONFIRMED", "CANCELLED"} : CheckTransition(h, l, to)
    \/ \E h \in Handlers : updateLessonStatus(h)

AcademySpec == BaseInit /\ AcademyInit /\ [][AcademyNext]_<<baseVars, academyVars>>

-----------------------------------------------------------------------------
(* Minute by minute: open and not taken *)
Playable(c, m) ==
    /\ \E r \in calendar.opening : r.active /\ r.court \in {c, None} /\ m \in r.from..(r.to - 1)
    /\ \A x \in calendar.closures : x.court = c => m \notin x.from..(x.to - 1)
    /\ \A b \in calendar.bookings : b.court = c /\ b.status # "CANCELED" => m \notin b.from..(b.to - 1)
Given(rows, m) == \E r \in rows : m \in r.from..(r.to - 1)

(* Whatever changes between the queries of a search: a slot read from the  *)
(* calendar is playable from its first to its last minute at that moment   *)
(* (slot-calculator.ts:57-80), and an offer holds a court, and no minute   *)
(* for which the coach or a student said nothing                           *)
(* (academy-scheduling.ts:77-121).  No offer is missing: a free court, and *)
(* one free time of the coach and of each student around the lesson, are   *)
(* enough.                                                                 *)
SlotsFit(q) ==
    \A c \in DOMAIN search'[q].courtSlots \ DOMAIN search[q].courtSlots :
        \A slot \in search'[q].courtSlots[c] : \A d \in slot.durations :
            \A m \in slot.start..(slot.start + d - 1) : Playable(c, m)

NoOfferTooMany(q) ==
    \A o \in search'[q].offers :
        /\ o.courts # {}
        /\ \A m \in o.from..(o.to - 1) :
            /\ Given(search[q].teacherRows, m)
            /\ \A s \in Students : Given(search[q].studentRows[s], m)

NoOfferMissing(q) ==
    \A c \in Courts : \A slot \in search[q].courtSlots[c] :
        LET lesson == [from |-> slot.start, to |-> slot.start + search[q].duration]
        IN  /\ search[q].duration \in slot.durations
            /\ isWithinAnyWindow(lesson, search[q].teacherRows)
            /\ \A s \in Students : isWithinAnyWindow(lesson, search[q].studentRows[s])
            => \E o \in search'[q].offers : o.from = lesson.from /\ c \in o.courts

SearchFits(q) ==
    /\ SlotsFit(q)
    /\ search[q].step = "rows" /\ search'[q].step = "answered" => NoOfferTooMany(q) /\ NoOfferMissing(q)

OffersFit == [][\A q \in Searches : SearchFits(q)]_<<baseVars, academyVars>>

(* The light of a court is on exactly during its bookings and their        *)
(* margins, and never goes off and on again between two that overlap or    *)
(* touch (light-interval-merger.ts:11-17).                                 *)
LightStaysOn ==
    \A c \in Courts :
        LET plan == lightIntervals(calendar.bookings, c)
            on(i, m) == m \in plan[i].from..(plan[i].to - 1)
            wanted(m) == \E b \in calendar.bookings :
                            /\ b.court = c /\ b.status = "CONFIRMED"
                            /\ m \in (b.from - MarginBefore)..(b.to + MarginAfter - 1)
        IN  /\ \A m \in (-DayMinutes)..(2 * DayMinutes) : wanted(m) <=> \E i \in DOMAIN plan : on(i, m)
            /\ \A i, j \in DOMAIN plan : i < j => plan[i].to < plan[j].from
=============================================================================

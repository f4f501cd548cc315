----------------------------- MODULE Availability -----------------------------
(***************************************************************************)
(* The calculations on one day of a court: the slots that can be booked    *)
(* (availability/slot-calculator.ts), their V2 price                       *)
(* (pricing/tariff-resolver.ts), their price at Doinsport                  *)
(* (legacy-doinsport/pricing-resolver.ts) and the intervals of its light   *)
(* (automation/light-interval-merger.ts).  The rules are those of the week *)
(* day and of the validity dates, so that neither is a field.  Minutes are *)
(* counted from midnight; a range holds its start and not its end.         *)
(***************************************************************************)
EXTENDS ClubBase, SequencesExt

CONSTANTS
    Courts,
    DayMinutes,    \* 24 * 60
    StepMinutes,   \* DEFAULT_STEP_MINUTES
    OpeningRules, DurationRules, \* rows of opening_rules and of duration_rules
    MarginBefore, MarginAfter   \* margins of the light of a court

ASSUME DayAssumption ==
    /\ DayMinutes \in Nat \ {0} /\ StepMinutes \in Nat \ {0}
    /\ MarginBefore \in Nat /\ MarginAfter \in Nat
    /\ None \notin Courts

\* start_time and end_time are times "HH:mm" of one day, the durations are positive
ASSUME RulesAssumption ==
    /\ OpeningRules \subseteq [active : BOOLEAN, court : Courts \cup {None},
                              from : 0..DayMinutes, to : 0..DayMinutes]
    /\ DurationRules \subseteq [active : BOOLEAN, court : Courts \cup {None},
                               from : 0..DayMinutes, to : 0..DayMinutes, durations : SUBSET (Nat \ {0})]

Ranges(first, last) == {r \in [from : first..last, to : first..last] : r.from < r.to}

rangesOverlap(a, b) == a.from < b.to /\ b.from < a.to
isWithinAnyWindow(r, windows) == \E w \in windows : r.from >= w.from /\ r.to <= w.to
intersectRange(a, b) == [from |-> IF a.from > b.from THEN a.from ELSE b.from,
                         to |-> IF a.to < b.to THEN a.to ELSE b.to]

-----------------------------------------------------------------------------
(* A rule is of one court or of all of them *)
findOpeningRules(rules, court) == {r \in rules : r.active /\ r.court \in {court, None}}
findDurationRules(rules, court) == {r \in rules : r.active /\ r.court \in {court, None}}

ActiveBookingStatuses ==
    {"DRAFT", "CHECKOUT_PENDING", "LEGACY_HOLD_PENDING", "PAYMENT_PENDING", "CONFIRMED"}
WholeDay == [from |-> 0, to |-> DayMinutes]

findClosures(closures, court) == {c \in closures : c.court = court /\ rangesOverlap(c, WholeDay)}
\* mutant: the bookings known to Doinsport alone are left out
FindOwnBookings(bookings, court) ==
    {b \in bookings : /\ b.court = court /\ rangesOverlap(b, WholeDay)
                      /\ b.origin = "V2" /\ b.status \in ActiveBookingStatuses}

findOccupyingBookings(bookings, court) ==
    {b \in bookings : /\ b.court = court /\ rangesOverlap(b, WholeDay)
                      /\ \/ b.origin = "V2" /\ b.status \in ActiveBookingStatuses
                         \/ b.origin = "LEGACY" /\ b.status # "CANCELED"}

\* toMinuteRange: what lies outside the day is cut off
toMinuteRange(r) == intersectRange(r, WholeDay)

allowedDurationsAt(start, rules) ==
    UNION {w.durations : w \in {w \in rules : start >= w.from /\ start < w.to}}

SlotStarts == {m \in 0..(DayMinutes - 1) : m % StepMinutes = 0}

computeAvailableSlots(opening, durations, blocked) ==
    LET valid(start) ==
            {d \in allowedDurationsAt(start, durations) :
                LET range == [from |-> start, to |-> start + d]
                IN  /\ isWithinAnyWindow(range, opening)
                    /\ \A b \in blocked : ~rangesOverlap(range, b)}
    IN  {slot \in {[start |-> m, durations |-> valid(m)] : m \in SlotStarts} : slot.durations # {}}

getAvailability(calendar, court) ==
    computeAvailableSlots(
        findOpeningRules(calendar.opening, court),
        findDurationRules(calendar.durations, court),
        {toMinuteRange(c) : c \in findClosures(calendar.closures, court)
                                  \cup findOccupyingBookings(calendar.bookings, court)})

-----------------------------------------------------------------------------
(* The price of a slot.  The identifiers of the rules are numbers: only    *)
(* their order counts.                                                     *)
matches(rule, court, start, duration) ==
    /\ rule.active /\ rule.court \in {court, None}
    /\ rule.duration = duration
    /\ start >= rule.from /\ start < rule.to

pickWinningRule(candidates) ==
    CHOOSE r \in candidates : \A o \in candidates :
        r.priority > o.priority \/ (r.priority = o.priority /\ r.id <= o.id)

RoundedShare(total, n) == (2 * total + n) \div (2 * n)   \* Math.round(total / n)

resolveTariff(rules, court, start, duration) ==
    LET candidates == {r \in rules : matches(r, court, start, duration)}
        rule == pickWinningRule(candidates)
    IN  IF candidates = {} \/ (rule.total = None /\ rule.each = None) THEN None
        ELSE IF rule.total # None
        THEN [total |-> rule.total, each |-> RoundedShare(rule.total, rule.capacity)]
        ELSE [total |-> rule.each * rule.capacity, each |-> rule.each]

\* Doinsport: of the blocks that cover the start, the most recent that has the duration
resolveBlockPrice(blocks, start, duration) ==
    LET candidates == {b \in blocks : start >= b.from /\ start < b.to /\ duration \in DOMAIN b.prices}
    IN  IF candidates = {} THEN None
        ELSE (CHOOSE b \in candidates : \A o \in candidates : b.createdAt >= o.createdAt).prices[duration]

-----------------------------------------------------------------------------
(* The light of a court: its bookings with their margins, merged *)
findOccupiedWindowsForCourt(bookings, court) ==
    {b \in bookings : /\ b.court = court
                      /\ \/ b.origin = "V2" /\ b.status \in {"CONFIRMED", "COMPLETED"}
                         \/ b.origin = "LEGACY" /\ b.status # "CANCELED"}
Padded(b) == [from |-> b.from - MarginBefore, to |-> b.to + MarginAfter]

\* mutant: intervals that touch are not joined
MergeApart(merged, current) ==
    LET last == Last(merged)
    IN  IF merged = << >> \/ current.from >= last.to THEN Append(merged, current)
        ELSE IF current.to > last.to THEN [merged EXCEPT ![Len(merged)] = [last EXCEPT !.to = current.to]]
        ELSE merged

\* one turn of the loop
mergeNext(merged, current) ==
    LET last == Last(merged)
    IN  IF merged = << >> \/ current.from > last.to THEN Append(merged, current)
        ELSE IF current.to > last.to THEN [merged EXCEPT ![Len(merged)] = [last EXCEPT !.to = current.to]]
        ELSE merged

\* the loop runs over the intervals by their start: the latest one comes last
Latest(raw) == CHOOSE x \in raw : \A y \in raw : x.from >= y.from
mergeLightIntervals(raw) ==
    LET merged[todo \in SUBSET raw] ==
            IF todo = {} THEN << >> ELSE mergeNext(merged[todo \ {Latest(todo)}], Latest(todo))
    IN  merged[raw]

lightIntervals(bookings, court) ==
    mergeLightIntervals({Padded(b) : b \in findOccupiedWindowsForCourt(bookings, court)})
=============================================================================

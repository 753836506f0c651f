------------------------------ MODULE Calendar -------------------------------
(***************************************************************************)
(* The days of a calendar: the time zone arithmetic of timezone.ts and the *)
(* window of the ICS source.  Time is in minutes, and local times and days *)
(* are counted from the same zero as UTC; a zone changes its offset once.  *)
(***************************************************************************)
EXTENDS Integers

DAY == 1440
MAX_DAYS_AHEAD == 60

Abs(n) == IF n < 0 THEN -n ELSE n

\* at: the instant from which the offset is after instead of before; no zone
\* but Samoa in 2011 has changed its offset by a day.
Zone == {z \in [at: Int, before: Int, after: Int] : Abs(z.before - z.after) < DAY}

tzOffsetMinutes(zone, t) == IF t < zone.at THEN zone.before ELSE zone.after

LocalTime(zone, t) == t + tzOffsetMinutes(zone, t)
dateStringAt(zone, t) == LocalTime(zone, t) \div DAY

\* Mutant: one guess.
utcFromLocalOnce(zone, server, local) == local - tzOffsetMinutes(zone, local - server)

\* Two guesses; the first takes the local time for one of the server's, whose
\* offset is server.
utcFromLocal(zone, server, local) ==
    LET approxOffset == tzOffsetMinutes(zone, local - server)
        firstGuess == local - approxOffset
        secondOffset == tzOffsetMinutes(zone, firstGuess)
    IN  IF secondOffset = approxOffset THEN firstGuess ELSE local - secondOffset

\* Sign, hours and minutes of "+02:00".
tzOffsetString(zone, t) ==
    LET offset == tzOffsetMinutes(zone, t)
    IN  [sign |-> IF offset < 0 THEN -1 ELSE 1,
         hh |-> Abs(offset) \div 60, mm |-> Abs(offset) % 60]

formatWithOffset(zone, t) == [local |-> LocalTime(zone, t), offset |-> tzOffsetString(zone, t)]

\* The instant such a text stands for.
Parsed(text) == text.local - text.offset.sign * (60 * text.offset.hh + text.offset.mm)

\* The configured days, in halves, rounded and limited.
resolveDaysAhead(halves) ==
    LET rounded == (halves + 1) \div 2
    IN  IF rounded < 1 THEN 1 ELSE IF rounded > MAX_DAYS_AHEAD THEN MAX_DAYS_AHEAD ELSE rounded

\* windowStart, windowEnd and todayPlus of a resolve.
Window(zone, server, today, daysAhead) ==
    LET end == utcFromLocal(zone, server, (today + daysAhead) * DAY)
    IN  [start |-> utcFromLocal(zone, server, today * DAY), end |-> end,
         todayPlus |-> dateStringAt(zone, end)]

\* An event that began before today is listed today.
ClampedDay(today, dayKey) == IF dayKey < today THEN today ELSE dayKey

\* Mutant: a day is 24 hours.
AllDayOutputByHours(zone, server, day) ==
    LET start == utcFromLocal(zone, server, day * DAY)
    IN  [start |-> formatWithOffset(zone, start), end |-> formatWithOffset(zone, start + DAY)]

\* Start and end of the output for an all-day event on a day.
AllDayOutput(zone, server, day) ==
    [start |-> formatWithOffset(zone, utcFromLocal(zone, server, day * DAY)),
     end |-> formatWithOffset(zone, utcFromLocal(zone, server, (day + 1) * DAY))]

\* The server's own day, which is what a date without a time was parsed as.
localDateString(server, t) == (t + server) \div DAY

\* The label of an all-day event is '', before every time of a day.
timeLabelAt(zone, t) == LocalTime(zone, t) % DAY
NoLabel == -1

TimedOutput(zone, instance) ==
    [start |-> formatWithOffset(zone, instance.start), end |-> formatWithOffset(zone, instance.end)]

\* Mutant: the day of an all-day event is taken in the screen's zone.
toOutputEventZoneDay(uid, instance, zone, server, today, todayPlus) ==
    LET allDay == instance.allDay
        dayKey == IF allDay THEN dateStringAt(zone, instance.start) ELSE dateStringAt(zone, instance.start)
        day == ClampedDay(today, dayKey)
        texts == IF allDay THEN AllDayOutput(zone, server, day) ELSE TimedOutput(zone, instance)
    IN  IF day >= todayPlus THEN << >>
        ELSE <<[uid |-> uid, day_label |-> day, start |-> texts.start, end |-> texts.end,
                time_label |-> IF allDay THEN NoLabel ELSE timeLabelAt(zone, instance.start)]>>

\* The output for an instance of an event, if it is not behind the window.
toOutputEvent(uid, instance, zone, server, today, todayPlus) ==
    LET allDay == instance.allDay
        dayKey == IF allDay THEN localDateString(server, instance.start) ELSE dateStringAt(zone, instance.start)
        day == ClampedDay(today, dayKey)
        texts == IF allDay THEN AllDayOutput(zone, server, day) ELSE TimedOutput(zone, instance)
    IN  IF day >= todayPlus THEN << >>
        ELSE <<[uid |-> uid, day_label |-> day, start |-> texts.start, end |-> texts.end,
                time_label |-> IF allDay THEN NoLabel ELSE timeLabelAt(zone, instance.start)]>>

=============================================================================

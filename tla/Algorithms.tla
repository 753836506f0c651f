----------------------------- MODULE Algorithms ------------------------------
(***************************************************************************)
(* The pure parts of rendering, as calls: a question is put to one of      *)
(* them, and answered in a step.  Layout, EpdPacking and Calendar hold     *)
(* what the code computes, the properties here what that is to be.         *)
(***************************************************************************)
EXTENDS Layout, EpdPacking, Agenda

CONSTANTS
    Screens,   \* screens to lay out: layoutType, width, height
    ZIndexes,  \* zIndex of their slots
    Pictures,  \* dithered canvases: pixels, palette
    Fetches,   \* resolves of a calendar: zone, server's offset, now, daysAhead in halves
    Feeds,     \* pairs of feeds to list the events of
    Listings,  \* the resolves that list them
    Nil        \* not answered yet

ASSUME AlgorithmsAssumption ==
    /\ Screens \subseteq [algorithm: {"layout"}, layoutType: Layouts, width: Nat, height: Nat]
    /\ ZIndexes \subseteq Int
    /\ \A p \in Pictures :
          /\ p.algorithm = "pack" /\ p.pixels \in Seq(Colour)
          /\ p.palette \in Seq(Colour) /\ Len(p.palette) \in 1..16
    /\ Fetches \subseteq [algorithm: {"calendar"}, zone: Zone, server: Int, now: Int, halves: Int]
    /\ Feeds \subseteq Seq(Seq(Component))
    /\ Listings \subseteq [algorithm: {"agenda"}, zone: Zone, server: Int, now: Int, halves: Int,
                           feeds: Feeds]

VARIABLES asked, answer

vars == <<asked, answer>>

Init == asked \in Screens \cup Pictures \cup Fetches \cup Listings /\ answer = Nil

\* Slots are created without coordinates, in the order of their keys or the
\* other way round, and the screen is composed.
LayOut ==
    /\ answer = Nil /\ asked.algorithm = "layout"
    /\ LET keys == IF asked.layoutType = "full" THEN <<"A">>
                   ELSE IF asked.layoutType = "2x2" THEN <<"A", "B", "C", "D">>
                   ELSE <<"A", "B">>
           n == Len(keys)
       IN  \E z \in [1..n -> ZIndexes], up \in BOOLEAN :
             LET slots == [i \in 1..n |->
                     [rect |-> PlaceOf(asked, keys[IF up THEN i ELSE n + 1 - i], << >>),
                      zIndex |-> z[i]]]
             IN  answer' = [slots |-> slots, picture |-> compose(asked, slots)]
    /\ UNCHANGED asked

Pack ==
    /\ answer = Nil /\ asked.algorithm = "pack"
    /\ answer' = canvasToPackedRaw4bpp(asked.pixels, asked.palette)
    /\ UNCHANGED asked

\* today comes from the clock, the window from today.
Resolve ==
    /\ answer = Nil /\ asked.algorithm = "calendar"
    /\ answer' = LET today == dateStringAt(asked.zone, asked.now)
                     daysAhead == resolveDaysAhead(asked.halves)
                 IN  [today |-> today, daysAhead |-> daysAhead,
                      window |-> Window(asked.zone, asked.server, today, daysAhead)]
    /\ UNCHANGED asked

\* The same, with feeds that were fetched.
ListEvents ==
    /\ answer = Nil /\ asked.algorithm = "agenda"
    /\ answer' = LET today == dateStringAt(asked.zone, asked.now)
                     daysAhead == resolveDaysAhead(asked.halves)
                     window == Window(asked.zone, asked.server, today, daysAhead)
                 IN  [today |-> today, daysAhead |-> daysAhead, window |-> window,
                      events |-> Listing(asked.feeds, asked.zone, asked.server, today, window)]
    /\ UNCHANGED asked

Next == LayOut \/ Pack \/ Resolve \/ ListEvents

Spec == Init /\ [][Next]_vars

(***************************************************************************)
(* Layout                                                                  *)
(***************************************************************************)
Laid == asked.algorithm = "layout" /\ answer # Nil

\* The slots of a layout cover every pixel of the screen once, whatever its
\* size: nothing is left white by a rounding (layout-helper.ts).
LayoutTiles ==
    Laid =>
        LET slots == getLayoutSlots(asked.layoutType, asked.width, asked.height)
        IN  \A x \in 0..asked.width - 1, y \in 0..asked.height - 1 :
                \E k \in DOMAIN slots :
                    /\ Covers(slots[k], x, y)
                    /\ \A j \in DOMAIN slots : Covers(slots[j], x, y) => j = k

\* A screen whose slots were all placed by its layout shows every slot whole,
\* whatever their order and zIndex, and stays on the canvas.
SlotsShownWhole ==
    Laid => \A i \in DOMAIN answer.slots :
        LET r == answer.slots[i].rect
        IN  /\ r.x >= 0 /\ r.y >= 0 /\ r.w >= 0 /\ r.h >= 0
            /\ r.x + r.w <= asked.width /\ r.y + r.h <= asked.height
            /\ \A x \in r.x..r.x + r.w - 1, y \in r.y..r.y + r.h - 1 : answer.picture[x][y] = i

(***************************************************************************)
(* Packing                                                                 *)
(***************************************************************************)
\* A display that unpacks the bytes shows at every pixel a palette colour
\* nearest to the one that was drawn, and the byte count is its frame's
\* (epd-image.service.ts, for palettes that fit in a nibble).
PackedShowsNearest ==
    asked.algorithm = "pack" /\ answer # Nil =>
        /\ Len(answer) = (Len(asked.pixels) + 1) \div 2
        /\ \A b \in DOMAIN answer : answer[b] \in 0..255
        /\ \A n \in DOMAIN asked.pixels :
              LET i == Unpacked(answer, n)
              IN  /\ i \in Indices(asked.palette)
                  /\ \A j \in Indices(asked.palette) :
                        Distance(asked.pixels[n], ColourAt(asked.palette, i))
                            <= Distance(asked.pixels[n], ColourAt(asked.palette, j))

(***************************************************************************)
(* Calendar                                                                *)
(***************************************************************************)
Resolved == asked.algorithm = "calendar" /\ answer # Nil

\* A local time some instant has; a change to summer time skips some.
Exists(zone, local) == \E o \in {zone.before, zone.after} : LocalTime(zone, local - o) = local

\* utcFromLocal finds the local midnights of the window whenever they exist,
\* on whichever side of a change its first guess falls (timezone.ts).
MidnightsFound ==
    Resolved =>
        LET zone == asked.zone
            first == answer.today * DAY
            last == (answer.today + answer.daysAhead) * DAY
        IN  /\ Exists(zone, first) => LocalTime(zone, answer.window.start) = first
            /\ Exists(zone, last) => LocalTime(zone, answer.window.end) = last

\* The window is of daysAhead whole days from today; where its last midnight
\* is skipped, it may lack the last of them.
WindowOfWholeDays ==
    Resolved =>
        LET last == answer.today + answer.daysAhead
        IN  /\ answer.daysAhead \in 1..MAX_DAYS_AHEAD
            /\ IF Exists(asked.zone, last * DAY)
               THEN answer.window.todayPlus = last
               ELSE answer.window.todayPlus \in {last - 1, last}

\* The window of a resolve is the days it is to be (ics.source.ts).
WindowIsRight == MidnightsFound /\ WindowOfWholeDays

\* Every event that begins in the window is listed, under its own local day
\* or under today when it began before, and its text is its instant.
EventsOnTheirDays ==
    Resolved =>
        LET today == answer.today
            last == today + answer.daysAhead
            out(t) == toOutputEvent("e", [allDay |-> FALSE, start |-> t, end |-> t + 1], asked.zone,
                                    asked.server, today, answer.window.todayPlus)
            day(t) == dateStringAt(asked.zone, t)
        IN  Exists(asked.zone, last * DAY) =>
              \A t \in {asked.zone.at + 30 * k : k \in -60..60} :
                 /\ out(t) = << >> <=> day(t) >= last
                 /\ out(t) # << >> =>
                       /\ out(t)[1].day_label = IF day(t) < today THEN today ELSE day(t)
                       /\ Parsed(out(t)[1].start) = t

\* An all-day event begins and ends at the midnights of its day, and ends
\* after it begins, even on a day with a change.
AllDayHasItsDay ==
    Resolved =>
        \A day \in answer.today..answer.today + 1 :
            LET out == AllDayOutput(asked.zone, asked.server, day)
            IN  /\ Parsed(out.start) < Parsed(out.end)
                /\ Exists(asked.zone, day * DAY) => out.start.local = day * DAY
                /\ Exists(asked.zone, (day + 1) * DAY) => out.end.local = (day + 1) * DAY

\* What the output says of an event is right, timed or all-day (ics.source.ts).
OutputIsRight == EventsOnTheirDays /\ AllDayHasItsDay

\* An instance is due when it is neither over before today nor begins after
\* the window; the dates of an all-day event are the user's.
Due(instance) ==
    LET last == answer.today + answer.daysAhead
    IN  IF instance.allDay THEN instance.start < last /\ instance.end > answer.today
        ELSE dateStringAt(asked.zone, instance.start) < last /\ instance.end > answer.window.start

\* An all-day event that is over where the user is, but not yet where the
\* server is, which takes dates for its own.
Lingers(instance) ==
    LET last == answer.today + answer.daysAhead
    IN  /\ instance.allDay /\ instance.start < last /\ instance.end <= answer.today
        /\ instance.end * DAY - asked.server > answer.window.start

DayOf(instance) ==
    IF instance.allDay THEN instance.start ELSE dateStringAt(asked.zone, instance.start)

Later(d1, d2) == IF d1 > d2 THEN d1 ELSE d2

\* A server a day or more ahead of its user's zone takes today's all-day
\* events for over: see Due.
LessThanADayApart ==
    \A offset \in {asked.zone.before, asked.zone.after} : Abs(asked.server - offset) < DAY

\* The agenda has every instance that is due, from whichever feed, once and
\* under its day (today, if it began before), and no cancelled or other one:
\* all days are compared in the user's zone or in the server's, never mixed,
\* so that neither the offset between the two nor a change of it drops,
\* doubles or misplaces one (ics.source.ts).  A window whose last midnight is
\* skipped may lack its last day (WindowOfWholeDays).
AgendaIsDue ==
    /\ asked.algorithm = "agenda" /\ answer # Nil
    /\ Exists(asked.zone, (answer.today + answer.daysAhead) * DAY)
    /\ LessThanADayApart
    =>
        LET events == answer.events
            component(p) == asked.feeds[p[1]][p[2]]
            instance(p) == component(p).instances[p[3]]
            listed == {p \in Places(asked.feeds) :
                /\ component(p).type = "VEVENT" /\ component(p).status # "CANCELLED"
                /\ component(p).expands
                /\ Due(instance(p)) \/ Lingers(instance(p))}
            entry(n) == <<events[n].uid, events[n].day_label>>
            expected(p) == <<component(p).uid, Later(answer.today, DayOf(instance(p)))>>
        IN  \A e \in {entry(n) : n \in DOMAIN events} \cup {expected(p) : p \in listed} :
              Cardinality({n \in DOMAIN events : entry(n) = e})
                = Cardinality({p \in listed : expected(p) = e})
=============================================================================

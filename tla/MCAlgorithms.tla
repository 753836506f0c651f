---------------------------- MODULE MCAlgorithms -----------------------------
(***************************************************************************)
(* Instance of Algorithms: every size of a screen from nothing to five by  *)
(* four, pictures of up to three pixels in palettes with two equal colours *)
(* and with sixteen, and changes of offset on both sides of a window's     *)
(* midnights, seen from servers to the west and to the east.               *)
(***************************************************************************)
EXTENDS Algorithms

MCScreens ==
    [algorithm: {"layout"}, layoutType: Layouts, width: 0..5, height: 0..4]

Grey(n) == <<n, n, n>>
Red == <<210, 14, 19>>
Greys == [i \in 1..16 |-> Grey(16 * (i - 1))]
MCPalettes == {<<Grey(0), Grey(255)>>, <<Grey(0), Red, Grey(0)>>, <<Red>>, Greys}
MCColours == {Grey(0), Grey(100), Grey(255), Red, <<255, 0, 0>>}

MCPictures ==
    [algorithm: {"pack"}, palette: MCPalettes, pixels: UNION {[1..n -> MCColours] : n \in 0..3}]

Offsets == {-30, 0, 60, 120}
Changes == {DAY * d + 60 * k : d \in 0..2, k \in -4..4}
MCZones == {z \in [at: Changes, before: Offsets, after: Offsets] : Abs(z.before - z.after) <= 60}

MCFetches ==
    [algorithm: {"calendar"}, zone: MCZones, server: {-300, 0, 60, 720}, now: {400, 1300},
     halves: {-3, 3, 4}]

Timed(start, end) == [allDay |-> FALSE, start |-> start, end |-> end]
AllDay(start, end) == [allDay |-> TRUE, start |-> start, end |-> end]
Event(uid, instances) ==
    [uid |-> uid, type |-> "VEVENT", status |-> "CONFIRMED", expands |-> TRUE, instances |-> instances]

\* Today is day 0 or 1, and the window ends one or two days later.
Trip == Event("trip", <<Timed(-200, 1700)>>)
Standup == Event("standup", [d \in 1..5 |-> Timed(DAY * (d - 2) + 30, DAY * (d - 2) + 60)])
Late == Event("late", <<Timed(1390, 1400), Timed(2830, 2890), Timed(4270, 4330)>>)
Holidays == {Event("holidays", <<AllDay(d, d + n)>>) : d \in -1..3, n \in 1..2}
Markets == Event("markets", [d \in 1..5 |-> AllDay(d - 2, d - 1)])
Cancelled == [Late EXCEPT !.uid = "cancelled", !.status = "CANCELLED"]
Broken == [Standup EXCEPT !.uid = "broken", !.expands = FALSE]
Todo == [Trip EXCEPT !.uid = "todo", !.type = "VTODO"]

MCFeeds ==
    {<<<<Standup, Cancelled, e>>, <<Late>>>> : e \in Holidays}
    \cup {<<<<Markets>>, <<Todo, Trip>>>>, << <<Broken, Late>>, << >> >>}

MCListings ==
    {l \in [algorithm: {"agenda"}, feeds: MCFeeds, now: {400, 1300}, halves: {2, 4},
            server: {-300, 0, 120, 720},
            zone: [at: {DAY * 2 - 240 + 60 * k : k \in 0..6}, before: Offsets, after: Offsets]] :
        Abs(l.zone.before - l.zone.after) = 60}
=============================================================================

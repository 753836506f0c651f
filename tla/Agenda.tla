------------------------------- MODULE Agenda --------------------------------
(***************************************************************************)
(* What IcsSource makes of its feeds once they are fetched: the events due *)
(* in the window, from all feeds, in the order in which they are shown.    *)
(* A feed is a sequence of components; a component has its instances, the  *)
(* one of a plain event or those of a recurring one.                       *)
(***************************************************************************)
EXTENDS Calendar, FiniteSets, Sequences

Instance == [allDay: BOOLEAN, start: Int, end: Int]
Component == [uid: STRING, type: STRING, status: STRING, expands: BOOLEAN, instances: Seq(Instance)]

\* Where the instances are: feed, component, instance.
Places(feeds) ==
    UNION {UNION {{<<f, c, k>> : k \in DOMAIN feeds[f][c].instances} : c \in DOMAIN feeds[f]} :
               f \in DOMAIN feeds}

\* ical.parseICS: a date without a time becomes the midnight of the server.
parseICS(instance, server) ==
    LET instant(n) == n * DAY - server
    IN  IF instance.allDay
        THEN [allDay |-> TRUE, start |-> instant(instance.start), end |-> instant(instance.end)]
        ELSE instance

\* ical.expandRecurringEvent keeps the instances that overlap an interval.
expandRecurringEvent(instance, from, to) == instance.start < to /\ instance.end > from

\* A cancelled event is left out, and so is one that cannot be expanded.
extractEvents(component, k, zone, server, today, window) ==
    LET instance == parseICS(component.instances[k], server)
    IN  IF /\ component.type = "VEVENT" /\ component.status # "CANCELLED" /\ component.expands
           /\ expandRecurringEvent(instance, window.start, window.end + DAY)
        THEN toOutputEvent(component.uid, instance, zone, server, today, window.todayPlus)
        ELSE << >>

\* Places in the order in which they are visited.
Visited(p, q) ==
    \/ p[1] < q[1]
    \/ p[1] = q[1] /\ p[2] < q[2]
    \/ p[1] = q[1] /\ p[2] = q[2] /\ p[3] < q[3]

\* By day, then by time; the sort is stable.
Before(a, p, b, q) ==
    \/ a.day_label < b.day_label
    \/ a.day_label = b.day_label /\ a.time_label < b.time_label
    \/ a.day_label = b.day_label /\ a.time_label = b.time_label /\ Visited(p, q)

\* The events of all feeds, each at the position that those before it leave.
Listing(feeds, zone, server, today, window) ==
    LET output == [p \in Places(feeds) |->
                      extractEvents(feeds[p[1]][p[2]], p[3], zone, server, today, window)]
        shown == {p \in Places(feeds) : output[p] # << >>}
        before == [p \in shown |-> {q \in shown : Before(output[q][1], q, output[p][1], p)}]
    IN  [n \in 1..Cardinality(shown) |->
            output[CHOOSE p \in shown : Cardinality(before[p]) = n - 1][1]]

=============================================================================

---------------------------- MODULE MCSlotRender -----------------------------
(***************************************************************************)
(* Instance of SlotRender: a calendar with two feeds beside an image, in   *)
(* production and in development, where a local feed is allowed.           *)
(***************************************************************************)
EXTENDS SlotRender

CONSTANTS calendar, picture

Public == [protocol |-> "https", literal |-> FALSE, mapped |-> FALSE, addresses |-> {"public"}]
OwnFeed == [protocol |-> "http", literal |-> TRUE, mapped |-> FALSE, addresses |-> {"loopback"}]
TwoHomed ==
    [protocol |-> "https", literal |-> FALSE, mapped |-> FALSE, addresses |-> {"public", "restricted"}]
Camera == [protocol |-> "http", literal |-> TRUE, mapped |-> FALSE, addresses |-> {"lan"}]
Mapped == [protocol |-> "https", literal |-> TRUE, mapped |-> TRUE, addresses |-> {"loopback"}]
Refused == [protocol |-> "other", literal |-> FALSE, mapped |-> FALSE, addresses |-> {"public"}]

MCSlots == {calendar, picture}
MCKind == [s \in MCSlots |-> IF s = calendar THEN "ics" ELSE "image"]
MCFeeds == [s \in MCSlots |-> IF s = calendar THEN <<OwnFeed, Public>> ELSE <<Camera>>]
MCUrls == {Public, OwnFeed, TwoHomed, Camera, Mapped, Refused}
MCCap == [ics |-> 1, image |-> 2]
MCScriptCapable == {picture}
=============================================================================

------------------------------- MODULE Layout --------------------------------
(***************************************************************************)
(* From the layout of a screen to the pixels of its picture: where         *)
(* getLayoutSlots puts the slots, what the creation of a slot takes from   *)
(* it, and which slot the composed picture shows at a pixel.               *)
(***************************************************************************)
EXTENDS Integers, Sequences

Rect(x, y, w, h) == [x |-> x, y |-> y, w |-> w, h |-> h]

Layouts == {"full", "split-50-50", "top-bottom", "2x2"}

SlotKeys(layoutType) ==
    IF layoutType = "full" THEN {"A"}
    ELSE IF layoutType = "2x2" THEN {"A", "B", "C", "D"}
    ELSE {"A", "B"}

\* Mutant: the second half is rounded down, too.
getLayoutSlotsDown(layoutType, width, height) ==
    LET w == width \div 2
        h == height \div 2
    IN  [k \in SlotKeys(layoutType) |->
            IF layoutType = "full" THEN Rect(0, 0, width, height)
            ELSE IF layoutType = "split-50-50"
                 THEN Rect(IF k = "A" THEN 0 ELSE w, 0, w, height)
            ELSE IF layoutType = "top-bottom"
                 THEN Rect(0, IF k = "A" THEN 0 ELSE h, width, h)
            ELSE Rect(IF k \in {"A", "C"} THEN 0 ELSE w, IF k \in {"A", "B"} THEN 0 ELSE h, w, h)]

\* The first half is rounded down and the second up.
getLayoutSlots(layoutType, width, height) ==
    LET w1 == width \div 2    w2 == width - w1
        h1 == height \div 2   h2 == height - h1
    IN  [k \in SlotKeys(layoutType) |->
            IF layoutType = "full" THEN Rect(0, 0, width, height)
            ELSE IF layoutType = "split-50-50"
                 THEN IF k = "A" THEN Rect(0, 0, w1, height) ELSE Rect(w1, 0, w2, height)
            ELSE IF layoutType = "top-bottom"
                 THEN IF k = "A" THEN Rect(0, 0, width, h1) ELSE Rect(0, h1, width, h2)
            ELSE IF k = "A" THEN Rect(0, 0, w1, h1)
            ELSE IF k = "B" THEN Rect(w1, 0, w2, h1)
            ELSE IF k = "C" THEN Rect(0, h1, w1, h2)
            ELSE Rect(w1, h1, w2, h2)]

\* Mutant: width and height the wrong way round.
PlaceOfTurned(screen, key, given) ==
    LET layoutType == IF screen.layoutType \in Layouts THEN screen.layoutType ELSE "full"
        slots == getLayoutSlots(layoutType, screen.height, screen.width)
    IN  [c \in {"x", "y", "w", "h"} |->
            IF c \in DOMAIN given THEN given[c]
            ELSE IF key \in DOMAIN slots THEN slots[key][c] ELSE 0]

\* The place of a slot created with the coordinates in given: the layout fills
\* in the missing ones, and 0 those of a key the layout does not have.
PlaceOf(screen, key, given) ==
    LET layoutType == IF screen.layoutType \in Layouts THEN screen.layoutType ELSE "full"
        slots == getLayoutSlots(layoutType, screen.width, screen.height)
    IN  [c \in {"x", "y", "w", "h"} |->
            IF c \in DOMAIN given THEN given[c]
            ELSE IF key \in DOMAIN slots THEN slots[key][c] ELSE 0]

Covers(r, x, y) == /\ r.x <= x /\ x < r.x + r.w
                   /\ r.y <= y /\ y < r.y + r.h

\* slots is a sequence in the order of renderOrder; sort is stable, and a
\* later layer is painted over an earlier one.
OnTop(slots, i, j) ==
    \/ slots[i].zIndex > slots[j].zIndex
    \/ slots[i].zIndex = slots[j].zIndex /\ i >= j

\* The slot compose shows at a pixel, 0 for the white ground.
Shown(slots, x, y) ==
    LET layers == {i \in DOMAIN slots : Covers(slots[i].rect, x, y)}
    IN  IF layers = {} THEN 0 ELSE CHOOSE i \in layers : \A j \in layers : OnTop(slots, i, j)

compose(screen, slots) ==
    [x \in 0..screen.width - 1 |-> [y \in 0..screen.height - 1 |-> Shown(slots, x, y)]]
=============================================================================

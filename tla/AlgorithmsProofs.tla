--------------------------- MODULE AlgorithmsProofs --------------------------
(***************************************************************************)
(* Theorems about Algorithms: the layouts tile screens of every size and   *)
(* show every slot whole; packed pictures show the nearest colours; and,   *)
(* for every zone with one change of offset and every offset of the        *)
(* server, utcFromLocal finds every local midnight there is, events have   *)
(* their days, and the agenda has every instance that is due once.         *)
(***************************************************************************)
EXTENDS Algorithms, TLAPS, FiniteSetTheorems, SequenceTheorems

LEMMA Halves ==
    ASSUME NEW n \in Nat
    PROVE  n \div 2 \in 0..n
OBVIOUS

LEMMA LayoutCoversOnce ==
    ASSUME NEW layoutType \in Layouts, NEW width \in Nat, NEW height \in Nat,
           NEW x \in 0..width - 1, NEW y \in 0..height - 1
    PROVE  LET slots == getLayoutSlots(layoutType, width, height)
           IN  \E k \in DOMAIN slots :
                  /\ Covers(slots[k], x, y)
                  /\ \A j \in DOMAIN slots : Covers(slots[j], x, y) => j = k
<1> DEFINE slots == getLayoutSlots(layoutType, width, height)
           w1 == width \div 2
           h1 == height \div 2
           key == IF layoutType = "full" THEN "A"
                  ELSE IF layoutType = "split-50-50" THEN IF x < w1 THEN "A" ELSE "B"
                  ELSE IF layoutType = "top-bottom" THEN IF y < h1 THEN "A" ELSE "B"
                  ELSE IF y < h1 THEN IF x < w1 THEN "A" ELSE "B"
                  ELSE IF x < w1 THEN "C" ELSE "D"
<1>1. w1 \in 0..width /\ h1 \in 0..height
  BY Halves
<1>2. DOMAIN slots = SlotKeys(layoutType) /\ key \in SlotKeys(layoutType)
  BY DEF getLayoutSlots, SlotKeys, Layouts
<1>3. \A k \in SlotKeys(layoutType) : Covers(slots[k], x, y) <=> k = key
  <2> HIDE DEF w1, h1
  <2>1. CASE layoutType = "full"
    BY <2>1, <1>1 DEF getLayoutSlots, SlotKeys, Covers, Rect
  <2>2. CASE layoutType = "split-50-50"
    BY <2>2, <1>1 DEF getLayoutSlots, SlotKeys, Covers, Rect, w1, h1
  <2>3. CASE layoutType = "top-bottom"
    BY <2>3, <1>1 DEF getLayoutSlots, SlotKeys, Covers, Rect, w1, h1
  <2>4. CASE layoutType = "2x2"
    BY <2>4, <1>1 DEF getLayoutSlots, SlotKeys, Covers, Rect, w1, h1
  <2> QED
    BY <2>1, <2>2, <2>3, <2>4 DEF Layouts
<1> QED
  BY <1>2, <1>3

LEMMA LocalTimeFound ==
    ASSUME NEW zone \in Zone, NEW server \in Int, NEW local \in Int, Exists(zone, local)
    PROVE  LocalTime(zone, utcFromLocal(zone, server, local)) = local
<1>1. zone.at \in Int /\ zone.before \in Int /\ zone.after \in Int
  BY DEF Zone
<1> QED
  BY <1>1 DEF Exists, LocalTime, utcFromLocal, tzOffsetMinutes

LEMMA DayFound ==
    ASSUME NEW zone \in Zone, NEW server \in Int, NEW day \in Int
    PROVE  LET found == dateStringAt(zone, utcFromLocal(zone, server, day * DAY))
           IN  IF Exists(zone, day * DAY) THEN found = day ELSE found \in {day - 1, day}
<1> DEFINE midnight == day * 1440
           found == utcFromLocal(zone, server, midnight)
<1>1. /\ zone.at \in Int /\ zone.before \in Int /\ zone.after \in Int
      /\ zone.before - zone.after < 1440 /\ zone.after - zone.before < 1440
  BY DEF Zone, Abs, DAY
<1>2. midnight \in Int /\ midnight = day * DAY
  BY DEF DAY
<1>3. Exists(zone, midnight) => LocalTime(zone, found) = midnight
  BY <1>2, LocalTimeFound
<1>4. LocalTime(zone, found) \in midnight - 1439..midnight + 1439
  <2> HIDE DEF midnight
  <2> QED
    BY <1>1, <1>2 DEF LocalTime, utcFromLocal, tzOffsetMinutes
<1>5. found = utcFromLocal(zone, server, day * DAY)
  BY <1>2
<1>6. dateStringAt(zone, found) = LocalTime(zone, found) \div 1440
  BY DEF dateStringAt, DAY
<1> HIDE DEF found
<1>7. LocalTime(zone, found) \div 1440 \in {day - 1, day}
  BY <1>4
<1>8. LocalTime(zone, found) = midnight => LocalTime(zone, found) \div 1440 = day
  OBVIOUS
<1> QED
  BY <1>2, <1>3, <1>5, <1>6, <1>7, <1>8

(***************************************************************************)
(* The invariant that the properties rest on                               *)
(***************************************************************************)
LaidAsAsked ==
    asked \in Screens /\ answer # Nil =>
        /\ answer.picture = compose(asked, answer.slots)
        /\ \E key \in [DOMAIN answer.slots -> SlotKeys(asked.layoutType)] :
              /\ \A i, j \in DOMAIN answer.slots : key[i] = key[j] => i = j
              /\ \A i \in DOMAIN answer.slots : answer.slots[i].rect = PlaceOf(asked, key[i], << >>)

PackedAsAsked ==
    asked \in Pictures /\ answer # Nil =>
        answer = canvasToPackedRaw4bpp(asked.pixels, asked.palette)

WindowAsAsked ==
    asked \in Fetches \cup Listings /\ answer # Nil =>
        /\ answer.today = dateStringAt(asked.zone, asked.now)
        /\ answer.daysAhead = resolveDaysAhead(asked.halves)
        /\ answer.window = Window(asked.zone, asked.server, answer.today, answer.daysAhead)

ListedAsAsked ==
    asked \in Listings /\ answer # Nil =>
        answer.events = Listing(asked.feeds, asked.zone, asked.server, answer.today, answer.window)

AlgorithmsInv ==
    /\ asked \in Screens \cup Pictures \cup Fetches \cup Listings
    /\ LaidAsAsked /\ PackedAsAsked /\ WindowAsAsked /\ ListedAsAsked

LEMMA OneAlgorithmEach ==
    ASSUME asked \in Screens \cup Pictures \cup Fetches \cup Listings
    PROVE  /\ asked \in Screens <=> asked.algorithm = "layout"
           /\ asked \in Pictures <=> asked.algorithm = "pack"
           /\ asked \in Fetches <=> asked.algorithm = "calendar"
           /\ asked \in Listings <=> asked.algorithm = "agenda"
BY AlgorithmsAssumption

LEMMA LayOutAnswers == ASSUME AlgorithmsInv, LayOut PROVE AlgorithmsInv'
<1>1. asked \in Screens /\ asked.layoutType \in Layouts /\ asked' = asked
  BY OneAlgorithmEach, AlgorithmsAssumption DEF LayOut, AlgorithmsInv
<1>2. asked' \notin Pictures /\ asked' \notin Fetches \cup Listings
  BY <1>1, OneAlgorithmEach DEF AlgorithmsInv
<1> DEFINE keys == IF asked.layoutType = "full" THEN <<"A">>
                   ELSE IF asked.layoutType = "2x2" THEN <<"A", "B", "C", "D">>
                   ELSE <<"A", "B">>
           n == Len(keys)
<1>3. /\ n \in Nat /\ \A i \in 1..n : keys[i] \in SlotKeys(asked.layoutType)
      /\ \A i, j \in 1..n : keys[i] = keys[j] => i = j
  BY <1>1 DEF SlotKeys, Layouts
<1>4. PICK z \in [1..n -> ZIndexes], up \in BOOLEAN :
        LET slots == [i \in 1..n |->
                [rect |-> PlaceOf(asked, keys[IF up THEN i ELSE n + 1 - i], << >>), zIndex |-> z[i]]]
        IN  answer' = [slots |-> slots, picture |-> compose(asked, slots)]
  BY DEF LayOut
<1> HIDE DEF keys, n
<1> DEFINE key == [i \in 1..n |-> keys[IF up THEN i ELSE n + 1 - i]]
           slots == [i \in 1..n |-> [rect |-> PlaceOf(asked, key[i], << >>), zIndex |-> z[i]]]
<1>5. /\ key \in [1..n -> SlotKeys(asked.layoutType)]
      /\ \A i, j \in 1..n : key[i] = key[j] => i = j
  <2>1. \A i \in 1..n : (IF up THEN i ELSE n + 1 - i) \in 1..n
    BY <1>3
  <2>2. \A i, j \in 1..n : (IF up THEN i ELSE n + 1 - i) = (IF up THEN j ELSE n + 1 - j) => i = j
    BY <1>3
  <2> QED
    BY <1>3, <2>1, <2>2
<1>6. slots = [i \in 1..n |->
          [rect |-> PlaceOf(asked, keys[IF up THEN i ELSE n + 1 - i], << >>), zIndex |-> z[i]]]
  OBVIOUS
<1> HIDE DEF slots
<1>7. answer'.slots = slots /\ answer'.picture = compose(asked, slots)
  BY <1>4, <1>6
<1>8. DOMAIN slots = 1..n /\ \A i \in 1..n : slots[i].rect = PlaceOf(asked, key[i], << >>)
  BY DEF slots
<1> HIDE DEF key
<1>9. LaidAsAsked'
  BY <1>1, <1>5, <1>7, <1>8 DEF LaidAsAsked
<1> QED
  BY <1>1, <1>2, <1>9 DEF AlgorithmsInv, PackedAsAsked, WindowAsAsked, ListedAsAsked

LEMMA Invariance == Spec => []AlgorithmsInv
<1>1. Init => AlgorithmsInv
  BY DEF Init, AlgorithmsInv, LaidAsAsked, PackedAsAsked, WindowAsAsked, ListedAsAsked
<1>2. AlgorithmsInv /\ [Next]_vars => AlgorithmsInv'
  <2> SUFFICES ASSUME AlgorithmsInv, [Next]_vars PROVE AlgorithmsInv'
    OBVIOUS
  <2>1. CASE LayOut
    BY <2>1, LayOutAnswers
  <2>2. CASE Pack
    BY <2>2, OneAlgorithmEach
       DEF Pack, AlgorithmsInv, LaidAsAsked, PackedAsAsked, WindowAsAsked, ListedAsAsked
  <2>3. CASE Resolve
    BY <2>3, OneAlgorithmEach
       DEF Resolve, AlgorithmsInv, LaidAsAsked, PackedAsAsked, WindowAsAsked, ListedAsAsked
  <2>4. CASE ListEvents
    BY <2>4, OneAlgorithmEach
       DEF ListEvents, AlgorithmsInv, LaidAsAsked, PackedAsAsked, WindowAsAsked, ListedAsAsked
  <2>5. CASE UNCHANGED vars
    BY <2>5 DEF vars, AlgorithmsInv, LaidAsAsked, PackedAsAsked, WindowAsAsked, ListedAsAsked
  <2> QED
    BY <2>1, <2>2, <2>3, <2>4, <2>5 DEF Next
<1> QED
  BY <1>1, <1>2, PTL DEF Spec

\* Every layout covers every pixel of a screen of any size exactly once.
THEOREM LayoutsTile == Spec => []LayoutTiles
<1>1. AlgorithmsInv => LayoutTiles
  <2> SUFFICES ASSUME AlgorithmsInv, Laid PROVE LayoutTiles
    BY DEF LayoutTiles
  <2>1. asked \in Screens
    BY OneAlgorithmEach DEF AlgorithmsInv, Laid
  <2>2. asked.layoutType \in Layouts /\ asked.width \in Nat /\ asked.height \in Nat
    BY <2>1, AlgorithmsAssumption
  <2> QED
    BY <2>2, LayoutCoversOnce DEF LayoutTiles
<1> QED
  BY <1>1, Invariance, PTL

\* A slot created without coordinates lies where its layout puts its key.
LEMMA PlacedByLayout ==
    ASSUME NEW screen, screen.layoutType \in Layouts, NEW key \in SlotKeys(screen.layoutType)
    PROVE  LET place == PlaceOf(screen, key, << >>)
               rect == getLayoutSlots(screen.layoutType, screen.width, screen.height)[key]
           IN  place.x = rect.x /\ place.y = rect.y /\ place.w = rect.w /\ place.h = rect.h
<1> DEFINE slots == getLayoutSlots(screen.layoutType, screen.width, screen.height)
<1>1. DOMAIN slots = SlotKeys(screen.layoutType)
  BY DEF getLayoutSlots
<1>2. \A c \in {"x", "y", "w", "h"} : c \notin DOMAIN << >>
  OBVIOUS
<1> HIDE DEF slots
<1>3. PlaceOf(screen, key, << >>) = [c \in {"x", "y", "w", "h"} |-> slots[key][c]]
  BY <1>1, <1>2 DEF PlaceOf, slots
<1> QED
  BY <1>3 DEF slots

LEMMA LayoutFits ==
    ASSUME NEW layoutType \in Layouts, NEW width \in Nat, NEW height \in Nat,
           NEW key \in SlotKeys(layoutType)
    PROVE  LET r == getLayoutSlots(layoutType, width, height)[key]
           IN  /\ r.x \in Nat /\ r.y \in Nat /\ r.w \in Nat /\ r.h \in Nat
               /\ r.x + r.w <= width /\ r.y + r.h <= height
<1> DEFINE w1 == width \div 2
           h1 == height \div 2
<1>1. w1 \in 0..width /\ h1 \in 0..height
  BY Halves
<1> HIDE DEF w1, h1
<1> QED
  BY <1>1 DEF getLayoutSlots, SlotKeys, Rect, Layouts, w1, h1

\* The only layer at a pixel is the one that is shown.
LEMMA OnlyLayerShown ==
    ASSUME NEW slots, NEW x, NEW y, NEW i \in DOMAIN slots,
           \A j \in DOMAIN slots : Covers(slots[j].rect, x, y) <=> j = i
    PROVE  Shown(slots, x, y) = i
<1> DEFINE layers == {j \in DOMAIN slots : Covers(slots[j].rect, x, y)}
<1>1. layers = {i}
  OBVIOUS
<1> QED
  BY <1>1 DEF Shown, OnTop

\* Every slot of a composed screen that its layout placed is seen whole, for
\* screens of any size, slots in any order and with any zIndex.
THEOREM SlotsAreShownWhole == Spec => []SlotsShownWhole
<1>1. AlgorithmsInv => SlotsShownWhole
  <2> SUFFICES ASSUME AlgorithmsInv, Laid, NEW i \in DOMAIN answer.slots
               PROVE  LET r == answer.slots[i].rect
                      IN  /\ r.x >= 0 /\ r.y >= 0 /\ r.w >= 0 /\ r.h >= 0
                          /\ r.x + r.w <= asked.width /\ r.y + r.h <= asked.height
                          /\ \A x \in r.x..r.x + r.w - 1, y \in r.y..r.y + r.h - 1 :
                                answer.picture[x][y] = i
    BY DEF SlotsShownWhole
  <2> DEFINE slots == answer.slots
             places == getLayoutSlots(asked.layoutType, asked.width, asked.height)
             r == slots[i].rect
  <2>1. /\ asked \in Screens
        /\ asked.layoutType \in Layouts /\ asked.width \in Nat /\ asked.height \in Nat
    BY OneAlgorithmEach, AlgorithmsAssumption DEF AlgorithmsInv, Laid
  <2>2. answer.picture = compose(asked, slots)
    BY <2>1 DEF AlgorithmsInv, LaidAsAsked, Laid
  <2>3. PICK key \in [DOMAIN slots -> SlotKeys(asked.layoutType)] :
          /\ \A j, k \in DOMAIN slots : key[j] = key[k] => j = k
          /\ \A j \in DOMAIN slots : slots[j].rect = PlaceOf(asked, key[j], << >>)
    BY <2>1 DEF AlgorithmsInv, LaidAsAsked, Laid
  <2> HIDE DEF slots, places
  <2>4. \A j \in DOMAIN slots :
          LET s == slots[j].rect
              p == places[key[j]]
          IN  s.x = p.x /\ s.y = p.y /\ s.w = p.w /\ s.h = p.h
    BY <2>1, <2>3, PlacedByLayout DEF places
  <2>5. /\ r.x \in Nat /\ r.y \in Nat /\ r.w \in Nat /\ r.h \in Nat
        /\ r.x + r.w <= asked.width /\ r.y + r.h <= asked.height
    <3>1. i \in DOMAIN slots /\ key[i] \in SlotKeys(asked.layoutType)
      BY <2>3 DEF slots
    <3> DEFINE p == places[key[i]]
    <3>2. /\ p.x \in Nat /\ p.y \in Nat /\ p.w \in Nat /\ p.h \in Nat
          /\ p.x + p.w <= asked.width /\ p.y + p.h <= asked.height
      BY <2>1, <3>1, LayoutFits DEF places
    <3> QED
      BY <2>4, <3>1, <3>2
  <2>6. ASSUME NEW x \in r.x..r.x + r.w - 1, NEW y \in r.y..r.y + r.h - 1
        PROVE  answer.picture[x][y] = i
    <3>1. x \in 0..asked.width - 1 /\ y \in 0..asked.height - 1
      BY <2>1, <2>5
    <3>2. \A j \in DOMAIN slots : Covers(slots[j].rect, x, y) <=> Covers(places[key[j]], x, y)
      BY <2>4 DEF Covers
    <3>3. i \in DOMAIN slots
      BY DEF slots
    <3>4. Covers(r, x, y)
      BY <2>5 DEF Covers
    <3>5. DOMAIN places = SlotKeys(asked.layoutType)
      BY DEF places, getLayoutSlots
    <3>6. \E k \in DOMAIN places : \A j \in DOMAIN places : Covers(places[j], x, y) => j = k
      BY <2>1, <3>1, LayoutCoversOnce DEF places
    <3>7. \A j \in DOMAIN slots : Covers(slots[j].rect, x, y) <=> j = i
      BY <2>3, <3>2, <3>3, <3>4, <3>5, <3>6
    <3>8. Shown(slots, x, y) = i
      BY <3>3, <3>7, OnlyLayerShown
    <3> QED
      BY <2>2, <3>1, <3>8 DEF compose
  <2> QED
    BY <2>1, <2>5, <2>6 DEF slots
<1> QED
  BY <1>1, Invariance, PTL

(***************************************************************************)
(* Packing                                                                 *)
(***************************************************************************)
LEMMA LeastNatural ==
    ASSUME NEW S \in SUBSET Nat, S # {}
    PROVE  \E m \in S : \A k \in S : m <= k
<1>1. PICK m \in S : \A k \in S : ~(<<k, m>> \in OpToRel(<, Nat))
  BY WFMin, NatLessThanWellFounded
<1>2. \A k \in S : k < m => <<k, m>> \in OpToRel(<, Nat)
  BY DEF OpToRel
<1>3. \A k \in S : ~(k < m)
  BY <1>1, <1>2, Zenon
<1> QED
  BY <1>3

LEMMA MaxOfIndices ==
    ASSUME NEW n \in Nat, NEW S \in SUBSET (0..n), S # {}
    PROVE  Max(S) \in S
<1>1. PICK m \in {n - i : i \in S} : \A k \in {n - i : i \in S} : m <= k
  <2>1. \A i \in S : n - i \in Nat
    <3> SUFFICES ASSUME NEW i \in S PROVE n - i \in Nat
      OBVIOUS
    <3>1. i \in 0..n
      OBVIOUS
    <3> QED
      BY <3>1
  <2>2. {n - i : i \in S} \in SUBSET Nat /\ {n - i : i \in S} # {}
    BY <2>1
  <2> QED
    BY <2>2, LeastNatural
<1>2. n - m \in S /\ \A i \in S : n - m >= i
  BY <1>1
<1> QED
  BY <1>2 DEF Max

LEMMA MinOfIndices ==
    ASSUME NEW S \in SUBSET Nat, S # {}
    PROVE  Min(S) \in S
BY LeastNatural DEF Min

LEMMA IndicesUpTo ==
    ASSUME NEW palette, Len(palette) \in 1..16
    PROVE  /\ Len(palette) - 1 \in Nat /\ Indices(palette) = 0..Len(palette) - 1
           /\ Indices(palette) \subseteq 0..15
<1>1. PICK n \in 1..16 : n = Len(palette)
  BY Zenon
<1>2. Indices(palette) = 0..n - 1
  BY <1>1, Zenon DEF Indices
<1>3. n - 1 \in Nat /\ 0..n - 1 \subseteq 0..15
  OBVIOUS
<1> QED
  BY <1>1, <1>2, <1>3, Zenon

LEMMA Squares == \A n \in Int : n * n \in Nat
OBVIOUS

LEMMA SumOfSquares ==
    ASSUME NEW r \in Int, NEW g \in Int, NEW b \in Int
    PROVE  r * r + g * g + b * b \in Nat
BY Squares

LEMMA Distances ==
    ASSUME NEW c \in Colour, NEW d \in Colour
    PROVE  Distance(c, d) \in Nat /\ Distance(c, c) = 0
<1>1. /\ c[1] \in Int /\ c[2] \in Int /\ c[3] \in Int
      /\ d[1] \in Int /\ d[2] \in Int /\ d[3] \in Int
  BY DEF Colour
<1>2. c[1] - d[1] \in Int /\ c[2] - d[2] \in Int /\ c[3] - d[3] \in Int
  BY <1>1
<1>3. Distance(c, d) \in Nat
  BY <1>2, SumOfSquares DEF Distance
<1>4. c[1] - c[1] = 0 /\ c[2] - c[2] = 0 /\ c[3] - c[3] = 0
  BY <1>1
<1> QED
  BY <1>3, <1>4 DEF Distance

\* rgbToPaletteIndex finds an index of the palette, and no colour of the
\* palette is nearer than the one there.
LEMMA IndexOfNearest ==
    ASSUME NEW palette \in Seq(Colour), Len(palette) \in 1..16, NEW c \in Colour
    PROVE  LET i == rgbToPaletteIndex(c, palette)
           IN  /\ i \in Indices(palette)
               /\ \A j \in Indices(palette) :
                     Distance(c, ColourAt(palette, i)) <= Distance(c, ColourAt(palette, j))
<1> DEFINE n == Len(palette) - 1
           d(k) == Distance(c, ColourAt(palette, k))
           exact == {k \in Indices(palette) : ColourAt(palette, k) = c}
           nearest == {k \in Indices(palette) : \A j \in Indices(palette) : d(k) <= d(j)}
<1>1. n \in Nat /\ Indices(palette) = 0..n
  BY IndicesUpTo, Zenon
<1>2. \A k \in 0..n : ColourAt(palette, k) \in Colour
  BY ElementOfSeq DEF ColourAt
<1>3. \A k \in 0..n : d(k) \in Nat
  BY <1>2, Distances
<1>4. rgbToPaletteIndex(c, palette) =
        IF exact # {} THEN Max(exact) ELSE IF nearest = {} THEN 0 ELSE Min(nearest)
  BY DEF rgbToPaletteIndex
<1>5. CASE exact # {}
  <2>1. rgbToPaletteIndex(c, palette) \in exact
    BY <1>1, <1>4, <1>5, MaxOfIndices
  <2>2. \A k \in exact : d(k) = 0
    BY Distances
  <2> QED
    BY <1>1, <1>3, <2>1, <2>2
<1>6. CASE exact = {}
  <2>1. nearest # {}
    <3>1. PICK m \in {d(k) : k \in 0..n} : \A e \in {d(k) : k \in 0..n} : m <= e
      <4> HIDE DEF d
      <4>1. {d(k) : k \in 0..n} \in SUBSET Nat /\ {d(k) : k \in 0..n} # {}
        BY <1>1, <1>3
      <4> QED
        BY <4>1, LeastNatural
    <3> QED
      BY <1>1, <3>1
  <2>2. rgbToPaletteIndex(c, palette) \in nearest
    <3>1. nearest \in SUBSET Nat
      BY <1>1
    <3> QED
      BY <1>4, <1>6, <2>1, <3>1, MinOfIndices
  <2> QED
    BY <2>2
<1> QED
  BY <1>5, <1>6

\* Two nibbles of a byte come apart again.
LEMMA PairsOf ==
    ASSUME NEW n \in Nat
    PROVE  LET pairs == (n + 1) \div 2 IN pairs \in Nat /\ (n = 2 * pairs \/ n = 2 * pairs - 1)
OBVIOUS

LEMMA PairOf ==
    ASSUME NEW pairs \in Nat, NEW n \in 1..2 * pairs
    PROVE  LET b == (n + 1) \div 2
           IN  b \in 1..pairs /\ n = (IF n % 2 = 1 THEN 2 * b - 1 ELSE 2 * b)
OBVIOUS

LEMMA Nibbles ==
    ASSUME NEW p \in 0..15, NEW q \in 0..15
    PROVE  LET byte == Nibble(p) * 16 + Nibble(q)
           IN  byte \in 0..255 /\ byte \div 16 = p /\ byte % 16 = q
BY DEF Nibble

\* One byte for two pixels, and the indices come back out of the bytes.
LEMMA PackedIndices ==
    ASSUME NEW pixels \in Seq(Colour), NEW palette \in Seq(Colour), Len(palette) \in 1..16
    PROVE  LET bytes == canvasToPackedRaw4bpp(pixels, palette)
           IN  /\ Len(bytes) = (Len(pixels) + 1) \div 2
               /\ \A b \in DOMAIN bytes : bytes[b] \in 0..255
               /\ \A n \in DOMAIN pixels : Unpacked(bytes, n) = rgbToPaletteIndex(pixels[n], palette)
<1> DEFINE bytes == canvasToPackedRaw4bpp(pixels, palette)
           index(n) == IF n <= Len(pixels) THEN rgbToPaletteIndex(pixels[n], palette) ELSE Padding
           pairs == (Len(pixels) + 1) \div 2
<1>1. PICK count \in Nat : count = Len(pixels)
  BY LenProperties
<1>2. DOMAIN pixels = 1..count
  BY <1>1, LenProperties
<1>3. /\ pairs \in Nat /\ (count = 2 * pairs \/ count = 2 * pairs - 1)
      /\ bytes = [b \in 1..pairs |-> Nibble(index(2 * b - 1)) * 16 + Nibble(index(2 * b))]
  BY <1>1, PairsOf DEF canvasToPackedRaw4bpp
<1>4. \A n \in Nat \ {0} : index(n) \in 0..15
  <2> SUFFICES ASSUME NEW n \in Nat \ {0} PROVE index(n) \in 0..15
    OBVIOUS
  <2>1. CASE n <= count
    <3>1. pixels[n] \in Colour
      BY <1>1, <1>2, <2>1, ElementOfSeq
    <3>2. rgbToPaletteIndex(pixels[n], palette) \in Indices(palette)
      BY <3>1, IndexOfNearest
    <3>3. Indices(palette) \subseteq 0..15
      BY IndicesUpTo, Zenon
    <3> QED
      BY <1>1, <2>1, <3>2, <3>3
  <2>2. CASE ~(n <= count)
    BY <1>1, <2>2 DEF Padding
  <2> QED
    BY <2>1, <2>2
<1> HIDE DEF pairs, bytes
<1>5. \A n \in 1..count : index(n) = rgbToPaletteIndex(pixels[n], palette)
  BY <1>1
<1> HIDE DEF index
<1>6. ASSUME NEW b \in 1..pairs
      PROVE  /\ bytes[b] \in 0..255
             /\ bytes[b] \div 16 = index(2 * b - 1) /\ bytes[b] % 16 = index(2 * b)
  <2>1. 2 * b - 1 \in Nat \ {0} /\ 2 * b \in Nat \ {0}
    BY <1>3
  <2>2. PICK p \in 0..15, q \in 0..15 : p = index(2 * b - 1) /\ q = index(2 * b)
    BY <1>4, <2>1, Zenon
  <2>3. bytes[b] = Nibble(p) * 16 + Nibble(q)
    BY <1>3, <2>2
  <2> DEFINE byte == Nibble(p) * 16 + Nibble(q)
  <2>4. byte \in 0..255 /\ byte \div 16 = p /\ byte % 16 = q
    BY Nibbles, Zenon
  <2> HIDE DEF byte
  <2>5. bytes[b] = byte
    BY <2>3 DEF byte
  <2> QED
    BY <2>2, <2>4, <2>5, Zenon
<1>7. ASSUME NEW n \in 1..count
      PROVE  Unpacked(bytes, n) = rgbToPaletteIndex(pixels[n], palette)
  <2> DEFINE b == (n + 1) \div 2
  <2>1. n \in 1..2 * pairs
    BY <1>3
  <2>2. b \in 1..pairs /\ n = (IF n % 2 = 1 THEN 2 * b - 1 ELSE 2 * b)
    BY <1>3, <2>1, PairOf
  <2>3. bytes[b] \div 16 = index(2 * b - 1) /\ bytes[b] % 16 = index(2 * b)
    BY <1>6, <2>2
  <2>4. Unpacked(bytes, n) = IF n % 2 = 1 THEN bytes[b] \div 16 ELSE bytes[b] % 16
    BY DEF Unpacked
  <2> HIDE DEF b
  <2>5. Unpacked(bytes, n) = index(n)
    <3>1. CASE n % 2 = 1
      BY <2>2, <2>3, <2>4, <3>1
    <3>2. CASE n % 2 # 1
      BY <2>2, <2>3, <2>4, <3>2
    <3> QED
      BY <3>1, <3>2
  <2> QED
    BY <1>5, <2>5
<1>8. Len(bytes) = pairs /\ DOMAIN bytes = 1..pairs
  BY <1>3
<1> QED
  BY <1>2, <1>6, <1>7, <1>8 DEF bytes, pairs

\* What a display unpacks is, at every pixel, a nearest palette colour, for
\* pictures of any size and palettes of up to sixteen colours.
THEOREM NearestIsShown == Spec => []PackedShowsNearest
<1>1. AlgorithmsInv => PackedShowsNearest
  <2> SUFFICES ASSUME AlgorithmsInv, asked.algorithm = "pack", answer # Nil
               PROVE  PackedShowsNearest
    BY DEF PackedShowsNearest
  <2>1. /\ asked \in Pictures
        /\ asked.pixels \in Seq(Colour) /\ asked.palette \in Seq(Colour)
        /\ Len(asked.palette) \in 1..16
    BY OneAlgorithmEach, AlgorithmsAssumption DEF AlgorithmsInv
  <2>2. answer = canvasToPackedRaw4bpp(asked.pixels, asked.palette)
    BY <2>1 DEF AlgorithmsInv, PackedAsAsked
  <2>3. \A n \in DOMAIN asked.pixels : asked.pixels[n] \in Colour
    BY <2>1, LenProperties, ElementOfSeq
  <2>4. \A n \in DOMAIN asked.pixels :
          LET i == rgbToPaletteIndex(asked.pixels[n], asked.palette)
          IN  /\ i \in Indices(asked.palette)
              /\ \A j \in Indices(asked.palette) :
                    Distance(asked.pixels[n], ColourAt(asked.palette, i))
                        <= Distance(asked.pixels[n], ColourAt(asked.palette, j))
    BY <2>1, <2>3, IndexOfNearest
  <2> QED
    <3>1. /\ Len(answer) = (Len(asked.pixels) + 1) \div 2
          /\ \A b \in DOMAIN answer : answer[b] \in 0..255
          /\ \A n \in DOMAIN asked.pixels :
                Unpacked(answer, n) = rgbToPaletteIndex(asked.pixels[n], asked.palette)
      BY <2>1, <2>2, PackedIndices, Zenon
    <3> QED
      BY <2>4, <3>1, Zenon DEF PackedShowsNearest
<1> QED
  BY <1>1, Invariance, PTL

LEMMA DaysAhead ==
    ASSUME NEW halves \in Int
    PROVE  resolveDaysAhead(halves) \in 1..MAX_DAYS_AHEAD
BY DEF resolveDaysAhead, MAX_DAYS_AHEAD

LEMMA ResolvedAnswer ==
    ASSUME AlgorithmsInv, Resolved
    PROVE  /\ asked.zone \in Zone /\ asked.server \in Int
           /\ answer.today \in Int /\ answer.daysAhead \in 1..MAX_DAYS_AHEAD
           /\ answer.window = Window(asked.zone, asked.server, answer.today, answer.daysAhead)
<1>1. asked \in Fetches
  BY OneAlgorithmEach DEF AlgorithmsInv, Resolved
<1>2. /\ asked.zone \in Zone /\ asked.server \in Int
      /\ asked.now \in Int /\ asked.halves \in Int
  BY <1>1, AlgorithmsAssumption
<1>3. answer.today \in Int
  BY <1>1, <1>2 DEF AlgorithmsInv, WindowAsAsked, Resolved, dateStringAt, LocalTime,
     tzOffsetMinutes, Zone, DAY
<1>4. answer.daysAhead \in 1..MAX_DAYS_AHEAD
  BY <1>1, <1>2, DaysAhead DEF AlgorithmsInv, WindowAsAsked, Resolved
<1> QED
  BY <1>1, <1>2, <1>3, <1>4 DEF AlgorithmsInv, WindowAsAsked, Resolved

\* utcFromLocal's two guesses find the midnights of a calendar's window
\* wherever they exist, whatever the zone, the server's offset and the day.
THEOREM MidnightsAreFound == Spec => []MidnightsFound
<1>1. AlgorithmsInv => MidnightsFound
  <2> SUFFICES ASSUME AlgorithmsInv, Resolved PROVE MidnightsFound
    BY DEF MidnightsFound
  <2> DEFINE first == answer.today * DAY
             last == (answer.today + answer.daysAhead) * DAY
  <2>1. first \in Int /\ last \in Int
    BY ResolvedAnswer DEF DAY, MAX_DAYS_AHEAD
  <2>2. /\ answer.window.start = utcFromLocal(asked.zone, asked.server, first)
        /\ answer.window.end = utcFromLocal(asked.zone, asked.server, last)
    BY ResolvedAnswer DEF Window
  <2> HIDE DEF first, last
  <2>3. /\ Exists(asked.zone, first) => LocalTime(asked.zone, answer.window.start) = first
        /\ Exists(asked.zone, last) => LocalTime(asked.zone, answer.window.end) = last
    BY <2>1, <2>2, ResolvedAnswer, LocalTimeFound
  <2> QED
    BY <2>3 DEF MidnightsFound, first, last
<1> QED
  BY <1>1, Invariance, PTL

\* The window ends on the day it should, and at most a day short where the
\* midnight that ends it is skipped.
THEOREM WindowsOfWholeDays == Spec => []WindowOfWholeDays
<1>1. AlgorithmsInv => WindowOfWholeDays
  <2> SUFFICES ASSUME AlgorithmsInv, Resolved PROVE WindowOfWholeDays
    BY DEF WindowOfWholeDays
  <2> DEFINE last == answer.today + answer.daysAhead
  <2>1. last \in Int
    BY ResolvedAnswer DEF MAX_DAYS_AHEAD
  <2>2. answer.window.todayPlus =
          dateStringAt(asked.zone, utcFromLocal(asked.zone, asked.server, last * DAY))
    BY ResolvedAnswer DEF Window
  <2> HIDE DEF last
  <2>3. IF Exists(asked.zone, last * DAY)
        THEN answer.window.todayPlus = last
        ELSE answer.window.todayPlus \in {last - 1, last}
    BY <2>1, <2>2, ResolvedAnswer, DayFound
  <2> QED
    BY <2>3, ResolvedAnswer DEF WindowOfWholeDays, last
<1> QED
  BY <1>1, Invariance, PTL

\* WindowIsRight, for every zone, server, clock and number of days.
THEOREM WindowsAreRight == Spec => []WindowIsRight
BY MidnightsAreFound, WindowsOfWholeDays, PTL DEF WindowIsRight

(***************************************************************************)
(* Events                                                                  *)
(***************************************************************************)
LEMMA ZoneTypes ==
    ASSUME NEW zone \in Zone
    PROVE  /\ zone.at \in Int /\ zone.before \in Int /\ zone.after \in Int
           /\ zone.before - zone.after < DAY /\ zone.after - zone.before < DAY
BY DEF Zone, Abs, DAY

\* The text of an instant stands for it: sign, hours and minutes of the offset
\* put together are the offset.
LEMMA TextIsInstant ==
    ASSUME NEW zone \in Zone, NEW t \in Int
    PROVE  Parsed(formatWithOffset(zone, t)) = t
<1> DEFINE offset == tzOffsetMinutes(zone, t)
<1>1. offset \in Int
  BY ZoneTypes DEF tzOffsetMinutes
<1>2. LocalTime(zone, t) = t + offset
  BY DEF LocalTime
<1>3. tzOffsetString(zone, t) = [sign |-> IF offset < 0 THEN -1 ELSE 1,
                                 hh |-> Abs(offset) \div 60, mm |-> Abs(offset) % 60]
  BY DEF tzOffsetString
<1> HIDE DEF offset
<1> DEFINE sign == IF offset < 0 THEN -1 ELSE 1
           minutes == (60 * (Abs(offset) \div 60)) + (Abs(offset) % 60)
<1>4. Abs(offset) \in Nat /\ sign \in Int /\ offset = sign * Abs(offset)
  BY <1>1 DEF Abs
<1>5. minutes = Abs(offset)
  BY <1>4
<1>6. Parsed(formatWithOffset(zone, t)) = (t + offset) - sign * minutes
  BY <1>2, <1>3 DEF Parsed, formatWithOffset
<1> HIDE DEF sign, minutes
<1> QED
  BY <1>1, <1>4, <1>5, <1>6

LEMMA DayOfInstant ==
    ASSUME NEW zone \in Zone, NEW t \in Int
    PROVE  dateStringAt(zone, t) \in Int
BY ZoneTypes DEF dateStringAt, LocalTime, tzOffsetMinutes, DAY

\* What is to come out for an event at t, with the events of today until last.
OutputOf(t, zone, server, today, last) ==
    toOutputEvent("e", [allDay |-> FALSE, start |-> t, end |-> t + 1], zone, server, today, last)

ListedOnItsDay(t, zone, out, today, last) ==
    /\ out = << >> <=> dateStringAt(zone, t) >= last
    /\ out # << >> =>
          /\ out[1].day_label = IF dateStringAt(zone, t) < today THEN today ELSE dateStringAt(zone, t)
          /\ Parsed(out[1].start) = t

LEMMA TimedEvent ==
    ASSUME NEW zone \in Zone, NEW server \in Int, NEW today \in Int, NEW last \in Int, today < last,
           NEW t \in Int
    PROVE  ListedOnItsDay(t, zone, OutputOf(t, zone, server, today, last), today, last)
<1> DEFINE instance == [allDay |-> FALSE, start |-> t, end |-> t + 1]
           day == dateStringAt(zone, t)
           entry == [uid |-> "e", day_label |-> ClampedDay(today, day),
                     start |-> formatWithOffset(zone, t), end |-> formatWithOffset(zone, t + 1),
                     time_label |-> timeLabelAt(zone, t)]
           out == OutputOf(t, zone, server, today, last)
<1>1. out = IF ClampedDay(today, day) >= last THEN << >> ELSE <<entry>>
  BY DEF OutputOf, toOutputEvent, TimedOutput
<1>2. day \in Int
  BY DayOfInstant
<1>3. ClampedDay(today, day) >= last <=> day >= last
  BY <1>2 DEF ClampedDay
<1>4. <<entry>> # << >> /\ <<entry>>[1] = entry
  OBVIOUS
<1>5. entry.day_label = IF day < today THEN today ELSE day
  BY DEF ClampedDay
<1>6. Parsed(entry.start) = t
  BY TextIsInstant
<1> HIDE DEF entry, out, day
<1> QED
  BY <1>1, <1>3, <1>4, <1>5, <1>6 DEF ListedOnItsDay, out, day

\* Timed events are listed under their days and texts name their instants,
\* for every zone, server and clock.
LEMMA EventsFindTheirDays == Spec => []EventsOnTheirDays
<1>1. AlgorithmsInv => EventsOnTheirDays
  <2> SUFFICES ASSUME AlgorithmsInv, Resolved,
                      Exists(asked.zone, (answer.today + answer.daysAhead) * DAY)
               PROVE  EventsOnTheirDays
    BY DEF EventsOnTheirDays
  <2> DEFINE last == answer.today + answer.daysAhead
  <2>1. /\ asked.zone \in Zone /\ asked.server \in Int /\ answer.today \in Int
        /\ answer.daysAhead \in 1..MAX_DAYS_AHEAD
    BY ResolvedAnswer
  <2>2. last \in Int /\ answer.today < last
    BY <2>1 DEF MAX_DAYS_AHEAD
  <2>3. answer.window.todayPlus = last
    <3>1. answer.window.todayPlus =
            dateStringAt(asked.zone, utcFromLocal(asked.zone, asked.server, last * DAY))
      BY ResolvedAnswer DEF Window
    <3>2. Exists(asked.zone, last * DAY)
      OBVIOUS
    <3> HIDE DEF last
    <3> QED
      BY <2>1, <2>2, <3>1, <3>2, DayFound
  <2> HIDE DEF last
  <2>4. \A t \in {asked.zone.at + 30 * k : k \in -60..60} : t \in Int
    BY <2>1, ZoneTypes
  <2>5. \A t \in {asked.zone.at + 30 * k : k \in -60..60} :
          ListedOnItsDay(t, asked.zone,
                         OutputOf(t, asked.zone, asked.server, answer.today, answer.window.todayPlus),
                         answer.today, last)
    BY <2>1, <2>2, <2>3, <2>4, TimedEvent
  <2> QED
    BY <2>5 DEF EventsOnTheirDays, ListedOnItsDay, OutputOf, last
<1> QED
  BY <1>1, Invariance, PTL

LEMMA LaterMidnight ==
    ASSUME NEW zone \in Zone, NEW server \in Int, NEW local \in Int
    PROVE  /\ utcFromLocal(zone, server, local) \in Int
           /\ utcFromLocal(zone, server, local) < utcFromLocal(zone, server, local + DAY)
BY ZoneTypes DEF utcFromLocal, tzOffsetMinutes, DAY

\* An all-day event is a day, from the midnight that begins it to the one that
\* ends it, for every zone, server and clock.
LEMMA AllDaysHaveTheirDays == Spec => []AllDayHasItsDay
<1>1. AlgorithmsInv => AllDayHasItsDay
  <2> SUFFICES ASSUME AlgorithmsInv, Resolved, NEW day \in answer.today..answer.today + 1
               PROVE  LET out == AllDayOutput(asked.zone, asked.server, day)
                      IN  /\ Parsed(out.start) < Parsed(out.end)
                          /\ Exists(asked.zone, day * DAY) => out.start.local = day * DAY
                          /\ Exists(asked.zone, (day + 1) * DAY) => out.end.local = (day + 1) * DAY
    BY Zenon DEF AllDayHasItsDay
  <2> DEFINE zone == asked.zone
             midnight == day * DAY
             next == (day + 1) * DAY
             start == utcFromLocal(zone, asked.server, midnight)
             end == utcFromLocal(zone, asked.server, next)
  <2>1. zone \in Zone /\ asked.server \in Int /\ answer.today \in Int
    BY ResolvedAnswer
  <2>2. midnight \in Int /\ next \in Int /\ next = midnight + DAY
    BY <2>1 DEF DAY
  <2> HIDE DEF midnight, next
  <2>3. start \in Int /\ end \in Int /\ start < end
    BY <2>1, <2>2, LaterMidnight
  <2>4. /\ Exists(zone, midnight) => LocalTime(zone, start) = midnight
        /\ Exists(zone, next) => LocalTime(zone, end) = next
    BY <2>1, <2>2, LocalTimeFound
  <2>5. AllDayOutput(zone, asked.server, day) =
          [start |-> formatWithOffset(zone, start), end |-> formatWithOffset(zone, end)]
    BY DEF AllDayOutput, midnight, next
  <2> HIDE DEF start, end
  <2>6. /\ Parsed(formatWithOffset(zone, start)) = start
        /\ Parsed(formatWithOffset(zone, end)) = end
    BY <2>1, <2>3, TextIsInstant
  <2>7. /\ formatWithOffset(zone, start).local = LocalTime(zone, start)
        /\ formatWithOffset(zone, end).local = LocalTime(zone, end)
    BY DEF formatWithOffset
  <2> QED
    BY <2>3, <2>4, <2>5, <2>6, <2>7 DEF midnight, next
<1> QED
  BY <1>1, Invariance, PTL

\* What is said of an event, timed or all-day, is right for every zone, server
\* and clock.
THEOREM OutputsAreRight == Spec => []OutputIsRight
<1>1. OutputIsRight <=> EventsOnTheirDays /\ AllDayHasItsDay
  BY DEF OutputIsRight
<1> QED
  BY <1>1, EventsFindTheirDays, AllDaysHaveTheirDays, PTL

(***************************************************************************)
(* The agenda.  An event's position in the listing is the number of events *)
(* before it, so the listing is the shown instances in some order: the     *)
(* property is counted there, and is then about one instance at a time.    *)
(***************************************************************************)

\* Elements of a finite set, each at the position that those below it leave.
LEMMA Ranked ==
    ASSUME NEW S, IsFiniteSet(S), NEW below \in [S -> SUBSET S],
           \A p \in S : p \notin below[p],
           \A p, q \in S : q \in below[p] => below[q] \subseteq below[p],
           \A p, q \in S : p = q \/ p \in below[q] \/ q \in below[p]
    PROVE  [n \in 1..Cardinality(S) |-> CHOOSE p \in S : Cardinality(below[p]) = n - 1]
             \in Bijection(1..Cardinality(S), S)
<1> DEFINE N == Cardinality(S)
           rank == [p \in S |-> Cardinality(below[p]) + 1]
           at == [n \in 1..N |-> CHOOSE p \in S : Cardinality(below[p]) = n - 1]
<1>1. N \in Nat
  BY FS_CardinalityType
<1>2. ASSUME NEW p \in S PROVE /\ IsFiniteSet(below[p]) /\ Cardinality(below[p]) \in Nat
                               /\ Cardinality(below[p]) < N
  <2>1. IsFiniteSet(below[p]) /\ Cardinality(below[p]) <= N /\ (N = Cardinality(below[p]) => S = below[p])
    BY FS_Subset
  <2>2. Cardinality(below[p]) \in Nat /\ S # below[p]
    BY <2>1, FS_CardinalityType
  <2> QED
    BY <1>1, <2>1, <2>2
<1>3. ASSUME NEW p \in S, NEW q \in S, q \in below[p]
      PROVE  Cardinality(below[q]) # Cardinality(below[p])
  <2>1. below[q] \in SUBSET below[p] /\ below[q] # below[p]
    BY <1>3
  <2> QED
    BY <1>2, <2>1, FS_Subset
<1>4. \A p, q \in S : Cardinality(below[p]) = Cardinality(below[q]) => p = q
  BY <1>3
<1>5. rank \in Injection(S, 1..N)
  <2>1. rank \in [S -> 1..N]
    BY <1>1, <1>2
  <2>2. \A p, q \in S : rank[p] = rank[q] => p = q
    BY <1>2, <1>4
  <2> QED
    BY <2>1, <2>2 DEF Injection, IsInjective
<1>6. \A n \in 1..N : \E p \in S : Cardinality(below[p]) = n - 1
  <2>1. IsFiniteSet(1..N) /\ Cardinality(1..N) = N
    BY <1>1, FS_Interval
  <2> HIDE DEF rank
  <2>2. rank \in Surjection(S, 1..N)
    BY <1>5, <2>1, FS_Injection
  <2>3. \A n \in 1..N : \E p \in S : rank[p] = n
    BY <2>2 DEF Surjection
  <2> USE DEF rank
  <2> QED
    BY <1>2, <2>3
<1>7. \A n \in 1..N : at[n] \in S /\ Cardinality(below[at[n]]) = n - 1
  BY <1>6
<1> HIDE DEF at
<1>8. at \in [1..N -> S]
  BY <1>7 DEF at
<1>9. \A m, n \in 1..N : at[m] = at[n] => m = n
  BY <1>1, <1>7
<1>10. \A p \in S : \E n \in 1..N : at[n] = p
  <2> SUFFICES ASSUME NEW p \in S PROVE \E n \in 1..N : at[n] = p
    OBVIOUS
  <2>1. PICK n \in 1..N : n = Cardinality(below[p]) + 1
    BY <1>1, <1>2
  <2>2. n - 1 = Cardinality(below[p])
    BY <1>2, <2>1
  <2> QED
    BY <1>4, <1>7, <2>2
<1>11. at \in Bijection(1..N, S)
  BY <1>8, <1>9, <1>10 DEF Bijection, Injection, IsInjective, Surjection
<1> QED
  BY <1>11 DEF at

\* Counting positions is counting what stands there.
PositionsOf(at, N, T) == {n \in N : at[n] \in T}

LEMMA CountedThere ==
    ASSUME NEW N, NEW S, IsFiniteSet(N), NEW at \in Bijection(N, S), NEW T \in SUBSET S
    PROVE  Cardinality(PositionsOf(at, N, T)) = Cardinality(T)
<1> DEFINE M == {n \in N : at[n] \in T}
           there == [n \in M |-> at[n]]
<1>1. /\ at \in [N -> S] /\ \A m, n \in N : at[m] = at[n] => m = n
      /\ \A t \in S : \E n \in N : at[n] = t
  BY DEF Bijection, Injection, IsInjective, Surjection
<1>2. /\ there \in [M -> T] /\ \A m, n \in M : there[m] = there[n] => m = n
      /\ \A t \in T : \E n \in M : there[n] = t
  BY <1>1
<1>3. there \in Bijection(M, T)
  BY <1>2 DEF Bijection, Injection, IsInjective, Surjection
<1>4. IsFiniteSet(M)
  BY FS_Subset
<1>5. ExistsBijection(M, T)
  BY <1>3 DEF ExistsBijection
<1> QED
  BY <1>4, <1>5, FS_Bijection DEF PositionsOf

\* A place is the indices of a feed, of a component of it and of an instance.
LEMMA PlaceParts ==
    ASSUME NEW feeds \in Seq(Seq(Component)), NEW p \in Places(feeds)
    PROVE  /\ p = <<p[1], p[2], p[3]>> /\ p[1] \in Nat /\ p[2] \in Nat /\ p[3] \in Nat
           /\ feeds[p[1]][p[2]] \in Component
           /\ p[3] \in DOMAIN feeds[p[1]][p[2]].instances
<1>1. PICK f \in DOMAIN feeds :
        p \in UNION {{<<f, c, k>> : k \in DOMAIN feeds[f][c].instances} : c \in DOMAIN feeds[f]}
  BY DEF Places
<1>2. PICK c \in DOMAIN feeds[f] : p \in {<<f, c, k>> : k \in DOMAIN feeds[f][c].instances}
  BY <1>1
<1>3. PICK k \in DOMAIN feeds[f][c].instances : p = <<f, c, k>>
  BY <1>2
<1>4. feeds[f] \in Seq(Component) /\ f \in Nat
  BY ElementOfSeq
<1>5. feeds[f][c] \in Component /\ c \in Nat
  BY <1>4, ElementOfSeq
<1>6. feeds[f][c].instances \in Seq(Instance)
  BY <1>5 DEF Component
<1>7. k \in Nat
  BY <1>6
<1> QED
  BY <1>3, <1>4, <1>5, <1>7

\* Of feeds, components and instances there are finitely many.
LEMMA FiniteImage ==
    ASSUME NEW S, IsFiniteSet(S), NEW f, DOMAIN f = S
    PROVE  IsFiniteSet({f[x] : x \in S})
<1> DEFINE T == {f[x] : x \in S}
           g == [x \in S |-> f[x]]
<1>1. g \in Surjection(S, T)
  BY DEF Surjection
<1> QED
  BY <1>1, FS_Surjection

LEMMA FiniteDomain ==
    ASSUME NEW S, NEW s \in Seq(S)
    PROVE  IsFiniteSet(DOMAIN s)
<1>1. DOMAIN s = 1..Len(s) /\ Len(s) \in Nat
  BY LenProperties
<1> QED
  BY <1>1, FS_Interval

LEMMA FinitePlaces ==
    ASSUME NEW feeds \in Seq(Seq(Component))
    PROVE  IsFiniteSet(Places(feeds))
<1> DEFINE Of(f, c) == {<<f, c, k>> : k \in DOMAIN feeds[f][c].instances}
           In(f) == UNION {Of(f, c) : c \in DOMAIN feeds[f]}
<1>1. ASSUME NEW f \in DOMAIN feeds PROVE IsFiniteSet(In(f))
  <2>1. feeds[f] \in Seq(Component)
    BY ElementOfSeq
  <2>2. ASSUME NEW c \in DOMAIN feeds[f] PROVE IsFiniteSet(Of(f, c))
    <3> DEFINE instances == feeds[f][c].instances
               g == [k \in DOMAIN instances |-> <<f, c, k>>]
    <3>1. feeds[f][c] \in Component
      BY <2>1, ElementOfSeq
    <3>2. IsFiniteSet(DOMAIN instances)
      <4>1. instances \in Seq(Instance)
        BY <3>1 DEF Component
      <4> HIDE DEF instances
      <4> QED
        BY <4>1, FiniteDomain
    <3>3. DOMAIN g = DOMAIN instances /\ Of(f, c) = {g[k] : k \in DOMAIN instances}
      OBVIOUS
    <3> HIDE DEF g, instances, Of
    <3>4. IsFiniteSet({g[k] : k \in DOMAIN instances})
      BY <3>2, <3>3, FiniteImage
    <3> QED
      BY <3>3, <3>4
  <2>3. IsFiniteSet(DOMAIN feeds[f])
    BY <2>1, FiniteDomain
  <2> DEFINE h == [c \in DOMAIN feeds[f] |-> Of(f, c)]
  <2>4. DOMAIN h = DOMAIN feeds[f] /\ {Of(f, c) : c \in DOMAIN feeds[f]} = {h[c] : c \in DOMAIN feeds[f]}
    OBVIOUS
  <2> HIDE DEF h, Of
  <2>5. IsFiniteSet({Of(f, c) : c \in DOMAIN feeds[f]})
    BY <2>3, <2>4, FiniteImage
  <2> QED
    BY <2>2, <2>5, FS_UNION
<1>2. IsFiniteSet(DOMAIN feeds)
  BY FiniteDomain
<1> DEFINE h == [f \in DOMAIN feeds |-> In(f)]
<1>3. DOMAIN h = DOMAIN feeds /\ {In(f) : f \in DOMAIN feeds} = {h[f] : f \in DOMAIN feeds}
  OBVIOUS
<1>4. Places(feeds) = UNION {In(f) : f \in DOMAIN feeds}
  BY DEF Places
<1> HIDE DEF h, In, Of
<1>5. IsFiniteSet({In(f) : f \in DOMAIN feeds})
  BY <1>2, <1>3, FiniteImage
<1> QED
  BY <1>1, <1>4, <1>5, FS_UNION

(***************************************************************************)
(* One instance                                                            *)
(***************************************************************************)
\* What the window of a resolve is, seen from the days it is about.
LEMMA WindowMeets ==
    ASSUME NEW zone \in Zone, NEW server \in Int, NEW today \in Int, NEW days \in 1..MAX_DAYS_AHEAD,
           Exists(zone, (today + days) * DAY),
           Abs(server - zone.before) < DAY, Abs(server - zone.after) < DAY
    PROVE  LET w == Window(zone, server, today, days)
           IN  /\ w.start \in Int /\ w.end \in Int
               /\ w.todayPlus = today + days
               /\ LocalTime(zone, w.end) = (today + days) * DAY
               /\ (today + 1) * DAY - server > w.start
<1> DEFINE first == today * DAY
           last == today + days
           midnight == last * DAY
           w == Window(zone, server, today, days)
<1>1. first \in Int /\ last \in Int /\ midnight \in Int /\ (today + 1) * DAY = first + DAY
  BY DEF DAY, MAX_DAYS_AHEAD
<1>2. /\ w.start = utcFromLocal(zone, server, first) /\ w.end = utcFromLocal(zone, server, midnight)
      /\ w.todayPlus = dateStringAt(zone, utcFromLocal(zone, server, midnight))
  BY DEF Window
<1>3. w.todayPlus = last
  <2> HIDE DEF w, last, first
  <2> QED
    BY <1>1, <1>2, DayFound DEF last
<1> HIDE DEF midnight, first, w
<1>4. w.start \in Int /\ w.end \in Int
  BY <1>1, <1>2, LaterMidnight
<1>5. LocalTime(zone, w.end) = midnight
  BY <1>1, <1>2, LocalTimeFound DEF midnight
<1>6. \A next : next = first + DAY => next - server > w.start
  BY <1>1, <1>2, ZoneTypes DEF utcFromLocal, tzOffsetMinutes, Abs, DAY
<1>7. (today + 1) * DAY - server > w.start
  BY <1>1, <1>6, Zenon
<1> QED
  BY <1>3, <1>4, <1>5, <1>7, Zenon DEF midnight, w

\* Due, Lingers and DayOf of a resolve with these parameters.
DueIn(i, zone, today, last, start) ==
    IF i.allDay THEN i.start < last /\ i.end > today
    ELSE dateStringAt(zone, i.start) < last /\ i.end > start

LingersIn(i, server, today, last, start) ==
    i.allDay /\ i.start < last /\ i.end <= today /\ i.end * DAY - server > start

DayIn(i, zone) == IF i.allDay THEN i.start ELSE dateStringAt(zone, i.start)

\* An instance comes out exactly when it is due or lingers, under its day.
LEMMA TimedInstance ==
    ASSUME NEW zone \in Zone, NEW server \in Int, NEW today \in Int, NEW last \in Int, today < last,
           NEW start \in Int, NEW end \in Int, LocalTime(zone, end) = last * DAY,
           NEW s \in Int, NEW e \in Int
    PROVE  (s < end + DAY /\ e > start) /\ ~(ClampedDay(today, dateStringAt(zone, s)) >= last)
             <=> dateStringAt(zone, s) < last /\ e > start
<1> DEFINE day == dateStringAt(zone, s)
<1>1. day \in Int
  BY DayOfInstant
<1>2. ~(ClampedDay(today, day) >= last) <=> day < last
  BY <1>1 DEF ClampedDay
<1>3. day < last => s < end + DAY
  <2>1. LocalTime(zone, s) \in Int /\ day = LocalTime(zone, s) \div 1440
    BY ZoneTypes DEF dateStringAt, LocalTime, tzOffsetMinutes, DAY
  <2>2. day < last => LocalTime(zone, s) < last * 1440
    <3> DEFINE t == LocalTime(zone, s)
    <3> HIDE DEF t, day
    <3>1. t \in Int /\ day = t \div 1440
      BY <2>1 DEF t
    <3> QED
      BY <3>1 DEF t
  <2>3. LocalTime(zone, end) = last * 1440
    BY DEF DAY
  <2> HIDE DEF day
  <2> QED
    BY <2>2, <2>3, ZoneTypes DEF LocalTime, tzOffsetMinutes, DAY
<1> QED
  BY <1>2, <1>3

KeptAllDay(server, today, last, start, end, s, e) ==
    /\ localDateString(server, s * DAY - server) = s
    /\ (s * DAY - server < end + DAY /\ e * DAY - server > start) /\ ~(ClampedDay(today, s) >= last)
         <=> \/ s < last /\ e > today
             \/ s < last /\ e <= today /\ e * DAY - server > start

LEMMA AllDayInstance ==
    ASSUME NEW zone \in Zone, NEW server \in Int, NEW today \in Int, NEW last \in Int, today < last,
           Abs(server - zone.before) < DAY, Abs(server - zone.after) < DAY,
           NEW start \in Int, NEW end \in Int, LocalTime(zone, end) = last * DAY,
           (today + 1) * DAY - server > start,
           NEW s \in Int, NEW e \in Int
    PROVE  KeptAllDay(server, today, last, start, end, s, e)
<1>1. localDateString(server, s * DAY - server) = s
  BY DEF localDateString, DAY
<1>2. ~(ClampedDay(today, s) >= last) <=> s < last
  BY DEF ClampedDay
<1>3. s < last => s * DAY - server < end + DAY
  BY ZoneTypes DEF LocalTime, tzOffsetMinutes, Abs, DAY
<1>4. e > today => e * DAY - server > start
  BY DEF DAY
<1> QED
  BY <1>1, <1>2, <1>3, <1>4 DEF KeptAllDay

\* What is extracted of one instance of a component.
ListedRight(component, i, out, zone, server, today, last, start) ==
    /\ out # << >> <=>
         /\ component.type = "VEVENT" /\ component.status # "CANCELLED" /\ component.expands
         /\ DueIn(i, zone, today, last, start) \/ LingersIn(i, server, today, last, start)
    /\ out # << >> =>
         /\ out[1].uid = component.uid /\ out[1].time_label \in Int
         /\ out[1].day_label \in Int /\ out[1].day_label = Later(today, DayIn(i, zone))

LEMMA InstanceListed ==
    ASSUME NEW zone \in Zone, NEW server \in Int, NEW today \in Int, NEW days \in 1..MAX_DAYS_AHEAD,
           Exists(zone, (today + days) * DAY),
           Abs(server - zone.before) < DAY, Abs(server - zone.after) < DAY,
           NEW component \in Component, NEW k \in DOMAIN component.instances
    PROVE  LET window == Window(zone, server, today, days)
           IN  ListedRight(component, component.instances[k],
                           extractEvents(component, k, zone, server, today, window),
                           zone, server, today, today + days, window.start)
<1> DEFINE window == Window(zone, server, today, days)
           last == today + days
           i == component.instances[k]
           out == extractEvents(component, k, zone, server, today, window)
           keeps == component.type = "VEVENT" /\ component.status # "CANCELLED" /\ component.expands
           parsed == parseICS(i, server)
           day == IF i.allDay THEN localDateString(server, parsed.start) ELSE dateStringAt(zone, parsed.start)
           texts == IF i.allDay THEN AllDayOutput(zone, server, ClampedDay(today, day))
                    ELSE TimedOutput(zone, parsed)
           entry == [uid |-> component.uid, day_label |-> ClampedDay(today, day),
                     start |-> texts.start, end |-> texts.end,
                     time_label |-> IF i.allDay THEN NoLabel ELSE timeLabelAt(zone, parsed.start)]
           listed == /\ expandRecurringEvent(parsed, window.start, window.end + DAY)
                     /\ ~(ClampedDay(today, day) >= last)
<1>1. last \in Int /\ today < last
  BY DEF MAX_DAYS_AHEAD
<1>2. /\ window.start \in Int /\ window.end \in Int /\ window.todayPlus = last
      /\ LocalTime(zone, window.end) = last * DAY /\ (today + 1) * DAY - server > window.start
  BY WindowMeets
<1>3. i \in Instance
  <2>1. component.instances \in Seq(Instance)
    BY DEF Component
  <2> QED
    BY <2>1, ElementOfSeq
<1>4. i.allDay \in BOOLEAN /\ i.start \in Int /\ i.end \in Int
  BY <1>3 DEF Instance
<1>5. parsed.allDay = i.allDay
  BY <1>4 DEF parseICS
<1>6. out = IF keeps /\ listed THEN <<entry>> ELSE << >>
  BY <1>2, <1>5 DEF extractEvents, toOutputEvent
<1>7. /\ listed <=> \/ DueIn(i, zone, today, last, window.start)
                    \/ LingersIn(i, server, today, last, window.start)
      /\ day = DayIn(i, zone) /\ day \in Int
  <2>1. PICK s \in Int, e \in Int, start \in Int, end \in Int :
          s = i.start /\ e = i.end /\ start = window.start /\ end = window.end
    BY <1>2, <1>4
  <2> HIDE DEF window, i, last
  <2>2. /\ LocalTime(zone, end) = last * DAY /\ (today + 1) * DAY - server > start
    BY <1>2, <2>1
  <2>3. CASE i.allDay
    <3>1. parsed.start = s * DAY - server /\ parsed.end = e * DAY - server
      BY <2>1, <2>3 DEF parseICS
    <3>2. /\ localDateString(server, s * DAY - server) = s
          /\ (s * DAY - server < end + DAY /\ e * DAY - server > start) /\ ~(ClampedDay(today, s) >= last)
                <=> \/ s < last /\ e > today
                    \/ s < last /\ e <= today /\ e * DAY - server > start
      <4>1. KeptAllDay(server, today, last, start, end, s, e)
        BY <1>1, <2>2, AllDayInstance
      <4> QED
        BY <4>1, Zenon DEF KeptAllDay
    <3>3. day = s
      BY <2>3, <3>1, <3>2, Zenon
    <3>4. listed <=> /\ s * DAY - server < end + DAY /\ e * DAY - server > start
                     /\ ~(ClampedDay(today, s) >= last)
      BY <2>1, <3>1, <3>3, Zenon DEF expandRecurringEvent
    <3>5. /\ DueIn(i, zone, today, last, window.start) <=> s < last /\ e > today
          /\ LingersIn(i, server, today, last, window.start)
                <=> s < last /\ e <= today /\ e * DAY - server > start
      BY <2>1, <2>3, Zenon DEF DueIn, LingersIn
    <3>6. DayIn(i, zone) = s
      BY <2>1, <2>3, Zenon DEF DayIn
    <3> QED
      BY <3>2, <3>3, <3>4, <3>5, <3>6, Zenon
  <2>4. CASE ~i.allDay
    <3>1. parsed.start = s /\ parsed.end = e
      BY <2>1, <2>4 DEF parseICS
    <3>2. /\ (s < end + DAY /\ e > start) /\ ~(ClampedDay(today, dateStringAt(zone, s)) >= last)
                <=> dateStringAt(zone, s) < last /\ e > start
          /\ dateStringAt(zone, s) \in Int
      BY <1>1, <2>2, TimedInstance, DayOfInstant
    <3>3. day = dateStringAt(zone, s)
      BY <2>4, <3>1, Zenon
    <3>4. listed <=> /\ s < end + DAY /\ e > start
                     /\ ~(ClampedDay(today, dateStringAt(zone, s)) >= last)
      BY <2>1, <3>1, <3>3, Zenon DEF expandRecurringEvent
    <3>5. /\ DueIn(i, zone, today, last, window.start) <=> dateStringAt(zone, s) < last /\ e > start
          /\ ~LingersIn(i, server, today, last, window.start)
      BY <2>1, <2>4, Zenon DEF DueIn, LingersIn
    <3>6. DayIn(i, zone) = dateStringAt(zone, s)
      BY <2>1, <2>4, Zenon DEF DayIn
    <3> QED
      BY <3>2, <3>3, <3>4, <3>5, <3>6, Zenon
  <2> QED
    BY <2>3, <2>4
<1>8. ClampedDay(today, day) = Later(today, DayIn(i, zone)) /\ ClampedDay(today, day) \in Int
  <2> HIDE DEF day, i
  <2> QED
    BY <1>7 DEF ClampedDay, Later
<1>9. (IF i.allDay THEN NoLabel ELSE timeLabelAt(zone, parsed.start)) \in Int
  <2>1. ~i.allDay => parsed.start = i.start
    BY DEF parseICS
  <2> HIDE DEF i, parsed
  <2> QED
    BY <1>4, <2>1, ZoneTypes DEF NoLabel, timeLabelAt, LocalTime, tzOffsetMinutes, DAY
<1>10. /\ entry.uid = component.uid /\ entry.day_label = ClampedDay(today, day)
       /\ entry.time_label = IF i.allDay THEN NoLabel ELSE timeLabelAt(zone, parsed.start)
  OBVIOUS
<1>11. <<entry>> # << >> /\ <<entry>>[1] = entry
  OBVIOUS
<1> HIDE DEF entry, listed, day, i, window, last, keeps, parsed, out
<1>12. /\ out # << >> <=> keeps /\ listed
       /\ out # << >> => out[1] = entry
  BY <1>6, <1>11
<1> QED
  BY <1>7, <1>8, <1>9, <1>10, <1>12 DEF ListedRight, keeps, window, last, i, out

(***************************************************************************)
(* The listing                                                             *)
(***************************************************************************)
\* Lexicographic: a strict total order of places that have an event.
LEMMA BeforeIsOrder ==
    ASSUME NEW S, NEW event,
           \A p \in S : /\ p = <<p[1], p[2], p[3]>> /\ p[1] \in Nat /\ p[2] \in Nat /\ p[3] \in Nat
                        /\ event[p].day_label \in Int /\ event[p].time_label \in Int
    PROVE  /\ \A p \in S : ~Before(event[p], p, event[p], p)
           /\ \A p, q, r \in S : Before(event[r], r, event[q], q) /\ Before(event[q], q, event[p], p)
                                    => Before(event[r], r, event[p], p)
           /\ \A p, q \in S : \/ p = q
                              \/ Before(event[p], p, event[q], q) \/ Before(event[q], q, event[p], p)
<1>1. \A p \in S : ~Before(event[p], p, event[p], p)
  BY DEF Before, Visited
<1>2. ASSUME NEW p \in S, NEW q \in S, NEW r \in S,
             Before(event[r], r, event[q], q), Before(event[q], q, event[p], p)
      PROVE  Before(event[r], r, event[p], p)
  BY <1>2 DEF Before, Visited
<1>3. ASSUME NEW p \in S, NEW q \in S, p # q
      PROVE  Before(event[p], p, event[q], q) \/ Before(event[q], q, event[p], p)
  <2>1. p[1] # q[1] \/ p[2] # q[2] \/ p[3] # q[3]
    BY <1>3
  <2> QED
    BY <2>1 DEF Before, Visited
<1> QED
  BY <1>1, <1>2, <1>3

\* The entries of a listing that are e, the places that are to be listed, and
\* those of them that are to be e.
EntriesAs(events, e) == {n \in DOMAIN events : <<events[n].uid, events[n].day_label>> = e}

DuePlaces(feeds, zone, server, today, last, start) ==
    {p \in Places(feeds) :
        LET component == feeds[p[1]][p[2]]
            i == component.instances[p[3]]
        IN  /\ component.type = "VEVENT" /\ component.status # "CANCELLED" /\ component.expands
            /\ DueIn(i, zone, today, last, start) \/ LingersIn(i, server, today, last, start)}

DueAs(feeds, zone, today, places, e) ==
    {p \in places :
        LET component == feeds[p[1]][p[2]]
        IN  <<component.uid, Later(today, DayIn(component.instances[p[3]], zone))>> = e}

LEMMA ListingCounts ==
    ASSUME NEW feeds \in Seq(Seq(Component)),
           NEW zone \in Zone, NEW server \in Int, NEW today \in Int, NEW days \in 1..MAX_DAYS_AHEAD,
           Exists(zone, (today + days) * DAY),
           Abs(server - zone.before) < DAY, Abs(server - zone.after) < DAY,
           NEW window, window = Window(zone, server, today, days),
           NEW last, last = today + days,
           NEW events, events = Listing(feeds, zone, server, today, window),
           NEW listed, listed = DuePlaces(feeds, zone, server, today, last, window.start),
           NEW e
    PROVE  Cardinality(EntriesAs(events, e)) = Cardinality(DueAs(feeds, zone, today, listed, e))
<1> DEFINE component(p) == feeds[p[1]][p[2]]
           instance(p) == component(p).instances[p[3]]
           expected(p) == <<component(p).uid, Later(today, DayIn(instance(p), zone))>>
           output == [p \in Places(feeds) |->
                         extractEvents(feeds[p[1]][p[2]], p[3], zone, server, today, window)]
           shown == {p \in Places(feeds) : output[p] # << >>}
           before == [p \in shown |-> {q \in shown : Before(output[q][1], q, output[p][1], p)}]
           at == [n \in 1..Cardinality(shown) |->
                     CHOOSE p \in shown : Cardinality(before[p]) = n - 1]
<1>1. ASSUME NEW p \in Places(feeds)
      PROVE  ListedRight(component(p), instance(p), output[p], zone, server, today, last, window.start)
  <2>1. PICK c, k :
          c \in Component /\ k \in DOMAIN c.instances /\ c = component(p) /\ k = p[3]
    BY PlaceParts
  <2>2. output[p] = extractEvents(c, k, zone, server, today, window) /\ instance(p) = c.instances[k]
    BY <2>1
  <2>3. ListedRight(c, c.instances[k], extractEvents(c, k, zone, server, today, window),
                    zone, server, today, last, window.start)
    BY <2>1, InstanceListed
  <2> HIDE DEF output, component, instance
  <2> QED
    BY <2>1, <2>2, <2>3
<1>2. shown = listed
  <2> HIDE DEF output
  <2> QED
    BY <1>1 DEF ListedRight, DuePlaces
<1>3. \A p \in shown : /\ <<output[p][1].uid, output[p][1].day_label>> = expected(p)
                       /\ output[p][1].day_label \in Int /\ output[p][1].time_label \in Int
  <2> HIDE DEF output
  <2> QED
    BY <1>1 DEF ListedRight
<1>4. events = [n \in 1..Cardinality(shown) |->
                   output[CHOOSE p \in shown : Cardinality(before[p]) = n - 1][1]]
  BY DEF Listing
<1> HIDE DEF output
<1>5. IsFiniteSet(shown)
  BY FinitePlaces, FS_Subset
<1>6. at \in Bijection(1..Cardinality(shown), shown)
  <2> DEFINE event == [p \in shown |-> output[p][1]]
  <2>1. \A p \in shown : /\ p = <<p[1], p[2], p[3]>> /\ p[1] \in Nat /\ p[2] \in Nat /\ p[3] \in Nat
                         /\ event[p].day_label \in Int /\ event[p].time_label \in Int
    BY <1>3, PlaceParts
  <2>2. before = [p \in shown |-> {q \in shown : Before(event[q], q, event[p], p)}]
    OBVIOUS
  <2> HIDE DEF event, shown, before
  <2>3. /\ \A p \in shown : ~Before(event[p], p, event[p], p)
        /\ \A p, q, r \in shown : Before(event[r], r, event[q], q) /\ Before(event[q], q, event[p], p)
                                    => Before(event[r], r, event[p], p)
        /\ \A p, q \in shown : \/ p = q
                               \/ Before(event[p], p, event[q], q) \/ Before(event[q], q, event[p], p)
    BY <2>1, BeforeIsOrder
  <2>4. before \in [shown -> SUBSET shown]
    BY <2>2
  <2>5. /\ \A p \in shown : p \notin before[p]
        /\ \A p, q \in shown : q \in before[p] => before[q] \subseteq before[p]
        /\ \A p, q \in shown : p = q \/ p \in before[q] \/ q \in before[p]
    BY <2>2, <2>3
  <2> QED
    BY <1>5, <2>4, <2>5, Ranked
<1> DEFINE N == 1..Cardinality(shown)
           T == DueAs(feeds, zone, today, shown, e)
<1>7. /\ DOMAIN events = N
      /\ \A n \in N : events[n] = output[at[n]][1] /\ at[n] \in shown
  <2>1. \A n \in N : at[n] \in shown
    BY <1>6 DEF Bijection, Injection, Surjection
  <2> QED
    BY <1>4, <2>1
<1> HIDE DEF at, before
<1>8. EntriesAs(events, e) = PositionsOf(at, N, T)
  <2>1. \A n \in N : <<events[n].uid, events[n].day_label>> = expected(at[n])
    BY <1>3, <1>7
  <2>2. \A n \in N : at[n] \in T <=> expected(at[n]) = e
    BY <1>7 DEF DueAs
  <2> HIDE DEF expected, N, T
  <2> QED
    BY <1>7, <2>1, <2>2 DEF EntriesAs, PositionsOf
<1>9. Cardinality(PositionsOf(at, N, T)) = Cardinality(T)
  <2>1. T \in SUBSET shown
    BY DEF DueAs
  <2>2. IsFiniteSet(N)
    BY <1>5, FS_CardinalityType, FS_Interval
  <2>3. at \in Bijection(N, shown)
    BY <1>6
  <2> HIDE DEF T, N, shown
  <2> QED
    BY <2>1, <2>2, <2>3, CountedThere
<1> HIDE DEF N, shown
<1> QED
  BY <1>2, <1>8, <1>9

\* For any feeds, zones, servers and clocks: every due instance is listed once,
\* under its day, and nothing else is.
THEOREM AgendasAreDue == Spec => []AgendaIsDue
<1>1. AlgorithmsInv => AgendaIsDue
  <2> SUFFICES ASSUME AlgorithmsInv, asked.algorithm = "agenda", answer # Nil,
                      Exists(asked.zone, (answer.today + answer.daysAhead) * DAY), LessThanADayApart
               PROVE  AgendaIsDue
    BY Zenon DEF AgendaIsDue
  <2>1. asked \in Listings
    BY OneAlgorithmEach DEF AlgorithmsInv
  <2>2. /\ asked.zone \in Zone /\ asked.server \in Int /\ asked.now \in Int /\ asked.halves \in Int
        /\ asked.feeds \in Seq(Seq(Component))
    BY <2>1, AlgorithmsAssumption
  <2>3. PICK zone, server, feeds, today, days, window, events :
          /\ zone \in Zone /\ server \in Int /\ feeds \in Seq(Seq(Component))
          /\ zone = asked.zone /\ server = asked.server /\ feeds = asked.feeds
          /\ today = answer.today /\ days = answer.daysAhead
          /\ window = answer.window /\ events = answer.events
    BY <2>2
  <2>4. today \in Int
    BY <2>1, <2>2, <2>3 DEF AlgorithmsInv, WindowAsAsked, dateStringAt, LocalTime,
       tzOffsetMinutes, Zone, DAY
  <2>5. days \in 1..MAX_DAYS_AHEAD
    <3>1. answer.daysAhead = resolveDaysAhead(asked.halves)
      BY <2>1 DEF AlgorithmsInv, WindowAsAsked
    <3> QED
      BY <2>2, <2>3, <3>1, DaysAhead
  <2>6. /\ window = Window(zone, server, today, days)
        /\ events = Listing(feeds, zone, server, today, window)
    BY <2>1, <2>3 DEF AlgorithmsInv, WindowAsAsked, ListedAsAsked
  <2>7. /\ Exists(zone, (today + days) * DAY)
        /\ Abs(server - zone.before) < DAY /\ Abs(server - zone.after) < DAY
    BY <2>3 DEF LessThanADayApart
  <2>8. PICK last : last = today + days
    OBVIOUS
  <2>9. \A i : /\ Due(i) <=> DueIn(i, zone, today, last, window.start)
               /\ Lingers(i) <=> LingersIn(i, server, today, last, window.start)
               /\ DayOf(i) = DayIn(i, zone)
    BY <2>3, <2>8, Zenon DEF Due, Lingers, DayOf, DueIn, LingersIn, DayIn
  <2>10. PICK listed : listed = DuePlaces(feeds, zone, server, today, last, window.start)
    OBVIOUS
  <2>11. \A e : Cardinality(EntriesAs(events, e)) = Cardinality(DueAs(feeds, zone, today, listed, e))
    BY <2>3, <2>4, <2>5, <2>6, <2>7, <2>8, <2>10, ListingCounts
  <2> DEFINE component(p) == asked.feeds[p[1]][p[2]]
             instance(p) == component(p).instances[p[3]]
  <2>12. listed = {p \in Places(asked.feeds) :
                /\ component(p).type = "VEVENT" /\ component(p).status # "CANCELLED"
                /\ component(p).expands
                /\ Due(instance(p)) \/ Lingers(instance(p))}
    BY <2>3, <2>9, <2>10 DEF DuePlaces
  <2>13. \A e : /\ EntriesAs(events, e) = {n \in DOMAIN answer.events :
                                   <<answer.events[n].uid, answer.events[n].day_label>> = e}
                /\ DueAs(feeds, zone, today, listed, e) = {p \in listed :
                       <<component(p).uid, Later(answer.today, DayOf(instance(p)))>> = e}
    BY <2>3, <2>9 DEF EntriesAs, DueAs
  <2>14. \A e : Cardinality({n \in DOMAIN answer.events :
                               <<answer.events[n].uid, answer.events[n].day_label>> = e})
             = Cardinality({p \in listed :
                   <<component(p).uid, Later(answer.today, DayOf(instance(p)))>> = e})
    BY <2>11, <2>13
  <2> QED
    BY <2>12, <2>14 DEF AgendaIsDue
<1> QED
  BY <1>1, Invariance, PTL
=============================================================================

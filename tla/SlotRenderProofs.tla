--------------------------- MODULE SlotRenderProofs --------------------------
(***************************************************************************)
(* Theorems about SlotRender, for every screen, every configuration of its *)
(* feeds and every server: types and limits, requests in their role, feeds *)
(* that do not disturb one another, pictures that are whole, and slots     *)
(* that go nowhere but further on.                                         *)
(***************************************************************************)
EXTENDS SlotRender, TLAPS

Places == Fetching \cup OnPage \cup AtRest \cup {"prepare", "template", "newPage"}

SlotState ==
    [at: Places, feed: Nat, hop: 0..MAX_REDIRECTS, url: Urls \cup {{}}, held: Nat,
     got: SUBSET Nat, shot: BOOLEAN]

\* What holds of the state r of slot s, whose answered feeds are a: the URL of
\* a first request is the configured one, a request has been checked, and all
\* that was answered has been got.
Good(s, r, a) ==
    /\ r \in SlotState
    /\ r.feed \in 0..Len(Feeds[s]) /\ r.held \in 0..Cap[Kind[s]] /\ r.got \subseteq 1..Len(Feeds[s])
    /\ r.at \in Fetching =>
          /\ r.feed # 0 /\ r.url \in Urls
          /\ r.hop = 0 => r.url = Feeds[s][r.feed]
    /\ r.at \in {"request", "body"} => AssertUrlAllowed(r.url, r.hop = 0, Kind[s] = "image")
    /\ r.at \notin AtRest => r.got = a
    /\ r.at = "prepare" => r.got = {}

SlotInv ==
    /\ call \in {"none", "rendering", "image", "failed"}
    /\ browser \in {"up", "dead"} /\ NODE_ENV \in {"production", "development"}
    /\ slot \in [Slots -> SlotState] /\ answered \in [Slots -> SUBSET Nat]
    /\ \A s \in Slots : Good(s, slot[s], answered[s])
    /\ pages \subseteq Slots /\ \A s \in pages : slot[s].at \in OnPage
    /\ call = "image" => \A s \in Slots : slot[s].at = "done"

LEMMA InvariantImplies ==
    ASSUME SlotInv
    PROVE  TypeOK /\ RequestsInRole /\ FeedsAreIndependent /\ ImageIsWhole
<1> USE DEF SlotInv
<1>1. \A s \in Slots : slot[s] \in SlotState /\ Good(s, slot[s], answered[s])
  OBVIOUS
<1>2. TypeOK
  BY <1>1 DEF TypeOK, Good, SlotState, Places
<1>3. RequestsInRole
  <2> SUFFICES ASSUME NEW s \in Slots, Requesting(s), ~slot[s].url.mapped PROVE InRole(s)
    BY DEF RequestsInRole
  <2> DEFINE u == slot[s].url
  <2>1. /\ u \in Urls /\ Kind[s] \in {"ics", "image"}
        /\ slot[s].feed \in 1..Len(Feeds[s])
        /\ slot[s].hop = 0 => u = Feeds[s][slot[s].feed]
        /\ AssertUrlAllowed(u, slot[s].hop = 0, Kind[s] = "image")
    BY <1>1, RenderAssumption DEF Good, Fetching, Requesting
  <2>2. u.addresses \subseteq Address
    BY <2>1, RenderAssumption DEF UrlType
  <2>3. CASE slot[s].hop = 0 /\ IsDevLocalUrl(u)
    BY <2>1, <2>3 DEF IsDevLocalUrl, InRole
  <2>4. CASE ~(slot[s].hop = 0 /\ IsDevLocalUrl(u))
    <3> DEFINE text(a) == [address |-> a, hex |-> FALSE]
    <3>0. u.mapped = FALSE
      BY <2>1, RenderAssumption DEF UrlType
    <3>1. \A a \in u.addresses : text(a) \in TextsOf(u) /\ text(a).address = a /\ ~text(a).hex
      BY <3>0 DEF TextsOf
    <3> HIDE DEF text
    <3>2. CASE Kind[s] = "ics"
      <4>1. u.protocol = "https" /\ AssertPublicHost(u)
        BY <2>1, <2>4, <3>2 DEF AssertUrlAllowed
      <4>2. u.addresses \subseteq {"public"}
        BY <3>1, <4>1 DEF AssertPublicHost, isPrivateIp
      <4> QED
        BY <3>2, <4>1, <4>2 DEF InRole
    <3>3. CASE Kind[s] = "image"
      <4>1. u.protocol \in {"https", "http"} /\ AssertLanHostAllowed(u)
        BY <2>1, <2>4, <3>3 DEF AssertUrlAllowed
      <4>2. \A a \in u.addresses :
               a \notin {"public", "lan"} => a \in {"loopback", "loopback6"} /\ ~Production
        BY <3>1, <4>1 DEF AssertLanHostAllowed, isLoopbackOrMetadataIp, isAllowedDevLoopback
      <4> QED
        BY <2>2, <3>3, <4>1, <4>2 DEF InRole, Address
    <3> QED
      BY <2>1, <3>2, <3>3
  <2> QED
    BY <2>3, <2>4
<1>4. FeedsAreIndependent
  BY <1>1 DEF FeedsAreIndependent, Good, AtRest, OnPage
<1>5. ImageIsWhole
  BY DEF ImageIsWhole
<1> QED
  BY <1>2, <1>3, <1>4, <1>5

(***************************************************************************)
(* Steps of one slot                                                       *)
(***************************************************************************)
\* Slot s goes to state r, with a answered, and nothing else changes of the
\* slots; the call may fail, or end with the picture of s.
LEMMA OneSlotMoves ==
    ASSUME SlotInv, NEW s \in Slots, NEW r, NEW a,
           slot' = [slot EXCEPT ![s] = r],
           answered' = [answered EXCEPT ![s] = a], a \in SUBSET Nat,
           Good(s, r, a), slot[s].at # "done",
           NODE_ENV' = NODE_ENV, browser' = browser,
           \/ call' \in {call, "failed"}
           \/ call' = "image" /\ r.at = "done" /\ \A t \in Slots \ {s} : slot[t].at = "done",
           pages' \subseteq pages \cup {s}, s \in pages' => r.at \in OnPage
    PROVE  SlotInv'
<1>1. r \in SlotState
  BY DEF Good
<1>2. /\ slot' \in [Slots -> SlotState] /\ answered' \in [Slots -> SUBSET Nat]
      /\ \A t \in Slots : answered'[t] = IF t = s THEN a ELSE answered[t]
      /\ \A t \in Slots : slot'[t] = IF t = s THEN r ELSE slot[t]
  BY <1>1 DEF SlotInv
<1>3. \A t \in Slots : Good(t, slot'[t], answered'[t])
  BY <1>2 DEF SlotInv
<1>4. \A t \in Slots : Good(t, slot[t], answered[t])'
  BY <1>3 DEF Good, AssertUrlAllowed, AssertPublicHost, AssertLanHostAllowed, IsDevLocalUrl,
     isAllowedDevLoopback, Production
<1>5. pages' \subseteq Slots /\ \A t \in pages' : slot'[t].at \in OnPage
  BY <1>2 DEF SlotInv
<1>6. call' = "image" => \A t \in Slots : slot'[t].at = "done"
  BY <1>2 DEF SlotInv
<1> QED
  BY <1>2, <1>4, <1>5, <1>6 DEF SlotInv

LEMMA PlaceIsGood ==
    ASSUME NEW s \in Slots, NEW a, NEW at \in AtRest
    PROVE  Good(s, Place(at), a)
BY RenderAssumption DEF Good, Place, StateOf, SlotState, Places, AtRest, Fetching

LEMMA FeedsMove ==
    ASSUME SlotInv, NEW s \in Slots, NEW f \in Nat \ {0}, NEW got \in SUBSET (1..Len(Feeds[s])),
           NextFeed(s, f, got), slot[s].at \in Fetching \cup {"prepare"},
           answered' = [answered EXCEPT ![s] = got],
           UNCHANGED <<call, pages, browser, NODE_ENV>>
    PROVE  SlotInv'
<1> DEFINE left == {g \in f..Len(Feeds[s]) : Kept(s, g)}
           templated == StateOf("template", 0, {}, got)
           fetching(g) == StateOf("check", g, Feeds[s][g], got)
<1>1. /\ Feeds[s] \in Seq(Urls) /\ Len(Feeds[s]) \in Nat /\ Cap[Kind[s]] \in Nat
      /\ MAX_REDIRECTS \in Nat
  BY RenderAssumption
<1>2. s \notin pages /\ slot[s].at # "done" /\ got \in SUBSET Nat
      /\ call' \in {call, "failed"} /\ pages' \subseteq pages \cup {s} /\ s \notin pages'
  BY DEF SlotInv, Fetching, OnPage
<1>3. CASE slot' = [slot EXCEPT ![s] = templated]
  <2>1. Good(s, templated, got)
    BY <1>1 DEF StateOf, Good, SlotState, Places, Fetching, AtRest
  <2> HIDE DEF templated
  <2> QED
    BY <1>2, <1>3, <2>1, OneSlotMoves
<1>4. ASSUME NEW g \in left, slot' = [slot EXCEPT ![s] = fetching(g)]
      PROVE  SlotInv'
  <2>1. g \in 1..Len(Feeds[s]) /\ Feeds[s][g] \in Urls
    BY <1>1
  <2>2. Good(s, fetching(g), got)
    BY <2>1, <1>1 DEF StateOf, Good, SlotState, Places, Fetching, AtRest
  <2> HIDE DEF fetching
  <2> QED
    BY <1>2, <1>4, <2>2, OneSlotMoves
<1> QED
  BY <1>3, <1>4 DEF NextFeed

\* A step within a slot that keeps its feed and its data.
LEMMA PlaceMoves ==
    ASSUME SlotInv, NEW s \in Slots, NEW r \in SlotState,
           slot' = [slot EXCEPT ![s] = r], slot[s].at \notin AtRest,
           r.at \notin AtRest \cup {"prepare"}, r.feed = slot[s].feed, r.got = slot[s].got,
           r.held \in 0..Cap[Kind[s]],
           r.at \in Fetching =>
              /\ r.feed # 0 /\ r.url \in Urls
              /\ r.hop = 0 => r.url = Feeds[s][r.feed],
           r.at \in {"request", "body"} => AssertUrlAllowed(r.url, r.hop = 0, Kind[s] = "image"),
           pages' \subseteq pages \cup {s}, s \in pages' => r.at \in OnPage,
           UNCHANGED <<call, answered, browser, NODE_ENV>>
    PROVE  SlotInv'
<1>1. Good(s, slot[s], answered[s]) /\ answered[s] \in SUBSET Nat
  BY DEF SlotInv
<1>2. Good(s, r, answered[s])
  BY <1>1 DEF Good
<1>3. slot[s].at # "done" /\ answered' = [answered EXCEPT ![s] = answered[s]]
  BY DEF AtRest, SlotInv
<1> QED
  BY <1>1, <1>2, <1>3, OneSlotMoves

\* A step within a slot to the place at, which keeps everything else of it.
LEMMA AtMoves ==
    ASSUME SlotInv, NEW s \in Slots, NEW at \in Places,
           slot' = [slot EXCEPT ![s].at = at], slot[s].at \notin AtRest,
           at \notin AtRest \cup Fetching \cup {"prepare"},
           pages' \subseteq pages \cup {s}, s \in pages' => at \in OnPage,
           UNCHANGED <<call, answered, browser, NODE_ENV>>
    PROVE  SlotInv'
<1> DEFINE r == [slot[s] EXCEPT !.at = at]
<1>1. slot[s] \in SlotState /\ Good(s, slot[s], answered[s]) /\ slot \in [Slots -> SlotState]
  BY DEF SlotInv
<1>2. r \in SlotState /\ r.at = at /\ r.held = slot[s].held /\ r.feed = slot[s].feed /\ r.got = slot[s].got
  BY <1>1 DEF SlotState
<1>3. slot' = [slot EXCEPT ![s] = r]
  BY <1>1
<1> HIDE DEF r
<1>4. r.held \in 0..Cap[Kind[s]]
  BY <1>1, <1>2 DEF Good
<1>5. r.at \notin Fetching /\ r.at \notin {"request", "body"} /\ r.at \notin AtRest \cup {"prepare"}
  BY <1>2 DEF Fetching
<1> QED
  BY <1>2, <1>3, <1>4, <1>5, PlaceMoves

\* A step of a fetch whose URL has been checked.
LEMMA FetchMoves ==
    ASSUME SlotInv, NEW s \in Slots, NEW at \in {"request", "body"},
           slot' = [slot EXCEPT ![s].at = at], slot[s].at \in Fetching,
           AssertUrlAllowed(slot[s].url, slot[s].hop = 0, Kind[s] = "image"),
           UNCHANGED <<call, answered, pages, browser, NODE_ENV>>
    PROVE  SlotInv'
<1> DEFINE r == [slot[s] EXCEPT !.at = at]
<1>1. /\ slot[s] \in SlotState /\ Good(s, slot[s], answered[s]) /\ slot \in [Slots -> SlotState]
      /\ at \in Places
      /\ s \notin pages
  BY DEF SlotInv, Places, Fetching, OnPage
<1>2. /\ r \in SlotState /\ r.at = at /\ r.held = slot[s].held /\ r.feed = slot[s].feed
      /\ r.got = slot[s].got /\ r.hop = slot[s].hop /\ r.url = slot[s].url
  BY <1>1 DEF SlotState
<1>3. slot' = [slot EXCEPT ![s] = r]
  BY <1>1
<1> HIDE DEF r
<1>4. /\ r.held \in 0..Cap[Kind[s]]
      /\ r.feed # 0 /\ r.url \in Urls
      /\ r.hop = 0 => r.url = Feeds[s][r.feed]
  BY <1>1, <1>2 DEF Good
<1>5. AssertUrlAllowed(r.url, r.hop = 0, Kind[s] = "image")
  BY <1>2 DEF AssertUrlAllowed
<1>6. slot[s].at \notin AtRest /\ r.at \notin AtRest \cup {"prepare"}
  BY <1>2 DEF Fetching, AtRest
<1> QED
  BY <1>1, <1>2, <1>3, <1>4, <1>5, <1>6, PlaceMoves

LEMMA FeedLost ==
    ASSUME SlotInv, NEW s \in Slots, LoseFeed(s), slot[s].at \in Fetching
    PROVE  SlotInv'
<1>1. slot[s] \in SlotState /\ Good(s, slot[s], answered[s])
  BY DEF SlotInv
<1>2. slot[s].feed + 1 \in Nat \ {0} /\ slot[s].got \in SUBSET (1..Len(Feeds[s]))
  BY <1>1 DEF SlotState, Good
<1>3. slot[s].got = answered[s]
  BY <1>1 DEF Good, Fetching, AtRest
<1>4. answered' = [answered EXCEPT ![s] = slot[s].got]
  BY <1>3 DEF LoseFeed, SlotInv
<1> QED
  BY <1>2, <1>4, FeedsMove DEF LoseFeed

LEMMA SlotFails ==
    ASSUME SlotInv, NEW s \in Slots, Fails(s), slot[s].at \notin AtRest,
           pages' \subseteq pages, s \notin pages', UNCHANGED <<answered, browser, NODE_ENV>>
    PROVE  SlotInv'
<1>1. Good(s, Place("failed"), answered[s])
  BY PlaceIsGood DEF AtRest
<1>2. slot[s].at # "done" /\ call' \in {call, "failed"}
  BY DEF AtRest, Fails
<1>3. answered' = [answered EXCEPT ![s] = answered[s]] /\ answered[s] \in SUBSET Nat
  BY DEF SlotInv
<1> QED
  BY <1>1, <1>2, <1>3, OneSlotMoves DEF Fails

(***************************************************************************)
(* The actions                                                             *)
(***************************************************************************)
LEMMA ServerSteps ==
    ASSUME SlotInv, NEW s \in Slots, ServerStep(s)
    PROVE  SlotInv'
<1>0. /\ slot[s] \in SlotState /\ Good(s, slot[s], answered[s])
      /\ slot \in [Slots -> SlotState]
      /\ s \in pages => slot[s].at \in OnPage
      /\ Cap[Kind[s]] \in Nat /\ Len(Feeds[s]) \in Nat /\ MAX_REDIRECTS \in Nat
  BY RenderAssumption DEF SlotInv
<1>1. ASSUME NEW u \in Urls, Redirect(s, u) PROVE SlotInv'
  <2> DEFINE r == [slot[s] EXCEPT !.at = "check", !.hop = @ + 1, !.url = u]
  <2>1. r \in SlotState /\ r.held = slot[s].held /\ r.feed = slot[s].feed /\ r.got = slot[s].got
        /\ r.at = "check" /\ r.hop = slot[s].hop + 1 /\ r.url = u
    BY <1>0, <1>1 DEF Redirect, SlotState, Places, Fetching
  <2>2. slot' = [slot EXCEPT ![s] = r]
    BY <1>0, <1>1 DEF Redirect
  <2> HIDE DEF r
  <2>3. slot[s].at = "request" /\ UNCHANGED <<call, answered, pages, browser, NODE_ENV>>
    BY <1>1, Zenon DEF Redirect
  <2>4. r.hop # 0 /\ r.held \in 0..Cap[Kind[s]] /\ r.feed # 0
    BY <1>0, <2>1, <2>3 DEF Good, SlotState, Fetching
  <2>5. /\ slot[s].at \notin AtRest /\ r.at \notin AtRest \cup {"prepare"} /\ s \notin pages
        /\ r.at \notin {"request", "body"}
    BY <1>0, <2>1, <2>3 DEF AtRest, OnPage
  <2> QED
    BY <2>1, <2>2, <2>3, <2>4, <2>5, PlaceMoves
<1>2. CASE BadAnswer(s)
  BY <1>2, FeedLost DEF BadAnswer, Fetching
<1>3. CASE GoodAnswer(s)
  <2>1. /\ slot[s].at = "request" /\ slot' = [slot EXCEPT ![s].at = "body"]
        /\ UNCHANGED <<call, answered, pages, browser, NODE_ENV>>
    BY <1>3 DEF GoodAnswer
  <2>2. AssertUrlAllowed(slot[s].url, slot[s].hop = 0, Kind[s] = "image")
    BY <1>0, <2>1, Zenon DEF Good
  <2> QED
    BY <2>1, <2>2, FetchMoves, Zenon DEF Fetching
<1>4. ASSUME NEW n \in Chunks, Chunk(s, n) PROVE SlotInv'
  <2>1. PICK total \in 0..Cap[Kind[s]] : total = slot[s].held + n
    BY <1>0, <1>4, RenderAssumption DEF Chunk, Good
  <2> DEFINE r == [slot[s] EXCEPT !.held = total]
  <2>2. r \in SlotState /\ r.held = total /\ r.feed = slot[s].feed /\ r.got = slot[s].got
        /\ r.at = slot[s].at /\ r.hop = slot[s].hop /\ r.url = slot[s].url
    <3>1. total \in Nat
      BY <1>0
    <3> QED
      BY <1>0, <3>1 DEF SlotState
  <2>3. slot' = [slot EXCEPT ![s] = r]
    <3>1. slot' = [slot EXCEPT ![s].held = total]
      BY <1>4, <2>1, Zenon DEF Chunk
    <3> QED
      BY <1>0, <3>1
  <2> HIDE DEF r
  <2>4. slot[s].at = "body" /\ UNCHANGED <<call, answered, pages, browser, NODE_ENV>>
    BY <1>4, Zenon DEF Chunk
  <2>5. /\ slot[s].at \notin AtRest /\ r.at \notin AtRest \cup {"prepare"} /\ s \notin pages
        /\ r.held \in 0..Cap[Kind[s]]
        /\ r.feed # 0 /\ r.url \in Urls
        /\ r.hop = 0 => r.url = Feeds[s][r.feed]
    BY <1>0, <2>1, <2>2, <2>4 DEF Good, Fetching, AtRest, OnPage
  <2>6. AssertUrlAllowed(r.url, r.hop = 0, Kind[s] = "image")
    BY <1>0, <2>2, <2>4 DEF Good, AssertUrlAllowed
  <2> QED
    BY <2>2, <2>3, <2>4, <2>5, <2>6, PlaceMoves
<1>5. ASSUME NEW n \in Chunks, ChunkTooMany(s, n) PROVE SlotInv'
  BY <1>5, FeedLost DEF ChunkTooMany, Fetching
<1>6. CASE EndOfBody(s)
  <2> DEFINE got == slot[s].got \cup {slot[s].feed}
  <2>1. slot[s].feed + 1 \in Nat \ {0} /\ got \in SUBSET (1..Len(Feeds[s]))
    BY <1>0, <1>6 DEF EndOfBody, SlotState, Good, Fetching
  <2>2. slot[s].got = answered[s] /\ slot[s].at \in Fetching
    BY <1>0, <1>6 DEF EndOfBody, Good, Fetching, AtRest
  <2>3. answered' = [answered EXCEPT ![s] = got]
    BY <1>6, <2>2 DEF EndOfBody, SlotInv
  <2> QED
    BY <1>6, <2>1, <2>2, <2>3, FeedsMove DEF EndOfBody
<1>7. CASE UnusableBody(s)
  BY <1>7, FeedLost DEF UnusableBody, Fetching
<1> QED
  BY <1>1, <1>2, <1>3, <1>4, <1>5, <1>6, <1>7 DEF ServerStep

LEMMA OwnSteps ==
    ASSUME SlotInv, NEW s \in Slots, OwnStep(s)
    PROVE  SlotInv'
<1>0. /\ slot[s] \in SlotState /\ Good(s, slot[s], answered[s])
      /\ slot \in [Slots -> SlotState] /\ answered \in [Slots -> SUBSET Nat]
      /\ pages \subseteq Slots
      /\ s \in pages => slot[s].at \in OnPage
  BY DEF SlotInv
<1>1. CASE Prepare(s)
  <2>1. slot[s].at = "prepare"
    BY <1>1 DEF Prepare
  <2>2. answered[s] = {}
    BY <1>0, <2>1 DEF Good, AtRest
  <2>3. NextFeed(s, 1, {}) /\ UNCHANGED <<call, answered, pages, browser, NODE_ENV>>
    BY <1>1 DEF Prepare
  <2>4. answered' = [answered EXCEPT ![s] = {}]
    BY <1>0, <2>2, <2>3
  <2>5. 1 \in Nat \ {0} /\ {} \in SUBSET (1..Len(Feeds[s])) /\ slot[s].at \in Fetching \cup {"prepare"}
    BY <2>1
  <2> QED
    BY <2>3, <2>4, <2>5, FeedsMove, Zenon
<1>2. CASE ExecuteFails(s)
  BY <1>0, <1>2, SlotFails DEF ExecuteFails, OnPage, AtRest
<1>3. CASE RenderTemplate(s)
  BY <1>0, <1>3, AtMoves DEF RenderTemplate, Places, OnPage, AtRest, Fetching
<1>4. CASE CheckUrl(s)
  <2>1. /\ slot[s].at = "check" /\ slot' = [slot EXCEPT ![s].at = "request"]
        /\ AssertUrlAllowed(slot[s].url, slot[s].hop = 0, Kind[s] = "image")
        /\ UNCHANGED <<call, answered, pages, browser, NODE_ENV>>
    BY <1>4, Zenon DEF CheckUrl
  <2> QED
    BY <2>1, FetchMoves, Zenon DEF Fetching
<1>5. CASE CheckFails(s)
  BY <1>5, FeedLost DEF CheckFails, Fetching
<1>6. CASE Timeout(s)
  BY <1>6, FeedLost DEF Timeout, Fetching
<1>7. CASE NewPage(s)
  <2>1. /\ slot[s].at = "newPage" /\ slot' = [slot EXCEPT ![s].at = "setUp"]
        /\ pages' = pages \cup {s} /\ UNCHANGED <<call, answered, browser, NODE_ENV>>
    BY <1>7 DEF NewPage
  <2>2. /\ "setUp" \in Places /\ "setUp" \in OnPage
        /\ "setUp" \notin AtRest \cup {"prepare"} /\ "setUp" \notin Fetching
        /\ slot[s].at \notin AtRest
    BY <2>1 DEF Places, OnPage, AtRest, Fetching
  <2> QED
    BY <2>1, <2>2, AtMoves
<1>8. CASE NewPageFails(s)
  BY <1>0, <1>8, SlotFails DEF NewPageFails, OnPage, AtRest
<1>9. CASE PageStep(s)
  <2> DEFINE at == AfterPageStep(s)[slot[s].at]
             shot == slot[s].at = "screenshot"
             r == [slot[s] EXCEPT !.at = at, !.shot = shot]
  <2>1. slot[s].at \in {"setUp", "setContent", "waitForReady", "screenshot"}
    BY <1>9 DEF PageStep, AfterPageStep
  <2>2. at \in OnPage /\ at \in Places /\ shot \in BOOLEAN
    BY <2>1 DEF AfterPageStep, OnPage, Places
  <2>3. slot' = [slot EXCEPT ![s] = r] /\ UNCHANGED <<call, answered, pages, browser, NODE_ENV>>
    BY <1>0, <1>9 DEF PageStep
  <2> HIDE DEF at, shot
  <2>4. /\ r \in SlotState /\ r.at = at /\ r.held = slot[s].held /\ r.feed = slot[s].feed
        /\ r.got = slot[s].got
    BY <1>0, <2>2 DEF SlotState
  <2> HIDE DEF r
  <2>5. r.held \in 0..Cap[Kind[s]] /\ slot[s].at \notin AtRest
    BY <1>0, <2>1, <2>4 DEF Good, AtRest
  <2>6. r.at \notin AtRest \cup {"prepare"} /\ r.at \notin Fetching /\ r.at \notin {"request", "body"}
    BY <2>2, <2>4 DEF OnPage, AtRest, Fetching
  <2> QED
    BY <2>2, <2>3, <2>4, <2>5, <2>6, PlaceMoves
<1>10. CASE PageStepFails(s)
  BY <1>0, <1>10, AtMoves DEF PageStepFails, Places, OnPage, AtRest, Fetching
<1>11. CASE Close(s)
  <2>1. slot[s].at = "close" /\ pages' = pages \ {s} /\ UNCHANGED <<answered, browser, NODE_ENV>>
    BY <1>11 DEF Close
  <2>2. slot[s].at \notin AtRest /\ pages' \subseteq pages \cup {s} /\ s \notin pages'
    BY <2>1 DEF AtRest
  <2>3. CASE slot[s].shot
    <3>1. Good(s, Place("done"), answered[s])
      BY PlaceIsGood DEF AtRest
    <3>2. /\ slot' = [slot EXCEPT ![s] = Place("done")]
          /\ call' = IF \A t \in Slots \ {s} : slot[t].at = "done" THEN "image" ELSE call
      BY <1>11, <2>3 DEF Close
    <3>3. Place("done").at = "done"
      BY DEF Place, StateOf
    <3>4. answered' = [answered EXCEPT ![s] = answered[s]] /\ answered[s] \in SUBSET Nat
      BY <1>0, <2>1
    <3>5. \/ call' \in {call, "failed"}
          \/ call' = "image" /\ Place("done").at = "done" /\ \A t \in Slots \ {s} : slot[t].at = "done"
      BY <3>2, <3>3
    <3> QED
      BY <2>1, <2>2, <3>1, <3>2, <3>4, <3>5, OneSlotMoves DEF AtRest
  <2>4. CASE ~slot[s].shot
    BY <1>11, <2>1, <2>2, <2>4, SlotFails DEF Close
  <2> QED
    BY <2>3, <2>4
<1> QED
  BY <1>1, <1>2, <1>3, <1>4, <1>5, <1>6, <1>7, <1>8, <1>9, <1>10, <1>11 DEF OwnStep

LEMMA OtherSteps ==
    ASSUME SlotInv, RenderSlots \/ BrowserDies \/ Restart
    PROVE  SlotInv'
<1>1. CASE RenderSlots
  <2>1. /\ \A s \in Slots : slot[s].at \in AtRest
        /\ call' = "rendering" /\ UNCHANGED <<pages, browser, NODE_ENV>>
        /\ slot' = [s \in Slots |-> Place("prepare")] /\ answered' = [s \in Slots |-> {}]
    BY <1>1 DEF RenderSlots
  <2>2. \A s \in Slots : Good(s, Place("prepare"), {})
    BY RenderAssumption DEF Good, Place, StateOf, SlotState, Places, AtRest, Fetching
  <2>3. \A s \in Slots : slot'[s] = Place("prepare") /\ answered'[s] = {}
    BY <2>1
  <2>4. \A s \in Slots : Good(s, slot[s], answered[s])'
    BY <2>1, <2>2, <2>3 DEF Good, AssertUrlAllowed, AssertPublicHost, AssertLanHostAllowed,
       IsDevLocalUrl, isAllowedDevLoopback, Production
  <2>5. slot' \in [Slots -> SlotState] /\ answered' \in [Slots -> SUBSET Nat]
    BY <2>1, <2>2 DEF Good
  <2>6. pages' = {}
    BY <2>1 DEF SlotInv, AtRest, OnPage
  <2> QED
    BY <2>1, <2>4, <2>5, <2>6 DEF SlotInv
<1>2. CASE BrowserDies
  <2>1. /\ browser' = "dead" /\ pages' = {} /\ UNCHANGED <<call, slot, answered, NODE_ENV>>
    BY <1>2 DEF BrowserDies
  <2>2. \A s \in Slots : Good(s, slot[s], answered[s])'
    BY <2>1 DEF SlotInv, Good, AssertUrlAllowed, AssertPublicHost, AssertLanHostAllowed,
       IsDevLocalUrl, isAllowedDevLoopback, Production
  <2> QED
    BY <2>1, <2>2 DEF SlotInv
<1>3. CASE Restart
  <2>1. /\ call' = "none" /\ browser' = "up" /\ pages' = {} /\ UNCHANGED NODE_ENV
        /\ slot' = [s \in Slots |-> Place("idle")] /\ answered' = [s \in Slots |-> {}]
    BY <1>3 DEF Restart
  <2>2. \A s \in Slots : Good(s, Place("idle"), {})
    BY PlaceIsGood DEF AtRest
  <2>3. \A s \in Slots : slot'[s] = Place("idle") /\ answered'[s] = {}
    BY <2>1
  <2>4. \A s \in Slots : Good(s, slot[s], answered[s])'
    BY <2>1, <2>2, <2>3 DEF Good, AssertUrlAllowed, AssertPublicHost, AssertLanHostAllowed,
       IsDevLocalUrl, isAllowedDevLoopback, Production
  <2>5. slot' \in [Slots -> SlotState] /\ answered' \in [Slots -> SUBSET Nat]
    BY <2>1, <2>2 DEF Good
  <2> QED
    BY <2>1, <2>4, <2>5 DEF SlotInv
<1> QED
  BY <1>1, <1>2, <1>3

LEMMA Invariance == Spec => []SlotInv
<1>1. Init => SlotInv
  <2> SUFFICES ASSUME Init PROVE SlotInv
    OBVIOUS
  <2>1. \A s \in Slots : Good(s, Place("idle"), {})
    BY PlaceIsGood DEF AtRest
  <2>2. slot = [s \in Slots |-> Place("idle")] /\ answered = [s \in Slots |-> {}]
    BY DEF Init
  <2>3. slot \in [Slots -> SlotState] /\ answered \in [Slots -> SUBSET Nat]
    BY <2>1, <2>2 DEF Good
  <2>4. \A s \in Slots : Good(s, slot[s], answered[s])
    BY <2>1, <2>2
  <2> QED
    BY <2>3, <2>4 DEF Init, SlotInv
<1>2. SlotInv /\ [Next]_vars => SlotInv'
  <2> SUFFICES ASSUME SlotInv, [Next]_vars PROVE SlotInv'
    OBVIOUS
  <2>1. CASE RenderSlots \/ BrowserDies \/ Restart
    BY <2>1, OtherSteps
  <2>2. ASSUME NEW s \in Slots, ServerStep(s) \/ OwnStep(s) PROVE SlotInv'
    BY <2>2, ServerSteps, OwnSteps
  <2>3. CASE UNCHANGED vars
    BY <2>3 DEF vars, SlotInv, Good, AssertUrlAllowed, AssertPublicHost, AssertLanHostAllowed,
       IsDevLocalUrl, isAllowedDevLoopback, Production
  <2> QED
    BY <2>1, <2>2, <2>3 DEF Next
<1> QED
  BY <1>1, <1>2, PTL DEF Spec

(***************************************************************************)
(* Progress                                                                *)
(***************************************************************************)
\* The stages of a slot under way, and what it does for one request.
Stage(at) ==
    CASE at = "prepare" -> 0
      [] at \in Fetching -> 1
      [] at = "template" -> 2
      [] at = "newPage" -> 3
      [] at = "setUp" -> 4
      [] at = "setContent" -> 5
      [] at = "waitForReady" -> 6
      [] at = "screenshot" -> 7
      [] at = "close" -> 8
      [] OTHER -> 9
Phase(at) == CASE at = "check" -> 0 [] at = "request" -> 1 [] OTHER -> 2

\* State q of a slot is further on than state r: at a later stage, a later
\* feed, a later hop of one feed, a later phase of one request, or with more of
\* one body.  A slot can do so only so often: each of these is bounded.
Further(r, q) ==
    \/ Stage(r.at) < Stage(q.at)
    \/ /\ r.at \in Fetching /\ q.at \in Fetching
       /\ \/ r.feed < q.feed
          \/ r.feed = q.feed /\ r.hop < q.hop
          \/ r.feed = q.feed /\ r.hop = q.hop /\ Phase(r.at) < Phase(q.at)
          \/ r.feed = q.feed /\ r.hop = q.hop /\ r.at = q.at /\ r.held < q.held

\* A slot that is under way goes nowhere but further on, until it is at rest
\* or the process is started anew.
SlotAdvances(s) ==
    slot[s].at \notin AtRest =>
        slot'[s] = slot[s] \/ Further(slot[s], slot'[s]) \/ slot' = [t \in Slots |-> Place("idle")]

LEMMA NextFeedIsFurther ==
    ASSUME SlotInv, NEW s \in Slots, NEW f \in Nat, NEW got \in SUBSET Nat, NextFeed(s, f, got),
           \/ slot[s].at = "prepare"
           \/ slot[s].at \in Fetching /\ slot[s].feed < f
    PROVE  Further(slot[s], slot'[s])
<1>1. slot[s].feed \in Nat /\ slot \in [Slots -> SlotState]
  BY DEF SlotInv, SlotState
<1>2. Stage(slot[s].at) \in {0, 1}
  BY DEF Stage, Fetching
<1>3. ASSUME slot'[s] = StateOf("template", 0, {}, got)
      PROVE  Further(slot[s], slot'[s])
  <2>1. Stage(slot'[s].at) = 2
    BY <1>3 DEF StateOf, Stage, Fetching
  <2> QED
    BY <1>2, <2>1 DEF Further
<1>4. ASSUME NEW g \in f..Len(Feeds[s]), slot'[s] = StateOf("check", g, Feeds[s][g], got)
      PROVE  Further(slot[s], slot'[s])
  <2>1. /\ slot'[s].at = "check" /\ slot'[s].feed = g /\ g \in Nat /\ f <= g
        /\ Stage("check") = 1
    <3>1. slot'[s].at = "check" /\ slot'[s].feed = g
      BY <1>4 DEF StateOf
    <3>2. Stage("check") = 1
      BY DEF Stage, Fetching
    <3>3. g \in Nat /\ f <= g
      BY RenderAssumption
    <3> QED
      BY <3>1, <3>2, <3>3
  <2>2. CASE slot[s].at = "prepare"
    BY <2>1, <2>2 DEF Stage, Fetching, Further
  <2>3. CASE slot[s].at \in Fetching /\ slot[s].feed < f
    <3>1. slot[s].feed < slot'[s].feed /\ slot'[s].at \in Fetching
      BY <1>1, <2>1, <2>3 DEF Fetching
    <3> QED
      BY <2>3, <3>1 DEF Further
  <2> QED
    BY <2>2, <2>3
<1> QED
  BY <1>1, <1>3, <1>4 DEF NextFeed

\* Giving a feed up, or having all of it, leads on to a later one.
LEMMA FeedDone ==
    ASSUME SlotInv, NEW s \in Slots, slot[s].at \in Fetching, NEW got \in SUBSET Nat,
           NextFeed(s, slot[s].feed + 1, got)
    PROVE  Further(slot[s], slot'[s])
<1>1. slot[s].feed \in Nat
  BY DEF SlotInv, SlotState
<1>2. slot[s].feed + 1 \in Nat /\ slot[s].feed < slot[s].feed + 1
  BY <1>1
<1> QED
  BY <1>2, NextFeedIsFurther

\* What a step of slot s does to the slots, and to s itself.
LEMMA StepIsFurther ==
    ASSUME SlotInv, NEW s \in Slots, ServerStep(s) \/ OwnStep(s)
    PROVE  Further(slot[s], slot'[s])
<1>0. /\ slot[s] \in SlotState /\ slot \in [Slots -> SlotState]
      /\ slot[s].feed \in Nat /\ slot[s].hop \in Nat /\ slot[s].held \in Nat
      /\ slot[s].got \in SUBSET Nat
  BY RenderAssumption DEF SlotInv, SlotState
<1>1. ASSUME LoseFeed(s), slot[s].at \in Fetching PROVE Further(slot[s], slot'[s])
  BY <1>0, <1>1, FeedDone DEF LoseFeed
<1>2. ASSUME Fails(s), Stage(slot[s].at) < 9 PROVE Further(slot[s], slot'[s])
  <2>1. slot'[s].at = "failed"
    BY <1>0, <1>2 DEF Fails, Place, StateOf
  <2> QED
    BY <1>2, <2>1 DEF Further, Stage, Fetching
<1>3. ASSUME NEW u \in Urls, Redirect(s, u) PROVE Further(slot[s], slot'[s])
  <2>1. /\ slot[s].at = "request" /\ slot'[s].at = "check"
        /\ slot'[s].feed = slot[s].feed /\ slot'[s].hop = slot[s].hop + 1
    BY <1>0, <1>3 DEF Redirect, SlotState
  <2>2. slot[s].hop < slot'[s].hop
    BY <1>0, <2>1
  <2> QED
    BY <2>1, <2>2 DEF Further, Fetching
<1>4. ASSUME NEW n \in Chunks, Chunk(s, n) PROVE Further(slot[s], slot'[s])
  <2>1. /\ slot[s].at = "body" /\ slot'[s].at = "body" /\ slot'[s].feed = slot[s].feed
        /\ slot'[s].hop = slot[s].hop /\ slot'[s].held = slot[s].held + n
    BY <1>0, <1>4 DEF Chunk, SlotState
  <2>2. slot[s].held < slot'[s].held
    BY <1>0, <2>1, RenderAssumption
  <2> QED
    BY <2>1, <2>2 DEF Further, Fetching
<1>5. ASSUME CheckUrl(s) \/ GoodAnswer(s) PROVE Further(slot[s], slot'[s])
  <2>1. /\ \/ slot[s].at = "check" /\ slot'[s].at = "request"
           \/ slot[s].at = "request" /\ slot'[s].at = "body"
        /\ slot'[s].feed = slot[s].feed /\ slot'[s].hop = slot[s].hop
    BY <1>0, <1>5 DEF CheckUrl, GoodAnswer, SlotState
  <2> QED
    BY <2>1 DEF Further, Fetching, Phase
<1>6. CASE ServerStep(s)
  <2>1. ASSUME NEW n \in Chunks, ChunkTooMany(s, n) PROVE Further(slot[s], slot'[s])
    BY <1>1, <2>1 DEF ChunkTooMany, Fetching
  <2>2. CASE EndOfBody(s)
    <3>1. slot[s].got \cup {slot[s].feed} \in SUBSET Nat
      BY <1>0
    <3> QED
      BY <2>2, <3>1, FeedDone DEF EndOfBody, Fetching
  <2>3. CASE BadAnswer(s) \/ UnusableBody(s)
    BY <1>1, <2>3 DEF BadAnswer, UnusableBody, Fetching
  <2> QED
    BY <1>3, <1>4, <1>5, <1>6, <2>1, <2>2, <2>3 DEF ServerStep
<1>7. CASE Prepare(s)
  <2>1. slot[s].at = "prepare" /\ NextFeed(s, 1, {})
    BY <1>7 DEF Prepare
  <2>2. 1 \in Nat /\ {} \in SUBSET Nat
    OBVIOUS
  <2> QED
    BY <2>1, <2>2, NextFeedIsFurther, Zenon
<1>8. CASE ExecuteFails(s) \/ NewPageFails(s)
  BY <1>2, <1>8 DEF ExecuteFails, NewPageFails, Stage, Fetching
<1>9. CASE CheckFails(s) \/ Timeout(s)
  BY <1>1, <1>9 DEF CheckFails, Timeout, Fetching
<1>10. CASE RenderTemplate(s) \/ NewPage(s)
  <2>1. \/ slot[s].at = "template" /\ slot'[s].at = "newPage"
        \/ slot[s].at = "newPage" /\ slot'[s].at = "setUp"
    BY <1>0, <1>10 DEF RenderTemplate, NewPage, SlotState
  <2> QED
    BY <2>1 DEF Further, Stage, Fetching
<1>11. CASE PageStep(s)
  <2>1. /\ slot[s].at \in {"setUp", "setContent", "waitForReady", "screenshot"}
        /\ slot'[s].at = AfterPageStep(s)[slot[s].at]
    BY <1>0, <1>11 DEF PageStep, AfterPageStep, SlotState
  <2>2. \/ slot[s].at = "setUp" /\ slot'[s].at = "setContent"
        \/ slot[s].at = "setContent" /\ slot'[s].at \in {"waitForReady", "screenshot"}
        \/ slot[s].at = "waitForReady" /\ slot'[s].at = "screenshot"
        \/ slot[s].at = "screenshot" /\ slot'[s].at = "close"
    BY <2>1 DEF AfterPageStep
  <2> QED
    BY <2>2 DEF Further, Stage, Fetching
<1>12. CASE PageStepFails(s)
  <2>1. slot[s].at \in {"setUp", "setContent", "screenshot"} /\ slot'[s].at = "close"
    BY <1>0, <1>12 DEF PageStepFails, SlotState
  <2> QED
    BY <2>1 DEF Further, Stage, Fetching
<1>13. CASE Close(s)
  <2>1. slot[s].at = "close" /\ slot'[s].at \in {"done", "failed"}
    BY <1>0, <1>13 DEF Close, Fails, Place, StateOf
  <2> QED
    BY <2>1 DEF Further, Stage, Fetching
<1> QED
  BY <1>5, <1>6, <1>7, <1>8, <1>9, <1>10, <1>11, <1>12, <1>13 DEF OwnStep

\* A step of one slot leaves the others where they are.
LEMMA OthersStay ==
    ASSUME SlotInv, NEW s \in Slots, ServerStep(s) \/ OwnStep(s), NEW t \in Slots \ {s}
    PROVE  slot'[t] = slot[t]
<1>1. slot \in [Slots -> SlotState]
  BY DEF SlotInv
<1>2. ASSUME NEW f, NEW got, NextFeed(s, f, got) PROVE slot'[t] = slot[t]
  BY <1>1, <1>2 DEF NextFeed
<1>3. ASSUME LoseFeed(s) PROVE slot'[t] = slot[t]
  BY <1>2, <1>3 DEF LoseFeed
<1>4. ASSUME Fails(s) PROVE slot'[t] = slot[t]
  BY <1>1, <1>4 DEF Fails
<1>5. CASE ServerStep(s)
  <2>1. ASSUME NEW u \in Urls, Redirect(s, u) PROVE slot'[t] = slot[t]
    BY <1>1, <2>1 DEF Redirect
  <2>2. ASSUME NEW n \in Chunks, Chunk(s, n) \/ ChunkTooMany(s, n) PROVE slot'[t] = slot[t]
    BY <1>1, <1>3, <2>2 DEF Chunk, ChunkTooMany
  <2>3. CASE BadAnswer(s) \/ GoodAnswer(s) \/ EndOfBody(s) \/ UnusableBody(s)
    BY <1>1, <1>2, <1>3, <2>3 DEF BadAnswer, GoodAnswer, EndOfBody, UnusableBody
  <2> QED
    BY <1>5, <2>1, <2>2, <2>3 DEF ServerStep
<1>6. CASE Prepare(s) \/ ExecuteFails(s) \/ RenderTemplate(s) \/ CheckUrl(s) \/ CheckFails(s) \/ Timeout(s)
  BY <1>1, <1>2, <1>3, <1>4, <1>6 DEF Prepare, ExecuteFails, RenderTemplate, CheckUrl, CheckFails, Timeout
<1>7. CASE NewPage(s) \/ NewPageFails(s) \/ PageStep(s) \/ PageStepFails(s)
  BY <1>1, <1>4, <1>7 DEF NewPage, NewPageFails, PageStep, PageStepFails
<1>8. CASE Close(s)
  BY <1>1, <1>4, <1>8 DEF Close
<1> QED
  BY <1>5, <1>6, <1>7, <1>8 DEF OwnStep

LEMMA StepsAdvance ==
    ASSUME SlotInv, [Next]_vars, NEW s \in Slots
    PROVE  SlotAdvances(s)
<1>1. CASE RenderSlots \/ BrowserDies \/ Restart
  BY <1>1 DEF RenderSlots, BrowserDies, Restart, SlotAdvances
<1>2. ASSUME NEW t \in Slots, ServerStep(t) \/ OwnStep(t) PROVE SlotAdvances(s)
  BY <1>2, StepIsFurther, OthersStay DEF SlotAdvances
<1>3. CASE UNCHANGED vars
  BY <1>3 DEF vars, SlotAdvances
<1> QED
  BY <1>1, <1>2, <1>3 DEF Next

(***************************************************************************)
(* The theorems                                                            *)
(***************************************************************************)
\* Every body is kept within the limit of its kind and every fetch ends after
\* MAX_REDIRECTS redirects (guarded-fetch.ts), whatever the servers send.
THEOREM SlotTypes == Spec => []TypeOK
BY Invariance, InvariantImplies, PTL

\* No request, redirected or not, whose host is not in the mapped form goes
\* where its kind of source may not (guarded-fetch.ts assertUrlAllowed).
THEOREM RequestsKeepTheirRole == Spec => []RequestsInRole
BY Invariance, InvariantImplies, PTL

\* What one feed answered is not lost by another (ics.source.ts resolve).
THEOREM FeedsDoNotDisturb == Spec => []FeedsAreIndependent
BY Invariance, InvariantImplies, PTL

\* Pictures come for every slot or not at all, and a page is open only while
\* its slot will close it (screen-render.service.ts, browser.service.ts).
THEOREM PicturesAreWhole == Spec => []ImageIsWhole
BY Invariance, InvariantImplies, PTL

\* However servers redirect, stall or fail, and whatever becomes of the browser,
\* no step takes a slot back to where it was: no loop of fetch or render runs
\* for ever (guarded-fetch.ts, ics.source.ts, screen-render.service.ts).  With
\* the bounds of TypeOK this is why RenderEnds needs fairness only of each step.
THEOREM SlotsAdvance == Spec => [][\A s \in Slots : SlotAdvances(s)]_vars
<1>1. SlotInv /\ [Next]_vars => [\A s \in Slots : SlotAdvances(s)]_vars
  BY StepsAdvance
<1> QED
  BY <1>1, Invariance, PTL DEF Spec
=============================================================================

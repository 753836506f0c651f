----------------------------- MODULE SlotRender ------------------------------
(***************************************************************************)
(* One call of renderSlots: the slots of a screen are rendered at the same *)
(* time, each first fetching the feeds of its data source one after the    *)
(* other and then drawing its HTML on a page of the one browser.  Servers  *)
(* redirect, stall and send what they like; Chromium may die, and nothing  *)
(* but a restart of the process launches it again.                         *)
(* The caches are in RenderCaches and Display: here every lookup misses.   *)
(* A name resolves to the same addresses when it is checked and used.      *)
(***************************************************************************)
EXTENDS Naturals, Sequences, FiniteSets

CONSTANTS
    Slots,          \* slots of the screen
    Kind,           \* type of the slot's data source: "ics" or "image"
    Feeds,          \* the URLs in the slot's configuration, a sequence
    Urls,           \* URLs that are configured or redirected to
    Cap,            \* maxBodyBytes of each kind
    Chunks,         \* sizes of a piece of a body
    MAX_REDIRECTS,
    ScriptCapable   \* slots whose plugin says when it is ready

\* What the checks tell apart in a URL: its protocol, whether its host is an
\* address written out, in the IPv4-mapped form of IPv6 or plainly, and which
\* kinds of address the host stands for ("loopback" is 127.0.0.1, "loopback6"
\* ::1, "restricted" all else that no source may reach).
Address == {"public", "lan", "loopback", "loopback6", "restricted"}
UrlType ==
    {u \in [protocol: {"https", "http", "other"}, literal: BOOLEAN, mapped: BOOLEAN,
            addresses: SUBSET Address] :
       /\ u.literal => \E a \in Address : u.addresses = {a}
       /\ u.mapped => u.literal /\ u.addresses # {"loopback6"}}

ASSUME RenderAssumption ==
    /\ Slots # {} /\ Urls \subseteq UrlType
    /\ Kind \in [Slots -> {"ics", "image"}]
    /\ Feeds \in [Slots -> Seq(Urls)]
    /\ Cap \in [{"ics", "image"} -> Nat] /\ Chunks \subseteq Nat \ {0}
    /\ MAX_REDIRECTS \in Nat /\ ScriptCapable \subseteq Slots

VARIABLES
    call,     \* the promise of renderSlots
    slot,     \* where the render of each slot is
    answered, \* history: feeds of the slot whose server sent all of a usable body
    pages,    \* slots that have a page open in Chromium
    browser,  \* Chromium
    NODE_ENV  \* of the process

vars == <<call, slot, answered, pages, browser, NODE_ENV>>

Production == NODE_ENV = "production"

Fetching == {"check", "request", "body"}
OnPage == {"setUp", "setContent", "waitForReady", "screenshot", "close"}
AtRest == {"idle", "done", "failed"}

\* feed: index of the feed being fetched; hop, url: of its current request;
\* held: bytes of the body kept so far; got: feeds whose data is in; shot:
\* whether there is a screenshot.
StateOf(at, feed, url, got) ==
    [at |-> at, feed |-> feed, hop |-> 0, url |-> url, held |-> 0, got |-> got, shot |-> FALSE]
Place(at) == StateOf(at, 0, {}, {})

Init ==
    /\ call = "none" /\ pages = {} /\ browser = "up"
    /\ NODE_ENV \in {"production", "development"}
    /\ slot = [s \in Slots |-> Place("idle")]
    /\ answered = [s \in Slots |-> {}]

(***************************************************************************)
(* The checks of a URL                                                     *)
(***************************************************************************)
IsDevLocalUrl(u) ==
    u.protocol = "http" /\ u.addresses = {"loopback"} /\ u.literal /\ ~u.mapped /\ ~Production

\* The texts that stand for a host: itself, or what lookup answers.  URL.hostname
\* writes a mapped address in hexadecimal, as ::ffff:7f00:1.
Text == [address: Address, hex: BOOLEAN]
TextsOf(u) == {[address |-> a, hex |-> u.mapped] : a \in u.addresses}

\* What is left of such a text behind ::ffff: is no dotted address, nor any of
\* the IPv6 ones the checks know (that it may begin like one is in CheckFails).
isPrivateIp(text) == ~text.hex /\ text.address # "public"
isLoopbackOrMetadataIp(text) == ~text.hex /\ text.address \notin {"public", "lan"}
isAllowedDevLoopback(text) ==
    ~text.hex /\ text.address \in {"loopback", "loopback6"} /\ ~Production

AssertPublicHost(u) == \A text \in TextsOf(u) : ~isPrivateIp(text)

AssertLanHostAllowed(u) ==
    \A text \in TextsOf(u) : isLoopbackOrMetadataIp(text) => isAllowedDevLoopback(text)

AssertUrlAllowed(u, isEntry, allowPrivateLan) ==
    /\ \/ u.protocol = "https"
       \/ isEntry /\ IsDevLocalUrl(u)
       \/ allowPrivateLan /\ u.protocol = "http"
    /\ \/ isEntry /\ IsDevLocalUrl(u)
       \/ allowPrivateLan /\ AssertLanHostAllowed(u)
       \/ ~allowPrivateLan /\ AssertPublicHost(u)

\* The feeds of a calendar that resolveUrls keeps; an image has no such filter.
Kept(s, f) ==
    Kind[s] = "image" \/ Feeds[s][f].protocol = "https" \/ IsDevLocalUrl(Feeds[s][f])

(***************************************************************************)
(* Fetching                                                                *)
(***************************************************************************)
\* The loop over the feeds goes on with feed f, or the next one that is kept.
NextFeed(s, f, got) ==
    LET left == {g \in f..Len(Feeds[s]) : Kept(s, g)}
    IN  \/ /\ left = {}
           /\ slot' = [slot EXCEPT ![s] = StateOf("template", 0, {}, got)]
        \/ \E g \in left :
              /\ \A h \in left : g <= h
              /\ slot' = [slot EXCEPT ![s] = StateOf("check", g, Feeds[s][g], got)]

\* Mutant: the catch is around the loop over the feeds.
LoseAllFeeds(s) ==
    /\ NextFeed(s, Len(Feeds[s]) + 1, {})
    /\ UNCHANGED <<call, answered, pages, browser, NODE_ENV>>

\* A fetch that throws loses its own feed only.
LoseFeed(s) ==
    /\ NextFeed(s, slot[s].feed + 1, slot[s].got)
    /\ UNCHANGED <<call, answered, pages, browser, NODE_ENV>>

\* Mutant: only the first URL is checked.
CheckEntryUrl(s) ==
    /\ slot[s].at = "check"
    /\ slot[s].hop > 0 \/ AssertUrlAllowed(slot[s].url, TRUE, Kind[s] = "image")
    /\ slot' = [slot EXCEPT ![s].at = "request"]
    /\ UNCHANGED <<call, answered, pages, browser, NODE_ENV>>

\* Before each request, the redirected ones too.
CheckUrl(s) ==
    /\ slot[s].at = "check"
    /\ AssertUrlAllowed(slot[s].url, slot[s].hop = 0, Kind[s] = "image")
    /\ slot' = [slot EXCEPT ![s].at = "request"]
    /\ UNCHANGED <<call, answered, pages, browser, NODE_ENV>>

\* The address is not allowed, or its host is not found.
CheckFails(s) == slot[s].at = "check" /\ LoseFeed(s)

\* A redirect with a Location; the last one allowed leads nowhere.
Redirect(s, u) ==
    /\ slot[s].at = "request" /\ slot[s].hop < MAX_REDIRECTS
    /\ slot' = [slot EXCEPT ![s].at = "check", ![s].hop = @ + 1, ![s].url = u]
    /\ UNCHANGED <<call, answered, pages, browser, NODE_ENV>>

\* An error status, no Location, too many redirects, a declared length over
\* the limit, a broken connection.
BadAnswer(s) == slot[s].at \in {"request", "body"} /\ LoseFeed(s)

\* A good status, and no declared length over the limit.
GoodAnswer(s) ==
    /\ slot[s].at = "request"
    /\ slot' = [slot EXCEPT ![s].at = "body"]
    /\ UNCHANGED <<call, answered, pages, browser, NODE_ENV>>

\* Mutant: the total is compared before the piece is added.
ChunkLate(s, n) ==
    /\ slot[s].at = "body" /\ slot[s].held <= Cap[Kind[s]]
    /\ slot' = [slot EXCEPT ![s].held = @ + n]
    /\ UNCHANGED <<call, answered, pages, browser, NODE_ENV>>

\* A piece of the body that keeps the total within the limit.
Chunk(s, n) ==
    /\ slot[s].at = "body" /\ slot[s].held + n <= Cap[Kind[s]]
    /\ slot' = [slot EXCEPT ![s].held = @ + n]
    /\ UNCHANGED <<call, answered, pages, browser, NODE_ENV>>

\* One that does not: the body is given up.
ChunkTooMany(s, n) == slot[s].at = "body" /\ slot[s].held + n > Cap[Kind[s]] /\ LoseFeed(s)

\* The body ends and is what it should be: a calendar, an image.
EndOfBody(s) ==
    /\ slot[s].at = "body"
    /\ NextFeed(s, slot[s].feed + 1, slot[s].got \cup {slot[s].feed})
    /\ answered' = [answered EXCEPT ![s] = @ \cup {slot[s].feed}]
    /\ UNCHANGED <<call, pages, browser, NODE_ENV>>

\* It ends and does not parse, or its content type is no image.
UnusableBody(s) == slot[s].at = "body" /\ LoseFeed(s)

\* Mutant: the timer is cleared when the headers are there.
TimeoutOfHeaders(s) == slot[s].at = "request" /\ LoseFeed(s)

\* AbortSignal.timeout: of the answer and of its body.
Timeout(s) == slot[s].at \in {"request", "body"} /\ LoseFeed(s)

(***************************************************************************)
(* A slot, from its rows to its picture                                    *)
(***************************************************************************)
\* The slot's promise rejects; the first one to do so settles the call.
\* The others go on: nobody cancels them.
Fails(s) ==
    /\ slot' = [slot EXCEPT ![s] = Place("failed")]
    /\ call' = IF call = "rendering" THEN "failed" ELSE call

\* Instance, version, manifest, template and context are there.
Prepare(s) ==
    /\ slot[s].at = "prepare"
    /\ NextFeed(s, 1, {})
    /\ UNCHANGED <<call, answered, pages, browser, NODE_ENV>>

\* One of them is not, or the template throws or takes too long.
ExecuteFails(s) ==
    /\ slot[s].at \in {"prepare", "template"}
    /\ Fails(s)
    /\ UNCHANGED <<answered, pages, browser, NODE_ENV>>

\* The template is rendered with the data that was got.
RenderTemplate(s) ==
    /\ slot[s].at = "template"
    /\ slot' = [slot EXCEPT ![s].at = "newPage"]
    /\ UNCHANGED <<call, answered, pages, browser, NODE_ENV>>

NewPage(s) ==
    /\ slot[s].at = "newPage" /\ browser = "up"
    /\ slot' = [slot EXCEPT ![s].at = "setUp"]
    /\ pages' = pages \cup {s}
    /\ UNCHANGED <<call, answered, browser, NODE_ENV>>

\* Outside the try: there is no page to close.
NewPageFails(s) ==
    /\ slot[s].at = "newPage"
    /\ Fails(s)
    /\ UNCHANGED <<answered, pages, browser, NODE_ENV>>

\* The next call on the page, which a live browser answers; the wait for the
\* plugin's own signal ends either way, and never throws.
AfterPageStep(s) ==
    [setUp |-> "setContent",
     setContent |-> IF s \in ScriptCapable THEN "waitForReady" ELSE "screenshot",
     waitForReady |-> "screenshot",
     screenshot |-> "close"]

PageStep(s) ==
    /\ slot[s].at \in DOMAIN AfterPageStep(s)
    /\ browser = "up" \/ slot[s].at = "waitForReady"
    /\ slot' = [slot EXCEPT ![s].at = AfterPageStep(s)[@], ![s].shot = (slot[s].at = "screenshot")]
    /\ UNCHANGED <<call, answered, pages, browser, NODE_ENV>>

\* Mutant: the page is closed after a screenshot only.
PageStepFailsOpen(s) ==
    /\ slot[s].at \in {"setUp", "setContent", "screenshot"}
    /\ Fails(s)
    /\ UNCHANGED <<answered, pages, browser, NODE_ENV>>

\* A call on the page throws: timeouts, a page or browser that is gone.
PageStepFails(s) ==
    /\ slot[s].at \in {"setUp", "setContent", "screenshot"}
    /\ slot' = [slot EXCEPT ![s].at = "close"]
    /\ UNCHANGED <<call, answered, pages, browser, NODE_ENV>>

\* finally: page.close, whose own failure is only logged.  Promise.all
\* resolves with the last picture.
Close(s) ==
    /\ slot[s].at = "close"
    /\ pages' = pages \ {s}
    /\ IF slot[s].shot
       THEN /\ slot' = [slot EXCEPT ![s] = Place("done")]
            /\ call' = IF \A t \in Slots \ {s} : slot[t].at = "done" THEN "image" ELSE call
       ELSE Fails(s)
    /\ UNCHANGED <<answered, browser, NODE_ENV>>

(***************************************************************************)
(* The call, the browser, the process                                      *)
(***************************************************************************)
\* Another call of renderSlots, when no slot of the last one is under way.
RenderSlots ==
    /\ \A s \in Slots : slot[s].at \in AtRest
    /\ call' = "rendering"
    /\ slot' = [s \in Slots |-> Place("prepare")]
    /\ answered' = [s \in Slots |-> {}]
    /\ UNCHANGED <<pages, browser, NODE_ENV>>

\* Chromium dies with its pages.
BrowserDies ==
    /\ browser = "up"
    /\ browser' = "dead" /\ pages' = {}
    /\ UNCHANGED <<call, slot, answered, NODE_ENV>>

\* onModuleInit launches Chromium; whatever was under way is gone.
Restart ==
    /\ call' = "none" /\ pages' = {} /\ browser' = "up"
    /\ slot' = [s \in Slots |-> Place("idle")]
    /\ answered' = [s \in Slots |-> {}]
    /\ UNCHANGED NODE_ENV

\* What a server does, in its own time.
ServerStep(s) ==
    \/ \E u \in Urls : Redirect(s, u)
    \/ BadAnswer(s)
    \/ GoodAnswer(s)
    \/ \E n \in Chunks : Chunk(s, n) \/ ChunkTooMany(s, n)
    \/ EndOfBody(s)
    \/ UnusableBody(s)

\* What the process and its timers do: every call it makes ends.
OwnStep(s) ==
    \/ Prepare(s) \/ ExecuteFails(s) \/ RenderTemplate(s)
    \/ CheckUrl(s) \/ CheckFails(s) \/ Timeout(s)
    \/ NewPage(s) \/ NewPageFails(s) \/ PageStep(s) \/ PageStepFails(s) \/ Close(s)

Next ==
    \/ RenderSlots \/ BrowserDies \/ Restart
    \/ \E s \in Slots : ServerStep(s) \/ OwnStep(s)

Spec == Init /\ [][Next]_vars /\ \A s \in Slots : WF_vars(OwnStep(s))

(***************************************************************************)
(* Properties                                                              *)
(***************************************************************************)
\* Types; what is kept of a body is never more than its limit, and no fetch
\* sends more than MAX_REDIRECTS + 1 requests (guarded-fetch.ts).
TypeOK ==
    /\ call \in {"none", "rendering", "image", "failed"} /\ browser \in {"up", "dead"}
    /\ pages \subseteq Slots /\ NODE_ENV \in {"production", "development"}
    /\ \A s \in Slots :
          /\ slot[s].at \in Fetching \cup OnPage \cup AtRest \cup {"prepare", "template", "newPage"}
          /\ slot[s].feed \in 0..Len(Feeds[s]) /\ slot[s].hop \in 0..MAX_REDIRECTS
          /\ slot[s].at \in Fetching => slot[s].url \in Urls
          /\ slot[s].held \in 0..Cap[Kind[s]]
          /\ slot[s].got \subseteq 1..Len(Feeds[s]) /\ slot[s].shot \in BOOLEAN

\* Where the fetch of slot s may send a request: a calendar only to public
\* addresses over https, but for the developer's own local feed, which no
\* redirect leads to; an image also to the local network.
InRole(s) ==
    LET u == slot[s].url
        configured == slot[s].hop = 0 /\ \E f \in 1..Len(Feeds[s]) : Feeds[s][f] = u
    IN  \/ Kind[s] = "ics" /\ u.protocol = "https" /\ u.addresses \subseteq {"public"}
        \/ /\ Kind[s] = "image" /\ u.protocol \in {"https", "http"}
           /\ "restricted" \notin u.addresses
           /\ Production => u.addresses \cap {"loopback", "loopback6"} = {}
        \/ configured /\ u.protocol = "http" /\ u.addresses = {"loopback"} /\ ~Production

Requesting(s) == slot[s].at \in {"request", "body"}

\* Every request, at whichever hop, goes where its kind of source may go, unless
\* its host is written in the mapped form, which is the next property's.
RequestsInRole ==
    \A s \in Slots : Requesting(s) /\ ~slot[s].url.mapped => InRole(s)

\* "IPv4-mapped IPv6 (`::ffff:x.x.x.x`): unwrapped and checked recursively"
\* (guarded-fetch.ts:58), so that these hosts are held to the same.  It is
\* violated: the unwrapping expects dots where URL.hostname has hexadecimal.
MappedAddressesChecked ==
    \A s \in Slots : Requesting(s) /\ slot[s].url.mapped => InRole(s)

\* A feed that was answered in full is in the data of its slot, whatever
\* became of the feeds before and after it (ics.source.ts resolve).
FeedsAreIndependent ==
    \A s \in Slots : slot[s].at \in {"template", "newPage"} \cup OnPage =>
        slot[s].got = answered[s]

\* A call that answers with pictures has one of every slot, and has left no
\* page behind; no page is open but for a slot that will close it.
ImageIsWhole ==
    /\ call = "image" => \A s \in Slots : slot[s].at = "done"
    /\ \A s \in pages : slot[s].at \in OnPage

\* Every call is answered and every slot comes to rest, with its page closed,
\* however servers stall and even when the browser dies
\* (screen-render.service.ts, guarded-fetch.ts, browser.service.ts).
RenderEnds ==
    /\ (call = "rendering") ~> (call # "rendering")
    /\ \A s \in Slots : (slot[s].at \notin AtRest) ~> (slot[s].at \in AtRest /\ s \notin pages)
=============================================================================

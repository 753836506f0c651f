------------------------------- MODULE Display -------------------------------
(***************************************************************************)
(* How a change reaches the picture a device shows: DevicesService.checkIn,*)
(* DevicesController.getDisplay, the render pipeline behind it with its    *)
(* two in-memory caches, and the edits of ScreensService,                  *)
(* ScreenSlotsService and PluginInstancesService that race with it.        *)
(*                                                                         *)
(* One device with one active screen, one slot on it, one plugin instance  *)
(* with one data source.  A request in flight is a record in req: "at"     *)
(* names what it does next, the rest are the locals it read before.  Every *)
(* database read of the pipeline is a step of its own, since every one of  *)
(* them may see another row than the one before.                           *)
(***************************************************************************)
EXTENDS Naturals, FiniteSets

CONSTANTS
    Slots,       \* geometries a slot can have
    Confs,       \* configJson (with the plugin version) of the instance
    Zones,       \* time zones, settings of the screen that are not in the key
    Palettes,    \* palettes and render modes: applied after the cache
    Values,      \* what the upstream of the data source can say
    Formats,     \* formats the device asks for: "raw", "png"
    Requests,    \* requests that may be in flight at once
    MaxUpsets,   \* bound: edits, upstream changes, failures, crashes, previews
    Nil

ASSUME NilAssumption == Nil \notin Slots \cup Confs \cup Zones \cup Palettes \cup Values \cup Requests
ASSUME BoundAssumption == MaxUpsets \in Nat /\ Formats \subseteq {"raw", "png"}

VARIABLES
    screen,     \* the Screen row: its slot, zone, palette and contentHash
    instance,   \* the PluginInstance row
    source,     \* what the upstream says now
    cache,      \* RenderCacheService.cache
    data,       \* DataSourcesService.cache
    req,        \* requests in flight
    dev,        \* the device
    upsets      \* how much was changed or went wrong so far

vars == <<screen, instance, source, cache, data, req, dev, upsets>>

(***************************************************************************)
(* A PNG is what went into it; sha256 of one is the PNG.  Its data is what *)
(* the data source returned, with the configuration and zone it was asked  *)
(* for; a source that failed returned {}, value Nil.                       *)
(***************************************************************************)
Datum == [conf: Confs, zone: Zones, value: Values \cup {Nil}]
Blank == [slot |-> Nil, conf |-> Nil, zone |-> Nil, data |-> Nil]
Image == {Blank} \cup [slot: Slots, conf: Confs, zone: Zones, data: Datum]

\* What a render would show if nothing changed while it ran.
Current ==
    IF screen.slot = Nil THEN Blank
    ELSE [slot |-> screen.slot, conf |-> instance.conf, zone |-> screen.zone,
          data |-> [conf |-> instance.conf, zone |-> screen.zone, value |-> source]]

(***************************************************************************)
(* Cache keys.  generateKey hashes JSON.stringify of the slots, whose      *)
(* fields checkIn and buildScreenPng list in two different orders: the     *)
(* strings differ as soon as there is a slot.                              *)
(***************************************************************************)
BlankKey == <<"blank", Nil, Nil>>
Keys == {BlankKey} \cup ({"render", "checkIn"} \X Slots \X Confs)

\* Mutant: the configuration of the instance is not part of the key.
KeyNoConf(order, slot, conf) ==
    IF slot = Nil THEN BlankKey ELSE <<order, slot, CHOOSE c \in Confs : TRUE>>

Key(order, slot, conf) == IF slot = Nil THEN BlankKey ELSE <<order, slot, conf>>

\* Mutant: the data-source cache forgets the configuration.
DataKeyNoConf(conf, zone) == <<CHOOSE c \in Confs : TRUE, zone>>

DataKey(conf, zone) == <<conf, zone>>

DataKeys == Confs \X Zones

(***************************************************************************)
(* Requests in flight.  In a fetch, "kind" is what asked for the image,    *)
(* "etag" its If-None-Match and "png" the image as far as it is made.      *)
(***************************************************************************)
Idle == [at |-> "idle"]
CheckInReq == [at: {"checkIn"}, slot: Slots \cup {Nil}, conf: Confs \cup {Nil},
               hash: Image \cup {Nil}]
FetchReq == [at: {"slots", "execute", "source", "store", "encode", "reply", "hash"},
             kind: {"raw", "png", "panel"}, etag: Image \cup {Nil}, key: Keys,
             png: [slot: Slots \cup {Nil}, conf: Confs \cup {Nil}, zone: Zones \cup {Nil},
                   data: Datum \cup {Nil}],
             palette: Palettes \cup {Nil}]
SlotReq == [at: {"nullHash"}]
InstanceReq == [at: {"instance"}, conf: Confs, enabled: BOOLEAN, shown: BOOLEAN]

Request == {Idle} \cup CheckInReq \cup FetchReq \cup SlotReq \cup InstanceReq

Start(r, record) == req[r] = Idle /\ req' = [req EXCEPT ![r] = record]
Finish(r) == req' = [req EXCEPT ![r] = Idle]

\* The device gets the answer of r, unless it has given up waiting.
Answer(r, next) == dev' = IF dev.waits = r THEN [dev EXCEPT !.waits = Nil, !.next = next] ELSE dev

Upset == upsets < MaxUpsets /\ upsets' = upsets + 1

Init ==
    /\ \E s \in Slots \cup {Nil}, z \in Zones, p \in Palettes :
          screen = [slot |-> s, zone |-> z, palette |-> p, hash |-> Nil]
    /\ \E c \in Confs : instance = [conf |-> c, enabled |-> TRUE]
    /\ source \in Values
    /\ cache = [k \in Keys |-> Nil]
    /\ data = [k \in DataKeys |-> Nil]
    /\ req = [r \in Requests |-> Idle]
    /\ dev = [png |-> Nil, palette |-> Nil, next |-> "checkIn", waits |-> Nil]
    /\ upsets = 0

-----------------------------------------------------------------------------
(***************************************************************************)
(* POST /devices/check-in: one read of the device, its screen, slot and    *)
(* instance, an update of lastSeenAt, then the answer from the snapshot    *)
(* and the render cache.                                                   *)
(***************************************************************************)
CheckInRead(r) ==
    /\ dev.waits = Nil /\ dev.next = "checkIn"
    /\ Start(r, [at |-> "checkIn", slot |-> screen.slot, conf |-> instance.conf,
                 hash |-> screen.hash])
    /\ dev' = [dev EXCEPT !.waits = r]
    /\ UNCHANGED <<screen, instance, source, cache, data, upsets>>

Cached(order, q) == cache[Key(order, q.slot, q.conf)]

\* Mutant: an image that is not cached is not reported as changed.
ChangedIfCached(q) == Cached("checkIn", q) # Nil /\ q.hash # Cached("checkIn", q)

\* contentChanged
Changed(q) == Cached("checkIn", q) = Nil \/ q.hash # Cached("checkIn", q)

CheckInReply(r) ==
    /\ req[r].at = "checkIn"
    /\ Answer(r, IF Changed(req[r]) THEN "fetch" ELSE "checkIn")
    /\ Finish(r)
    /\ UNCHANGED <<screen, instance, source, cache, data, upsets>>

(***************************************************************************)
(* GET /devices/display and GET /screens/:id/render/preview.  FetchRead is *)
(* the first read of buildScreenPng; a raw fetch looks into the cache.     *)
(***************************************************************************)
FetchRead(r, kind) ==
    /\ LET key == Key("render", screen.slot, instance.conf)
           hit == kind = "raw" /\ cache[key] # Nil
       IN Start(r, [at |-> IF hit THEN "encode" ELSE IF screen.slot = Nil THEN "store" ELSE "slots",
                    kind |-> kind, etag |-> IF kind = "panel" THEN Nil ELSE dev.png, key |-> key,
                    png |-> IF hit THEN cache[key] ELSE Blank, palette |-> Nil])
    /\ UNCHANGED <<screen, instance, source, cache, data>>

Fetch(r, kind) ==
    /\ dev.waits = Nil /\ dev.next = "fetch"
    /\ FetchRead(r, kind)
    /\ dev' = [dev EXCEPT !.waits = r]
    /\ UNCHANGED upsets

Preview(r) ==
    /\ Upset
    /\ FetchRead(r, "panel")
    /\ UNCHANGED dev

\* Mutant: renderSlots does not look whether there are slots left.
RenderSlotsUnchecked(r) ==
    /\ req[r].at = "slots"
    /\ req' = [req EXCEPT ![r].at = "execute", ![r].png.slot = screen.slot,
                          ![r].png.zone = screen.zone]
    /\ UNCHANGED <<screen, instance, source, cache, data, dev, upsets>>

\* renderSlots reads the screen and its slots again; with none left it
\* renders nothing, and the blank is stored under the key of the first read.
RenderSlots(r) ==
    /\ req[r].at = "slots"
    /\ req' = [req EXCEPT ![r].at = IF screen.slot = Nil THEN "store" ELSE "execute",
                          ![r].png.slot = screen.slot,
                          ![r].png.zone = IF screen.slot = Nil THEN Nil ELSE screen.zone]
    /\ UNCHANGED <<screen, instance, source, cache, data, dev, upsets>>

\* execute reads the instance once more, buildContext the zone; the data
\* source is asked unless the data-source cache knows the answer.
Execute(r) ==
    /\ req[r].at = "execute"
    /\ instance.enabled
    /\ LET datum == data[DataKey(instance.conf, screen.zone)]
       IN req' = [req EXCEPT ![r].at = IF datum = Nil THEN "source" ELSE "store",
                             ![r].png.conf = instance.conf,
                             ![r].png.data =
                                IF datum # Nil THEN datum
                                ELSE [conf |-> instance.conf, zone |-> screen.zone, value |-> Nil]]
    /\ UNCHANGED <<screen, instance, source, cache, data, dev, upsets>>

\* The source answers, or fails and is taken to have said {}; both are cached.
ResolveSource(r, failed) ==
    /\ req[r].at = "source"
    /\ IF failed THEN Upset ELSE UNCHANGED upsets
    /\ LET asked == req[r].png.data
           datum == [conf |-> asked.conf, zone |-> asked.zone,
                     value |-> IF failed THEN Nil ELSE source]
       IN /\ data' = [data EXCEPT ![DataKey(asked.conf, asked.zone)] = datum]
          /\ req' = [req EXCEPT ![r].at = "store", ![r].png.data = datum]
    /\ UNCHANGED <<screen, instance, source, cache, dev>>

\* The composed PNG goes into the cache, under the key of the first read.
StorePng(r) ==
    /\ req[r].at = "store"
    /\ cache' = [cache EXCEPT ![req[r].key] = req[r].png]
    /\ req' = [req EXCEPT ![r].at = "encode"]
    /\ UNCHANGED <<screen, instance, source, data, dev, upsets>>

\* getScreenRenderConfig reads the palette, EpdImageService applies it; the
\* panel's request ends here.
Encode(r) ==
    /\ req[r].at = "encode"
    /\ IF req[r].kind = "panel" THEN Finish(r)
       ELSE req' = [req EXCEPT ![r].at = "reply", ![r].palette = screen.palette]
    /\ UNCHANGED <<screen, instance, source, cache, data, dev, upsets>>

NotModified(q) == q.etag = q.png

\* 304 or 200.  After a 200 the contentHash is written without waiting.
Reply(r) ==
    /\ req[r].at = "reply"
    /\ IF NotModified(req[r])
       THEN Answer(r, "checkIn") /\ Finish(r)
       ELSE /\ dev' = IF dev.waits = r
                      THEN [png |-> req[r].png, palette |-> req[r].palette,
                            next |-> "checkIn", waits |-> Nil]
                      ELSE dev
            /\ req' = [req EXCEPT ![r].at = "hash"]
    /\ UNCHANGED <<screen, instance, source, cache, data, upsets>>

\* A failing write of contentHash is only logged.
WriteHash(r) ==
    /\ req[r].at = "hash"
    /\ screen' \in {screen, [screen EXCEPT !.hash = req[r].png]}
    /\ Finish(r)
    /\ UNCHANGED <<instance, source, cache, data, dev, upsets>>

\* The instance is disabled or gone, and the fetch is answered with an error.
ExecuteRefused(r) ==
    /\ req[r].at = "execute"
    /\ ~instance.enabled
    /\ Answer(r, "checkIn")
    /\ Finish(r)
    /\ UNCHANGED <<screen, instance, source, cache, data, upsets>>

\* A render that fails or times out: an error answer, nothing stored.
RenderFails(r) ==
    /\ req[r].at \in {"slots", "execute", "store", "encode"}
    /\ Upset
    /\ Answer(r, "checkIn")
    /\ Finish(r)
    /\ UNCHANGED <<screen, instance, source, cache, data>>

-----------------------------------------------------------------------------
(***************************************************************************)
(* Edits.  Those of one statement or one transaction are one step, taken   *)
(* by a request that is free.                                              *)
(***************************************************************************)
UpdateScreen(r, z, p) ==
    /\ Upset
    /\ req[r] = Idle
    /\ screen' = [screen EXCEPT !.zone = z, !.palette = p, !.hash = Nil]
    /\ UNCHANGED <<instance, source, cache, data, req, dev>>

\* ScreenSlotsService.create inserts the slot, then nulls the hash.
CreateSlot(r, s) ==
    /\ Upset
    /\ screen.slot = Nil /\ instance.conf # Nil
    /\ screen' = [screen EXCEPT !.slot = s]
    /\ Start(r, [at |-> "nullHash"])
    /\ UNCHANGED <<instance, source, cache, data, dev>>

NullHash(r) ==
    /\ req[r].at = "nullHash"
    /\ screen' = [screen EXCEPT !.hash = Nil]
    /\ Finish(r)
    /\ UNCHANGED <<instance, source, cache, data, dev, upsets>>

UpdateSlot(r, s) ==
    /\ Upset
    /\ req[r] = Idle /\ screen.slot # Nil
    /\ screen' = [screen EXCEPT !.slot = s, !.hash = Nil]
    /\ UNCHANGED <<instance, source, cache, data, req, dev>>

DeleteSlot(r) ==
    /\ Upset
    /\ req[r] = Idle /\ screen.slot # Nil
    /\ screen' = [screen EXCEPT !.slot = Nil, !.hash = Nil]
    /\ UNCHANGED <<instance, source, cache, data, req, dev>>

\* PluginInstancesService.update looks for the screens that show the
\* instance, then updates it and nulls their hash in one transaction.
UpdateInstanceRead(r, c, e) ==
    /\ Upset
    /\ instance.conf # Nil
    /\ Start(r, [at |-> "instance", conf |-> c, enabled |-> e, shown |-> screen.slot # Nil])
    /\ UNCHANGED <<screen, instance, source, cache, data, dev>>

UpdateInstance(r) ==
    /\ req[r].at = "instance"
    /\ IF instance.conf = Nil THEN UNCHANGED <<instance, screen>>   \* removed meanwhile: P2025
       ELSE /\ instance' = [conf |-> req[r].conf, enabled |-> req[r].enabled]
            /\ screen' = IF req[r].shown THEN [screen EXCEPT !.hash = Nil] ELSE screen
    /\ Finish(r)
    /\ UNCHANGED <<source, cache, data, dev, upsets>>

\* The slot goes with its instance (onDelete: Cascade); no hash is nulled.
RemoveInstance(r) ==
    /\ Upset
    /\ req[r] = Idle /\ instance.conf # Nil
    /\ instance' = [conf |-> Nil, enabled |-> FALSE]
    /\ screen' = [screen EXCEPT !.slot = Nil]
    /\ UNCHANGED <<source, cache, data, req, dev>>

-----------------------------------------------------------------------------
\* The upstream says something else.
ChangeSource(v) ==
    /\ Upset
    /\ v # source
    /\ source' = v
    /\ UNCHANGED <<screen, instance, cache, data, req, dev>>

\* Time passes an entry's expiresAt: the next get does not find it.
ExpirePng(k) ==
    /\ cache[k] # Nil
    /\ cache' = [cache EXCEPT ![k] = Nil]
    /\ UNCHANGED <<screen, instance, source, data, req, dev, upsets>>

ExpireData(k) ==
    /\ data[k] # Nil
    /\ data' = [data EXCEPT ![k] = Nil]
    /\ UNCHANGED <<screen, instance, source, cache, req, dev, upsets>>

\* The device gives up waiting; the server goes on with the request.
GiveUp ==
    /\ Upset
    /\ dev.waits # Nil
    /\ dev' = [dev EXCEPT !.waits = Nil, !.next = "checkIn"]
    /\ UNCHANGED <<screen, instance, source, cache, data, req>>

\* The process restarts: both caches and all requests are gone.
Crash ==
    /\ Upset
    /\ cache' = [k \in Keys |-> Nil]
    /\ data' = [k \in DataKeys |-> Nil]
    /\ req' = [r \in Requests |-> Idle]
    /\ dev' = [dev EXCEPT !.waits = Nil, !.next = "checkIn"]
    /\ UNCHANGED <<screen, instance, source>>

Poll(r) == CheckInRead(r) \/ \E kind \in Formats : Fetch(r, kind)

Continue(r) ==
    \/ CheckInReply(r)
    \/ RenderSlots(r) \/ Execute(r) \/ ExecuteRefused(r) \/ ResolveSource(r, FALSE)
    \/ StorePng(r) \/ Encode(r) \/ Reply(r) \/ WriteHash(r)
    \/ NullHash(r) \/ UpdateInstance(r)

Edit(r) ==
    \/ \E z \in Zones, p \in Palettes : UpdateScreen(r, z, p)
    \/ \E s \in Slots : CreateSlot(r, s) \/ UpdateSlot(r, s)
    \/ \E c \in Confs, e \in BOOLEAN : UpdateInstanceRead(r, c, e)
    \/ DeleteSlot(r) \/ RemoveInstance(r)

Expire == (\E k \in Keys : ExpirePng(k)) \/ (\E k \in DataKeys : ExpireData(k))

Next ==
    \/ \E r \in Requests :
          \/ Poll(r) \/ Continue(r) \/ Preview(r) \/ Edit(r)
          \/ ResolveSource(r, TRUE) \/ RenderFails(r)
    \/ \E v \in Values : ChangeSource(v)
    \/ Expire
    \/ GiveUp \/ Crash

Spec == Init /\ [][Next]_vars

(***************************************************************************)
(* Fairness: the event loop runs what is ready, the device polls whenever  *)
(* it is not waiting (its program is external; POST /devices/check-in says *)
(* it is "called periodically"), and every cache entry expires.  Nothing   *)
(* makes an edit, a failure, a preview or a crash happen.                  *)
(***************************************************************************)
Fairness ==
    /\ \A r \in Requests : WF_vars(Continue(r))
    /\ WF_vars(\E r \in Requests : Poll(r))
    /\ \A k \in Keys : WF_vars(ExpirePng(k))
    /\ \A k \in DataKeys : WF_vars(ExpireData(k))
FairSpec == Spec /\ Fairness

-----------------------------------------------------------------------------
(***************************************************************************)
(* Properties.                                                             *)
(***************************************************************************)

\* Every variable keeps its shape; what is stored or shown is a whole image.
TypeOK ==
    /\ screen \in [slot: Slots \cup {Nil}, zone: Zones, palette: Palettes, hash: Image \cup {Nil}]
    /\ instance \in [conf: Confs \cup {Nil}, enabled: BOOLEAN]
    /\ source \in Values
    /\ cache \in [Keys -> Image \cup {Nil}]
    /\ data \in [DataKeys -> Datum \cup {Nil}]
    /\ req \in [Requests -> Request]
    /\ dev \in [png: Image \cup {Nil}, palette: Palettes \cup {Nil},
                next: {"checkIn", "fetch"}, waits: Requests \cup {Nil}]
    /\ upsets \in 0..MaxUpsets

(***************************************************************************)
(* Whatever races, fails, is lost or restarts: once that stops, the device *)
(* comes to show what its screen shows now, and keeps showing it.  (The    *)
(* PNG of it: the palette is another matter, see NotModifiedMeansSame.)    *)
(***************************************************************************)
EventuallyCurrent == <>[](screen.slot = Nil \/ instance.enabled => dev.png = Current)

(***************************************************************************)
(* No image mixes a configuration with data fetched for another one,       *)
(* although pages are put together from several reads and two caches.      *)
(***************************************************************************)
Whole(png) == png.slot # Nil => png.data.conf = png.conf
DataFitsConf == \A k \in Keys : cache[k] # Nil => Whole(cache[k])

(***************************************************************************)
(* What tests, comments and API descriptions say, and the code breaks.     *)
(***************************************************************************)

\* "should return contentChanged: false when the cached PNG matches
\* contentHash": a check-in that finds the image cached, and last served, says
\* that nothing changed.
CheckInSettles ==
    \A r \in Requests : req[r].at = "checkIn" =>
        LET q == req[r] IN Cached("render", q) # Nil /\ q.hash = Cached("render", q) => ~Changed(q)

\* "to get a 304 response when content hasn't changed": what a 304 stands for
\* is what the device shows.
NotModifiedMeansSame ==
    [][\A r \in Requests : Reply(r) /\ dev.waits = r /\ NotModified(req[r]) =>
          dev.palette = req[r].palette]_vars
=============================================================================

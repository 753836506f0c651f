--------------------------- MODULE DisplayProofs -----------------------------
(***************************************************************************)
(* Theorems of Display and DisplayOverlap, for every value of its constants: what is stored   *)
(* or shown is a whole image, and no image mixes a configuration with data *)
(* fetched for another one; and the device is given the configuration in   *)
(* force when it asked, unless an edit falls between the reads of a fetch. *)
(***************************************************************************)
EXTENDS DisplayOverlap, TLAPS

(***************************************************************************)
(* Neither is inductive.  An image is put together field by field, so what *)
(* it has at each statement must be said; a slot and an enabled instance   *)
(* need a configuration to read; and an entry of the data-source cache is  *)
(* for the configuration in its key.                                       *)
(***************************************************************************)
Making(q) ==
    /\ q.at = "slots" => q.png = Blank
    /\ q.at = "execute" => q.png \in [slot: Slots, conf: {Nil}, zone: Zones, data: {Nil}]
    /\ q.at = "source" => /\ q.png \in [slot: Slots, conf: Confs, zone: Zones, data: Datum]
                          /\ q.png.data.conf = q.png.conf
    /\ q.at \in {"store", "encode", "reply", "hash"} => q.png \in Image /\ Whole(q.png)
    /\ q.at = "reply" => q.palette \in Palettes

FetchesOK == \A r \in Requests : Making(req[r])

RowsOK ==
    /\ screen.slot # Nil => instance.conf # Nil
    /\ instance.enabled => instance.conf # Nil

DataOK == \A k \in DataKeys : data[k] # Nil => data[k].conf = k[1]

DisplayInv == TypeOK /\ RowsOK /\ DataOK /\ DataFitsConf /\ FetchesOK

\* The record of a request in flight has the fields its next statement needs.
LEMMA RequestShape ==
    ASSUME NEW q \in Request
    PROVE  /\ q.at = "checkIn" => q \in CheckInReq
           /\ q.at \in {"slots", "execute", "source", "store", "encode", "reply", "hash"}
                => q \in FetchReq
           /\ q.at = "instance" => q \in InstanceReq
BY DEF Request, Idle, CheckInReq, FetchReq, SlotReq, InstanceReq

\* Giving one request another good record keeps them all good.
LEMMA RequestUpdate ==
    ASSUME req \in [Requests -> Request], FetchesOK, NEW r \in Requests,
           NEW q \in Request, Making(q), req' = [req EXCEPT ![r] = q]
    PROVE  req' \in [Requests -> Request] /\ FetchesOK'
BY DEF FetchesOK

LEMMA IdleIsGood == Idle \in Request /\ Making(Idle)
BY DEF Idle, Request, Making

LEMMA InitGood == Init => DisplayInv
<1> SUFFICES ASSUME Init PROVE DisplayInv
  OBVIOUS
<1>1. TypeOK
  BY BoundAssumption, IdleIsGood DEF Init, TypeOK
<1>2. FetchesOK
  BY IdleIsGood DEF Init, FetchesOK
<1>3. RowsOK /\ DataOK /\ DataFitsConf
  BY NilAssumption DEF Init, RowsOK, DataOK, DataFitsConf
<1> QED
  BY <1>1, <1>2, <1>3 DEF DisplayInv

\* A step that changes no row and no cache, and ends or starts one request.
LEMMA RequestOnly ==
    ASSUME DisplayInv, UNCHANGED <<screen, instance, source, cache, data>>,
           NEW r \in Requests, NEW q \in Request, Making(q), req' = [req EXCEPT ![r] = q],
           dev' \in [png: Image \cup {Nil}, palette: Palettes \cup {Nil},
                     next: {"checkIn", "fetch"}, waits: Requests \cup {Nil}],
           upsets' \in 0..MaxUpsets
    PROVE  DisplayInv'
<1>1. req' \in [Requests -> Request] /\ FetchesOK'
  BY RequestUpdate DEF DisplayInv, TypeOK
<1> QED
  BY <1>1 DEF DisplayInv, TypeOK, RowsOK, DataOK, DataFitsConf

\* Without a bound on what may go wrong the counter would only be a number.
LEMMA UpsetBound == upsets \in 0..MaxUpsets /\ Upset => upsets' \in 0..MaxUpsets
BY BoundAssumption DEF Upset

LEMMA AnswerType ==
    ASSUME TypeOK, NEW r \in Requests, NEW next \in {"checkIn", "fetch"}, Answer(r, next)
    PROVE  dev' \in [png: Image \cup {Nil}, palette: Palettes \cup {Nil},
                     next: {"checkIn", "fetch"}, waits: Requests \cup {Nil}]
BY DEF TypeOK, Answer

(***************************************************************************)
(* Polls and previews                                                      *)
(***************************************************************************)
LEMMA CheckInGood == ASSUME DisplayInv, NEW r \in Requests, CheckInRead(r) PROVE DisplayInv'
<1> DEFINE q == [at |-> "checkIn", slot |-> screen.slot, conf |-> instance.conf, hash |-> screen.hash]
<1>1. q \in Request /\ Making(q)
  BY DEF DisplayInv, TypeOK, Request, CheckInReq, Making
<1>2. dev' \in [png: Image \cup {Nil}, palette: Palettes \cup {Nil},
                next: {"checkIn", "fetch"}, waits: Requests \cup {Nil}]
  BY DEF CheckInRead, DisplayInv, TypeOK
<1> HIDE DEF q
<1> QED
  BY <1>1, <1>2, RequestOnly DEF CheckInRead, Start, q, DisplayInv, TypeOK

LEMMA FetchStart ==
    ASSUME DisplayInv, NEW r \in Requests, NEW kind \in {"raw", "png", "panel"}, FetchRead(r, kind)
    PROVE  \E q \in Request : Making(q) /\ req' = [req EXCEPT ![r] = q]
<1> DEFINE key == Key("render", screen.slot, instance.conf)
           hit == kind = "raw" /\ cache[key] # Nil
           png == IF hit THEN cache[key] ELSE Blank
           at == IF hit THEN "encode" ELSE IF screen.slot = Nil THEN "store" ELSE "slots"
           etag == IF kind = "panel" THEN Nil ELSE dev.png
           q == [at |-> at, kind |-> kind, etag |-> etag, key |-> key, png |-> png, palette |-> Nil]
<1>1. key \in Keys
  BY DEF DisplayInv, TypeOK, RowsOK, Key, Keys
<1>2. png \in Image /\ Whole(png)
  <2>1. CASE hit
    BY <1>1, <2>1 DEF DisplayInv, TypeOK, DataFitsConf
  <2>2. CASE ~hit
    BY <2>2 DEF Image, Blank, Whole
  <2> QED
    BY <2>1, <2>2
<1>3. /\ at \in {"slots", "store", "encode"} /\ (at = "slots" => png = Blank)
      /\ etag \in Image \cup {Nil}
  BY DEF DisplayInv, TypeOK
<1>4. png \in [slot: Slots \cup {Nil}, conf: Confs \cup {Nil}, zone: Zones \cup {Nil},
               data: Datum \cup {Nil}]
  BY <1>2 DEF Image, Blank
<1>5. req' = [req EXCEPT ![r] = q]
  BY DEF FetchRead, Start
<1> HIDE DEF key, hit, png, at, etag
<1>6. q \in FetchReq
  BY <1>1, <1>3, <1>4 DEF FetchReq
<1>7. Making(q)
  BY <1>2, <1>3 DEF Making
<1> QED
  BY <1>5, <1>6, <1>7 DEF Request

LEMMA FetchGood ==
    ASSUME DisplayInv, NEW r \in Requests, NEW kind \in Formats, Fetch(r, kind)
    PROVE  DisplayInv'
<1>1. PICK q \in Request : Making(q) /\ req' = [req EXCEPT ![r] = q]
  BY FetchStart, BoundAssumption DEF Fetch
<1>2. dev' \in [png: Image \cup {Nil}, palette: Palettes \cup {Nil},
                next: {"checkIn", "fetch"}, waits: Requests \cup {Nil}]
  BY DEF Fetch, DisplayInv, TypeOK
<1> QED
  BY <1>1, <1>2, RequestOnly DEF Fetch, FetchRead, DisplayInv, TypeOK

LEMMA PreviewGood == ASSUME DisplayInv, NEW r \in Requests, Preview(r) PROVE DisplayInv'
<1>1. PICK q \in Request : Making(q) /\ req' = [req EXCEPT ![r] = q]
  BY FetchStart DEF Preview
<1>2. upsets' \in 0..MaxUpsets /\ dev' = dev
  BY UpsetBound DEF Preview, DisplayInv, TypeOK
<1> QED
  BY <1>1, <1>2, RequestOnly DEF Preview, FetchRead, DisplayInv, TypeOK
(***************************************************************************)
(* The statements of a request in flight                                   *)
(***************************************************************************)
LEMMA FetchingIsFetch ==
    ASSUME DisplayInv, NEW r \in Requests,
           req[r].at \in {"slots", "execute", "source", "store", "encode", "reply", "hash"}
    PROVE  req[r] \in FetchReq /\ Making(req[r]) /\ req \in [Requests -> Request]
BY RequestShape DEF DisplayInv, TypeOK, FetchesOK

LEMMA BlankShape ==
    ASSUME NEW png
    PROVE  png \in [slot: {Nil}, conf: {Nil}, zone: {Nil}, data: {Nil}] <=> png = Blank
BY DEF Blank

LEMMA RenderSlotsGood == ASSUME DisplayInv, NEW r \in Requests, RenderSlots(r) PROVE DisplayInv'
<1>1. PICK at \in {"store", "execute"}, slot \in Slots \cup {Nil}, zone \in Zones \cup {Nil} :
        /\ at = "store" => slot = Nil /\ zone = Nil
        /\ at = "execute" => slot \in Slots /\ zone \in Zones
        /\ req' = [req EXCEPT ![r].at = at, ![r].png.slot = slot, ![r].png.zone = zone]
  <2>1. CASE screen.slot = Nil
    BY <2>1 DEF RenderSlots
  <2>2. CASE screen.slot # Nil
    BY <2>2 DEF RenderSlots, DisplayInv, TypeOK
  <2> QED
    BY <2>1, <2>2
<1>2. req[r] \in FetchReq /\ req[r].png = Blank /\ req \in [Requests -> Request]
  BY FetchingIsFetch DEF RenderSlots, Making
<1> DEFINE q == [req[r] EXCEPT !.at = at, !.png.slot = slot, !.png.zone = zone]
<1>3. req' = [req EXCEPT ![r] = q]
  BY <1>1, <1>2
<1>4. q \in FetchReq /\ q.at = at /\ q.png = [req[r].png EXCEPT !.slot = slot, !.zone = zone]
  BY <1>1, <1>2 DEF FetchReq
<1>5. q.png \in [slot: {slot}, conf: {Nil}, zone: {zone}, data: {Nil}]
  <2>1. req[r].png \in [slot: {Nil}, conf: {Nil}, zone: {Nil}, data: {Nil}]
    BY <1>2, BlankShape
  <2> HIDE DEF q
  <2> QED
    BY <2>1, <1>4
<1> HIDE DEF q
<1>6. Making(q)
  <2>1. CASE at = "store"
    <3>1. slot = Nil /\ zone = Nil
      BY <1>1, <2>1
    <3>2. q.png = Blank
      BY <1>5, <3>1, BlankShape
    <3>3. Blank \in Image /\ Whole(Blank)
      BY DEF Image, Blank, Whole
    <3> QED
      BY <1>4, <2>1, <3>2, <3>3 DEF Making
  <2>2. CASE at = "execute"
    BY <1>1, <1>4, <1>5, <2>2 DEF Making
  <2> QED
    BY <2>1, <2>2
<1> QED
  BY <1>3, <1>4, <1>6, RequestOnly DEF RenderSlots, DisplayInv, TypeOK, Request

LEMMA ExecuteGood == ASSUME DisplayInv, NEW r \in Requests, Execute(r) PROVE DisplayInv'
<1> DEFINE known == data[DataKey(instance.conf, screen.zone)]
<1>1. instance.conf \in Confs /\ screen.zone \in Zones
  BY DEF Execute, DisplayInv, TypeOK, RowsOK
<1>2. PICK at \in {"source", "store"}, datum \in Datum :
        /\ datum.conf = instance.conf
        /\ req' = [req EXCEPT ![r].at = at, ![r].png.conf = instance.conf, ![r].png.data = datum]
  <2>1. CASE known = Nil
    <3>1. [conf |-> instance.conf, zone |-> screen.zone, value |-> Nil] \in Datum
      BY <1>1 DEF Datum
    <3> QED
      BY <2>1, <3>1 DEF Execute
  <2>2. CASE known # Nil
    <3>1. known \in Datum /\ known.conf = instance.conf
      BY <1>1, <2>2 DEF DisplayInv, TypeOK, DataOK, DataKey, DataKeys
    <3> QED
      BY <2>2, <3>1 DEF Execute
  <2> QED
    BY <2>1, <2>2
<1>3. /\ req[r] \in FetchReq /\ req \in [Requests -> Request]
      /\ req[r].png \in [slot: Slots, conf: {Nil}, zone: Zones, data: {Nil}]
  BY FetchingIsFetch DEF Execute, Making
<1> DEFINE q == [req[r] EXCEPT !.at = at, !.png.conf = instance.conf, !.png.data = datum]
<1>4. req' = [req EXCEPT ![r] = q]
  BY <1>2, <1>3
<1>5. /\ q \in FetchReq /\ q.at = at
      /\ q.png = [req[r].png EXCEPT !.conf = instance.conf, !.data = datum]
  BY <1>1, <1>2, <1>3 DEF FetchReq
<1> HIDE DEF q
<1>6. q.png \in [slot: Slots, conf: Confs, zone: Zones, data: Datum] /\ q.png.data.conf = q.png.conf
  BY <1>1, <1>2, <1>3, <1>5
<1>7. Making(q)
  BY <1>2, <1>5, <1>6 DEF Making, Image, Whole
<1> QED
  BY <1>4, <1>5, <1>7, RequestOnly DEF Execute, DisplayInv, TypeOK, Request

LEMMA ResolveGood ==
    ASSUME DisplayInv, NEW r \in Requests, NEW failed \in BOOLEAN, ResolveSource(r, failed)
    PROVE  DisplayInv'
<1> DEFINE query == req[r].png.data
           datum == [conf |-> query.conf, zone |-> query.zone, value |-> IF failed THEN Nil ELSE source]
           q == [req[r] EXCEPT !.at = "store", !.png.data = datum]
<1>1. /\ req[r] \in FetchReq /\ req \in [Requests -> Request]
      /\ req[r].png \in [slot: Slots, conf: Confs, zone: Zones, data: Datum]
      /\ query \in Datum /\ query.conf = req[r].png.conf
  BY FetchingIsFetch DEF ResolveSource, Making
<1>2. datum \in Datum /\ datum.conf = req[r].png.conf
  BY <1>1 DEF Datum, DisplayInv, TypeOK
<1>3. data' = [data EXCEPT ![DataKey(query.conf, query.zone)] = datum]
  BY DEF ResolveSource
<1>4. req' = [req EXCEPT ![r].at = "store", ![r].png.data = datum]
  BY DEF ResolveSource
<1> HIDE DEF datum
<1>5. req' = [req EXCEPT ![r] = q]
  BY <1>1, <1>4
<1>6. q \in FetchReq /\ q.at = "store" /\ q.png = [req[r].png EXCEPT !.data = datum]
  BY <1>1, <1>2 DEF FetchReq
<1> HIDE DEF q
<1>7. Making(q)
  <2>1. q.png \in [slot: Slots, conf: Confs, zone: Zones, data: Datum] /\ q.png.data.conf = q.png.conf
    BY <1>1, <1>2, <1>6
  <2> QED
    BY <1>6, <2>1 DEF Making, Image, Whole
<1>8. req' \in [Requests -> Request] /\ FetchesOK'
  BY <1>1, <1>5, <1>6, <1>7, RequestUpdate DEF DisplayInv, Request
<1>9. data' \in [DataKeys -> Datum \cup {Nil}] /\ DataOK'
  <2>1. DataKey(query.conf, query.zone) = <<req[r].png.conf, query.zone>>
    BY <1>1 DEF DataKey
  <2>2. DataKey(query.conf, query.zone) \in DataKeys
    BY <1>1 DEF DataKey, DataKeys, Datum
  <2> QED
    BY <1>2, <1>3, <2>1, <2>2 DEF DisplayInv, TypeOK, DataOK
<1>10. upsets' \in 0..MaxUpsets
  BY UpsetBound DEF ResolveSource, DisplayInv, TypeOK
<1> QED
  BY <1>8, <1>9, <1>10 DEF ResolveSource, DisplayInv, TypeOK, RowsOK, DataFitsConf

LEMMA StoreGood == ASSUME DisplayInv, NEW r \in Requests, StorePng(r) PROVE DisplayInv'
<1>1. /\ req[r] \in FetchReq /\ req \in [Requests -> Request]
      /\ req[r].png \in Image /\ Whole(req[r].png)
  BY FetchingIsFetch DEF StorePng, Making
<1> DEFINE q == [req[r] EXCEPT !.at = "encode"]
<1>2. q \in FetchReq /\ Making(q)
  BY <1>1 DEF FetchReq, Making
<1>3. req' = [req EXCEPT ![r] = q]
  BY <1>1 DEF StorePng
<1> HIDE DEF q
<1>4. req' \in [Requests -> Request] /\ FetchesOK'
  BY <1>1, <1>2, <1>3, RequestUpdate DEF DisplayInv, Request
<1>5. cache' \in [Keys -> Image \cup {Nil}] /\ DataFitsConf'
  BY <1>1 DEF StorePng, FetchReq, DisplayInv, TypeOK, DataFitsConf
<1> QED
  BY <1>4, <1>5 DEF StorePng, DisplayInv, TypeOK, RowsOK, DataOK

LEMMA EncodeGood == ASSUME DisplayInv, NEW r \in Requests, Encode(r) PROVE DisplayInv'
<1>1. /\ req[r] \in FetchReq /\ req \in [Requests -> Request]
      /\ req[r].png \in Image /\ Whole(req[r].png)
  BY FetchingIsFetch DEF Encode, Making
<1>2. CASE req[r].kind = "panel"
  BY <1>2, IdleIsGood, RequestOnly DEF Encode, Finish, DisplayInv, TypeOK
<1>3. CASE req[r].kind # "panel"
  <2> DEFINE q == [req[r] EXCEPT !.at = "reply", !.palette = screen.palette]
  <2>1. q \in FetchReq /\ Making(q)
    BY <1>1 DEF FetchReq, Making, DisplayInv, TypeOK
  <2>2. req' = [req EXCEPT ![r] = q]
    BY <1>1, <1>3 DEF Encode
  <2> HIDE DEF q
  <2> QED
    BY <2>1, <2>2, RequestOnly DEF Encode, DisplayInv, TypeOK, Request
<1> QED
  BY <1>2, <1>3

LEMMA ReplyGood == ASSUME DisplayInv, NEW r \in Requests, Reply(r) PROVE DisplayInv'
<1>1. /\ req[r] \in FetchReq /\ req \in [Requests -> Request]
      /\ req[r].png \in Image /\ Whole(req[r].png) /\ req[r].palette \in Palettes
  BY FetchingIsFetch DEF Reply, Making
<1>2. CASE NotModified(req[r])
  <2>1. Answer(r, "checkIn") /\ req' = [req EXCEPT ![r] = Idle]
    BY <1>2 DEF Reply, Finish
  <2> QED
    BY <2>1, IdleIsGood, AnswerType, RequestOnly DEF Reply, DisplayInv, TypeOK
<1>3. CASE ~NotModified(req[r])
  <2> DEFINE q == [req[r] EXCEPT !.at = "hash"]
  <2>1. q \in FetchReq /\ Making(q)
    BY <1>1 DEF FetchReq, Making
  <2>2. req' = [req EXCEPT ![r] = q]
    BY <1>1, <1>3 DEF Reply
  <2>3. dev' \in [png: Image \cup {Nil}, palette: Palettes \cup {Nil},
                  next: {"checkIn", "fetch"}, waits: Requests \cup {Nil}]
    BY <1>1, <1>3 DEF Reply, DisplayInv, TypeOK
  <2> HIDE DEF q
  <2> QED
    BY <2>1, <2>2, <2>3, RequestOnly DEF Reply, DisplayInv, TypeOK, Request
<1> QED
  BY <1>2, <1>3
LEMMA RequestEnds ==
    ASSUME DisplayInv, NEW r \in Requests,
           CheckInReply(r) \/ ExecuteRefused(r) \/ RenderFails(r)
    PROVE  DisplayInv'
<1>1. CASE CheckInReply(r)
  <2>1. PICK next \in {"checkIn", "fetch"} : Answer(r, next)
    BY <1>1 DEF CheckInReply
  <2> QED
    BY <1>1, <2>1, IdleIsGood, AnswerType, RequestOnly DEF CheckInReply, Finish, DisplayInv, TypeOK
<1>2. CASE ExecuteRefused(r)
  BY <1>2, IdleIsGood, AnswerType, RequestOnly DEF ExecuteRefused, Finish, DisplayInv, TypeOK
<1>3. CASE RenderFails(r)
  BY <1>3, IdleIsGood, AnswerType, UpsetBound, RequestOnly DEF RenderFails, Finish, DisplayInv, TypeOK
<1> QED
  BY <1>1, <1>2, <1>3

(***************************************************************************)
(* Rows                                                                    *)
(***************************************************************************)
\* A step that changes rows, and at most one request.
LEMMA RowsOnly ==
    ASSUME DisplayInv, UNCHANGED <<source, cache, data, dev>>, upsets' \in 0..MaxUpsets,
           screen' \in [slot: Slots \cup {Nil}, zone: Zones, palette: Palettes,
                        hash: Image \cup {Nil}],
           instance' \in [conf: Confs \cup {Nil}, enabled: BOOLEAN], RowsOK',
           NEW r \in Requests, NEW q \in Request, Making(q),
           req' = req \/ req' = [req EXCEPT ![r] = q]
    PROVE  DisplayInv'
<1>1. req' \in [Requests -> Request] /\ FetchesOK'
  <2>1. CASE req' = req
    BY <2>1 DEF DisplayInv, TypeOK, FetchesOK
  <2>2. CASE req' = [req EXCEPT ![r] = q]
    BY <2>2, RequestUpdate DEF DisplayInv, TypeOK
  <2> QED
    BY <2>1, <2>2
<1> QED
  BY <1>1 DEF DisplayInv, TypeOK, DataOK, DataFitsConf

LEMMA WriteHashGood == ASSUME DisplayInv, NEW r \in Requests, WriteHash(r) PROVE DisplayInv'
<1>1. req[r].png \in Image
  BY FetchingIsFetch DEF WriteHash, Making
<1>2. screen' \in [slot: Slots \cup {Nil}, zone: Zones, palette: Palettes, hash: Image \cup {Nil}]
  BY <1>1 DEF WriteHash, DisplayInv, TypeOK
<1>3. RowsOK'
  BY DEF WriteHash, DisplayInv, TypeOK, RowsOK
<1> QED
  BY <1>2, <1>3, IdleIsGood, RowsOnly DEF WriteHash, Finish, DisplayInv, TypeOK

LEMMA ScreenEdits ==
    ASSUME DisplayInv, NEW r \in Requests,
           \/ \E z \in Zones, p \in Palettes : UpdateScreen(r, z, p)
           \/ \E s \in Slots : UpdateSlot(r, s)
           \/ DeleteSlot(r)
    PROVE  DisplayInv'
<1>1. /\ screen' \in [slot: Slots \cup {Nil}, zone: Zones, palette: Palettes, hash: Image \cup {Nil}]
      /\ RowsOK' /\ Upset /\ UNCHANGED <<instance, source, cache, data, req, dev>>
  BY DEF UpdateScreen, UpdateSlot, DeleteSlot, DisplayInv, TypeOK, RowsOK
<1> QED
  BY <1>1, IdleIsGood, UpsetBound, RowsOnly DEF DisplayInv, TypeOK

LEMMA SlotCreation ==
    ASSUME DisplayInv, NEW r \in Requests, (\E s \in Slots : CreateSlot(r, s)) \/ NullHash(r)
    PROVE  DisplayInv'
<1> DEFINE q == [at |-> "nullHash"]
<1>1. q \in Request /\ Making(q)
  BY DEF Request, SlotReq, Making
<1>2. /\ screen' \in [slot: Slots \cup {Nil}, zone: Zones, palette: Palettes, hash: Image \cup {Nil}]
      /\ RowsOK' /\ UNCHANGED <<instance, source, cache, data, dev>>
  BY DEF CreateSlot, NullHash, DisplayInv, TypeOK, RowsOK
<1>3. CASE NullHash(r)
  BY <1>2, <1>3, IdleIsGood, RowsOnly DEF NullHash, Finish, DisplayInv, TypeOK
<1>4. ASSUME NEW s \in Slots, CreateSlot(r, s) PROVE DisplayInv'
  <2>1. req' = [req EXCEPT ![r] = q] /\ Upset
    BY <1>4 DEF CreateSlot, Start
  <2> HIDE DEF q
  <2> QED
    BY <1>1, <1>2, <2>1, UpsetBound, RowsOnly DEF DisplayInv, TypeOK
<1> QED
  BY <1>3, <1>4

LEMMA InstanceEdits ==
    ASSUME DisplayInv, NEW r \in Requests,
           \/ \E c \in Confs, e \in BOOLEAN : UpdateInstanceRead(r, c, e)
           \/ UpdateInstance(r) \/ RemoveInstance(r)
    PROVE  DisplayInv'
<1>1. ASSUME NEW c \in Confs, NEW e \in BOOLEAN, UpdateInstanceRead(r, c, e) PROVE DisplayInv'
  <2> DEFINE q == [at |-> "instance", conf |-> c, enabled |-> e, shown |-> screen.slot # Nil]
  <2>1. q \in Request /\ Making(q)
    BY DEF Request, InstanceReq, Making
  <2>2. req' = [req EXCEPT ![r] = q] /\ Upset /\ UNCHANGED <<screen, instance, source, cache, data, dev>>
    BY <1>1 DEF UpdateInstanceRead, Start
  <2> HIDE DEF q
  <2> QED
    BY <2>1, <2>2, UpsetBound, RequestOnly DEF DisplayInv, TypeOK
<1>2. CASE UpdateInstance(r)
  <2>1. req[r] \in InstanceReq
    BY <1>2, RequestShape DEF UpdateInstance, DisplayInv, TypeOK
  <2>2. /\ screen' \in [slot: Slots \cup {Nil}, zone: Zones, palette: Palettes, hash: Image \cup {Nil}]
        /\ instance' \in [conf: Confs \cup {Nil}, enabled: BOOLEAN]
        /\ RowsOK'
    BY <1>2, <2>1, NilAssumption DEF UpdateInstance, InstanceReq, DisplayInv, TypeOK, RowsOK
  <2> QED
    BY <1>2, <2>2, IdleIsGood, RowsOnly DEF UpdateInstance, Finish, DisplayInv, TypeOK
<1>3. CASE RemoveInstance(r)
  <2>1. /\ screen' \in [slot: Slots \cup {Nil}, zone: Zones, palette: Palettes, hash: Image \cup {Nil}]
        /\ instance' \in [conf: Confs \cup {Nil}, enabled: BOOLEAN]
        /\ RowsOK'
    BY <1>3 DEF RemoveInstance, DisplayInv, TypeOK, RowsOK
  <2> QED
    BY <1>3, <2>1, IdleIsGood, UpsetBound, RowsOnly DEF RemoveInstance, DisplayInv, TypeOK
<1> QED
  BY <1>1, <1>2, <1>3

(***************************************************************************)
(* The world outside                                                       *)
(***************************************************************************)
LEMMA WorldGood ==
    ASSUME DisplayInv, (\E v \in Values : ChangeSource(v)) \/ Expire \/ GiveUp \/ Crash
    PROVE  DisplayInv'
<1>1. ASSUME NEW v \in Values, ChangeSource(v) PROVE DisplayInv'
  BY <1>1, UpsetBound DEF ChangeSource, DisplayInv, TypeOK, RowsOK, DataOK, DataFitsConf, FetchesOK
<1>2. ASSUME NEW k \in Keys, ExpirePng(k) PROVE DisplayInv'
  BY <1>2 DEF ExpirePng, DisplayInv, TypeOK, RowsOK, DataOK, DataFitsConf, FetchesOK
<1>3. ASSUME NEW k \in DataKeys, ExpireData(k) PROVE DisplayInv'
  BY <1>3 DEF ExpireData, DisplayInv, TypeOK, RowsOK, DataOK, DataFitsConf, FetchesOK
<1>4. CASE GiveUp
  BY <1>4, UpsetBound DEF GiveUp, DisplayInv, TypeOK, RowsOK, DataOK, DataFitsConf, FetchesOK
<1>5. CASE Crash
  BY <1>5, UpsetBound, IdleIsGood
     DEF Crash, DisplayInv, TypeOK, RowsOK, DataOK, DataFitsConf, FetchesOK
<1> QED
  BY <1>1, <1>2, <1>3, <1>4, <1>5 DEF Expire

LEMMA Invariance == Spec => []DisplayInv
<1>1. DisplayInv /\ [Next]_vars => DisplayInv'
  <2> SUFFICES ASSUME DisplayInv, [Next]_vars PROVE DisplayInv'
    OBVIOUS
  <2>1. ASSUME NEW r \in Requests, Poll(r) \/ Preview(r) PROVE DisplayInv'
    BY <2>1, CheckInGood, FetchGood, PreviewGood DEF Poll
  <2>2. ASSUME NEW r \in Requests, Continue(r) \/ ResolveSource(r, TRUE) \/ RenderFails(r)
        PROVE  DisplayInv'
    BY <2>2, RenderSlotsGood, ExecuteGood, ResolveGood, StoreGood, EncodeGood, ReplyGood,
       RequestEnds, WriteHashGood, SlotCreation, InstanceEdits DEF Continue
  <2>3. ASSUME NEW r \in Requests, Edit(r) PROVE DisplayInv'
    BY <2>3, ScreenEdits, SlotCreation, InstanceEdits DEF Edit
  <2>4. CASE UNCHANGED vars
    BY <2>4 DEF vars, DisplayInv, TypeOK, RowsOK, DataOK, DataFitsConf, FetchesOK
  <2> QED
    BY <2>1, <2>2, <2>3, <2>4, WorldGood DEF Next
<1> QED
  BY <1>1, InitGood, PTL DEF Spec

(***************************************************************************)
(* Rows, caches, requests and the device keep their types: what is cached, *)
(* hashed or shown is a whole image, however reads and edits interleave.   *)
(***************************************************************************)
THEOREM DisplayTypes == Spec => []TypeOK
<1>1. DisplayInv => TypeOK
  BY DEF DisplayInv
<1> QED
  BY <1>1, Invariance, PTL

(***************************************************************************)
(* No cached image shows a configuration with data fetched for another     *)
(* one, although it is made of three reads and an entry of another cache.  *)
(***************************************************************************)
THEOREM DataFits == Spec => []DataFitsConf
<1>1. DisplayInv => DataFitsConf
  BY DEF DisplayInv
<1> QED
  BY <1>1, Invariance, PTL

(***************************************************************************)
(* What a fetch answers.  A fetch reads the rows four times; as long as no *)
(* edit falls between, what it has read is what was in force at the first. *)
(***************************************************************************)
UpToDate(r) ==
    /\ Fetching(r) => req[r].key = Key("render", asked[r].slot, asked[r].conf)
    /\ r \notin split =>
          /\ req[r].at = "slots" => screen.slot = asked[r].slot
          /\ req[r].at \in {"slots", "execute"} => instance.conf = asked[r].conf
          /\ req[r].at \in {"slots", "execute", "source"} => asked[r].slot # Nil
          /\ req[r].at \in {"execute", "source"} => req[r].png.slot = asked[r].slot
          /\ req[r].at = "source" => req[r].png.conf = asked[r].conf
          /\ req[r].at \in {"store", "encode", "reply"} => Fits(req[r].png, asked[r])

FetchesUpToDate == \A r \in Requests : UpToDate(r)

\* An entry of the render cache that no split fetch has stored is an image of
\* what its key says.
KeysFit == \A k \in Keys \ torn : cache[k] # Nil => Fits(cache[k], [slot |-> k[2], conf |-> k[3]])

\* The device waits for a request that is under way and knows its image.
WaitsFor(r) ==
    \/ req[r].at = "checkIn"
    \/ Fetching(r) /\ req[r].kind # "panel" /\ req[r].etag = dev.png

DeviceWaits == \A r \in Requests : dev.waits = r => WaitsFor(r)

OverlapInv == FetchesUpToDate /\ KeysFit /\ DeviceWaits

\* The parts of a key can be read off it.
LEMMA KeyParts ==
    ASSUME NEW order, NEW slot, NEW conf
    PROVE  LET k == Key(order, slot, conf) IN k[2] = slot /\ (slot # Nil => k[3] = conf)
BY DEF Key, BlankKey

\* Steps that leave their request idle, or at something that is not a fetch
\* before its answer.
LEMMA NotFetching ==
    ASSUME DisplayInv, NEW r \in Requests,
           \/ CheckInRead(r) \/ CheckInReply(r) \/ Reply(r) \/ WriteHash(r)
           \/ ExecuteRefused(r) \/ RenderFails(r) \/ NullHash(r) \/ UpdateInstance(r)
           \/ \E s \in Slots : CreateSlot(r, s)
           \/ \E c \in Confs, e \in BOOLEAN : UpdateInstanceRead(r, c, e)
    PROVE  ~Fetching(r)' /\ \A p \in Requests \ {r} : req'[p] = req[p]
<1>1. req \in [Requests -> Request]
  BY DEF DisplayInv, TypeOK
<1>2. PICK q : /\ q.at \notin {"slots", "execute", "source", "store", "encode", "reply"}
               /\ req' = [req EXCEPT ![r] = q]
  <2>1. CASE req' = [req EXCEPT ![r] = Idle]
    BY <2>1 DEF Idle
  <2>2. CASE CheckInRead(r)
    BY <2>2 DEF CheckInRead, Start
  <2>3. CASE Reply(r)
    <3>1. req[r] \in FetchReq
      BY <2>3, FetchingIsFetch DEF Reply
    <3>2. CASE NotModified(req[r])
      BY <2>1, <2>3, <3>2 DEF Reply, Finish
    <3>3. CASE ~NotModified(req[r])
      BY <1>1, <2>3, <3>1, <3>3 DEF Reply, FetchReq
    <3> QED
      BY <3>2, <3>3
  <2>4. ASSUME NEW s \in Slots, CreateSlot(r, s)
        PROVE  req' = [req EXCEPT ![r] = [at |-> "nullHash"]]
    BY <2>4 DEF CreateSlot, Start
  <2>5. ASSUME NEW c \in Confs, NEW e \in BOOLEAN, UpdateInstanceRead(r, c, e)
        PROVE  req' = [req EXCEPT ![r] = [at |-> "instance", conf |-> c, enabled |-> e,
                                          shown |-> screen.slot # Nil]]
    BY <2>5 DEF UpdateInstanceRead, Start
  <2> QED
    BY <2>1, <2>2, <2>3, <2>4, <2>5
       DEF CheckInReply, WriteHash, ExecuteRefused, RenderFails, NullHash, UpdateInstance, Finish
<1> QED
  BY <1>1, <1>2 DEF Fetching

\* A fetch under way after a step has begun in it, gone on, or slept.
LEMMA FetchSteps ==
    ASSUME DisplayInv, Next, NEW p \in Requests, Fetching(p)', req'[p] # req[p]
    PROVE  \/ \E kind \in {"raw", "png", "panel"} : FetchRead(p, kind)
           \/ RenderSlots(p) \/ Execute(p) \/ (\E failed \in BOOLEAN : ResolveSource(p, failed))
           \/ StorePng(p) \/ Encode(p)
<1> DEFINE Goal == \/ \E kind \in {"raw", "png", "panel"} : FetchRead(p, kind)
                   \/ RenderSlots(p) \/ Execute(p) \/ (\E failed \in BOOLEAN : ResolveSource(p, failed))
                   \/ StorePng(p) \/ Encode(p)
<1>1. req \in [Requests -> Request]
  BY DEF DisplayInv, TypeOK
<1>2. ASSUME NEW r \in Requests, NEW kind \in {"raw", "png", "panel"}, FetchRead(r, kind)
      PROVE  Goal
  <2>1. r = p
    BY <1>1, <1>2 DEF FetchRead, Start
  <2> QED
    BY <1>2, <2>1
<1>3. ASSUME NEW r \in Requests,
             \/ RenderSlots(r) \/ Execute(r) \/ (\E failed \in BOOLEAN : ResolveSource(r, failed))
             \/ StorePng(r) \/ Encode(r)
      PROVE  Goal
  <2>1. r = p
    BY <1>1, <1>3 DEF RenderSlots, Execute, ResolveSource, StorePng, Encode, Finish
  <2> QED
    BY <1>3, <2>1
<1>4. ~UNCHANGED req
  OBVIOUS
<1>5. ~Crash
  BY DEF Crash, Fetching, Idle
<1> HIDE DEF Goal
<1>6. ASSUME NEW r \in Requests, Poll(r) \/ Preview(r) PROVE Goal
  BY <1>2, <1>6, NotFetching, BoundAssumption DEF Poll, Fetch, Preview
<1>7. ASSUME NEW r \in Requests, Continue(r) \/ ResolveSource(r, TRUE) \/ RenderFails(r)
      PROVE  Goal
  BY <1>3, <1>7, NotFetching DEF Continue
<1>8. ASSUME NEW r \in Requests, Edit(r) PROVE Goal
  BY <1>4, <1>8, NotFetching DEF Edit, UpdateScreen, UpdateSlot, DeleteSlot, RemoveInstance
<1>9. Goal
  BY <1>4, <1>5, <1>6, <1>7, <1>8 DEF Next, ChangeSource, Expire, ExpirePng, ExpireData, GiveUp
<1> QED
  BY <1>9 DEF Goal

(***************************************************************************)
(* The statements of a fetch                                               *)
(***************************************************************************)
\* A fetch that does not move: an edit leaves it alone or splits it.
LEMMA Sleeping ==
    ASSUME Remember, NEW p \in Requests, UpToDate(p), req'[p] = req[p]
    PROVE  UpToDate(p)'
<1>1. CASE ~Fetching(p)
  BY <1>1 DEF UpToDate, Fetching
<1>2. CASE Fetching(p)
  <2>1. Fetching(p)' /\ asked'[p] = asked[p]
    BY <1>2 DEF Remember, Fetching
  <2>2. p \notin split' => p \notin split /\ ~EditedBetweenReads(p)
    BY <2>1 DEF Remember
  <2>3. p \notin split' => /\ req[p].at = "slots" => screen'.slot = screen.slot
                           /\ req[p].at \in {"slots", "execute"} => instance'.conf = instance.conf
    BY <2>2 DEF EditedBetweenReads
  <2> QED
    BY <2>1, <2>2, <2>3 DEF UpToDate, Key, Fits, Fetching
<1> QED
  BY <1>1, <1>2

LEMMA BeginsUpToDate ==
    ASSUME DisplayInv, KeysFit, Remember, NEW r \in Requests,
           NEW kind \in {"raw", "png", "panel"}, FetchRead(r, kind)
    PROVE  UpToDate(r)'
<1> DEFINE key == Key("render", screen.slot, instance.conf)
           hit == kind = "raw" /\ cache[key] # Nil
<1>1. req[r] = Idle /\ req' = [req EXCEPT ![r] =
             [at |-> IF hit THEN "encode" ELSE IF screen.slot = Nil THEN "store" ELSE "slots",
              kind |-> kind, etag |-> IF kind = "panel" THEN Nil ELSE dev.png, key |-> key,
              png |-> IF hit THEN cache[key] ELSE Blank, palette |-> Nil]]
  BY DEF FetchRead, Start
<1>2. key \in Keys /\ req \in [Requests -> Request]
  BY DEF DisplayInv, TypeOK, RowsOK, Key, Keys
<1>3. UNCHANGED <<screen, instance, cache>>
  BY DEF FetchRead
<1>4. Fits(Blank, InForce) <=> screen.slot = Nil
  BY DEF Fits, Blank, InForce
<1>5. hit /\ key \notin torn => Fits(cache[key], InForce)
  BY <1>2, KeyParts DEF KeysFit, Fits, InForce
<1> HIDE DEF key, hit
<1>6. /\ req'[r].at = IF hit THEN "encode" ELSE IF screen.slot = Nil THEN "store" ELSE "slots"
      /\ req'[r].key = key
      /\ req'[r].png = IF hit THEN cache[key] ELSE Blank
  BY <1>1, <1>2
<1>7. ~Fetching(r) /\ Fetching(r)'
  BY <1>1, <1>6 DEF Fetching, Idle
<1>8. asked'[r] = InForce
  BY <1>7 DEF Remember
<1>9. hit /\ key \in torn => r \in split'
  BY <1>6, <1>7 DEF Remember, TakesTorn
<1>10. key = Key("render", InForce.slot, InForce.conf)
  BY DEF key, Key, InForce
<1>11. InForce.slot = screen.slot /\ (screen.slot # Nil => InForce.conf = instance.conf)
  BY DEF InForce
<1> QED
  BY <1>3, <1>4, <1>5, <1>6, <1>7, <1>8, <1>9, <1>10, <1>11 DEF UpToDate, Key, Fits

\* A fetch that goes on keeps its key and what it was asked for.
LEMMA Going ==
    ASSUME Remember, NEW r \in Requests, Fetching(r), Fetching(r)', UNCHANGED <<screen, instance>>
    PROVE  asked'[r] = asked[r] /\ (r \notin split' => r \notin split)
BY DEF Remember

LEMMA RendersUpToDate ==
    ASSUME DisplayInv, NEW r \in Requests, UpToDate(r), Remember, RenderSlots(r)
    PROVE  UpToDate(r)'
<1>1. req[r] \in FetchReq /\ req \in [Requests -> Request]
  BY FetchingIsFetch DEF RenderSlots
<1>2. /\ req[r].at = "slots" /\ UNCHANGED <<screen, instance>>
      /\ req'[r].at = IF screen.slot = Nil THEN "store" ELSE "execute"
      /\ req'[r].key = req[r].key /\ req'[r].png.slot = screen.slot
  BY <1>1 DEF RenderSlots, FetchReq
<1>3. asked'[r] = asked[r] /\ (r \notin split' => r \notin split) /\ Fetching(r)
  BY <1>2, Going DEF Fetching
<1> QED
  BY <1>2, <1>3 DEF UpToDate, Key, Fits

LEMMA ExecutesUpToDate ==
    ASSUME DisplayInv, NEW r \in Requests, UpToDate(r), Remember, Execute(r)
    PROVE  UpToDate(r)'
<1>1. req[r] \in FetchReq /\ req \in [Requests -> Request]
  BY FetchingIsFetch DEF Execute
<1>2. /\ req[r].at = "execute" /\ UNCHANGED <<screen, instance>>
      /\ req'[r].at \in {"source", "store"}
      /\ req'[r].key = req[r].key
      /\ req'[r].png.slot = req[r].png.slot /\ req'[r].png.conf = instance.conf
  BY <1>1 DEF Execute, FetchReq
<1>3. asked'[r] = asked[r] /\ (r \notin split' => r \notin split) /\ Fetching(r)
  BY <1>2, Going DEF Fetching
<1> QED
  BY <1>2, <1>3 DEF UpToDate, Key, Fits

LEMMA ResolvesUpToDate ==
    ASSUME DisplayInv, NEW r \in Requests, UpToDate(r), Remember,
           NEW failed \in BOOLEAN, ResolveSource(r, failed)
    PROVE  UpToDate(r)'
<1>1. req[r] \in FetchReq /\ req \in [Requests -> Request]
  BY FetchingIsFetch DEF ResolveSource
<1>2. PICK datum : req' = [req EXCEPT ![r].at = "store", ![r].png.data = datum]
  BY DEF ResolveSource
<1>3. /\ req[r].at = "source" /\ UNCHANGED <<screen, instance>>
      /\ req'[r].at = "store" /\ req'[r].key = req[r].key
      /\ req'[r].png.slot = req[r].png.slot /\ req'[r].png.conf = req[r].png.conf
  BY <1>1, <1>2 DEF ResolveSource, FetchReq
<1>4. asked'[r] = asked[r] /\ (r \notin split' => r \notin split) /\ Fetching(r)
  BY <1>3, Going DEF Fetching
<1> QED
  BY <1>3, <1>4 DEF UpToDate, Key, Fits

LEMMA StoresUpToDate ==
    ASSUME DisplayInv, NEW r \in Requests, UpToDate(r), Remember, StorePng(r) \/ Encode(r),
           Fetching(r)'
    PROVE  UpToDate(r)'
<1>1. req[r] \in FetchReq /\ req \in [Requests -> Request] /\ req[r].at \in {"store", "encode"}
  BY FetchingIsFetch DEF StorePng, Encode
<1>2. /\ UNCHANGED <<screen, instance>>
      /\ req'[r].at \in {"encode", "reply"} /\ req'[r].key = req[r].key /\ req'[r].png = req[r].png
  <2>1. CASE StorePng(r)
    BY <1>1, <2>1 DEF StorePng, FetchReq
  <2>2. CASE Encode(r) /\ req[r].kind = "panel"
    BY <1>1, <2>2 DEF Encode, Finish, Fetching, Idle
  <2>3. CASE Encode(r) /\ req[r].kind # "panel"
    BY <1>1, <2>3 DEF Encode, FetchReq
  <2> QED
    BY <2>1, <2>2, <2>3
<1>3. asked'[r] = asked[r] /\ (r \notin split' => r \notin split) /\ Fetching(r)
  BY <1>1, <1>2, Going DEF Fetching
<1> QED
  BY <1>1, <1>2, <1>3 DEF UpToDate, Key, Fits

LEMMA FetchesStep ==
    ASSUME DisplayInv, FetchesUpToDate, KeysFit, Next, Remember
    PROVE  FetchesUpToDate'
<1> SUFFICES ASSUME NEW p \in Requests PROVE UpToDate(p)'
  BY DEF FetchesUpToDate
<1>1. CASE req'[p] = req[p]
  BY <1>1, Sleeping DEF FetchesUpToDate
<1>2. CASE ~Fetching(p)'
  BY <1>2 DEF UpToDate, Fetching
<1>3. CASE req'[p] # req[p] /\ Fetching(p)'
  BY <1>3, FetchSteps, BeginsUpToDate, RendersUpToDate, ExecutesUpToDate, ResolvesUpToDate,
     StoresUpToDate DEF FetchesUpToDate
<1> QED
  BY <1>1, <1>2, <1>3

(***************************************************************************)
(* The render cache                                                        *)
(***************************************************************************)
\* Entries come by StorePng only.
LEMMA CacheStep ==
    ASSUME DisplayInv, Next, \A r \in Requests : ~StorePng(r)
    PROVE  \A k \in Keys : cache'[k] \in {cache[k], Nil}
<1>1. CASE UNCHANGED cache
  BY <1>1
<1>2. CASE Crash
  BY <1>2 DEF Crash
<1>3. ASSUME NEW k \in Keys, ExpirePng(k) PROVE \A j \in Keys : cache'[j] \in {cache[j], Nil}
  BY <1>3 DEF ExpirePng, DisplayInv, TypeOK
<1> QED
  BY <1>1, <1>2, <1>3
     DEF Next, Poll, Continue, Edit, Expire, CheckInRead, Fetch, FetchRead, Preview, CheckInReply,
         RenderSlots, Execute, ExecuteRefused, ResolveSource, Encode, Reply, WriteHash, NullHash,
         UpdateInstance, UpdateScreen, CreateSlot, UpdateSlot, UpdateInstanceRead, DeleteSlot,
         RemoveInstance, RenderFails, ChangeSource, ExpireData, GiveUp

LEMMA KeysStep ==
    ASSUME DisplayInv, FetchesUpToDate, KeysFit, Next, Remember
    PROVE  KeysFit'
<1> SUFFICES ASSUME NEW k \in Keys, k \notin torn', cache'[k] # Nil
             PROVE  Fits(cache'[k], [slot |-> k[2], conf |-> k[3]])
  BY DEF KeysFit, Fits
<1>1. ~\E r \in split : Stores(r, k)
  BY DEF Remember
<1>2. ASSUME NEW r \in Requests, Stores(r, k) PROVE Fits(cache'[k], [slot |-> k[2], conf |-> k[3]])
  <2>1. /\ cache'[k] = req[r].png /\ r \notin split /\ req[r].at = "store" /\ k = req[r].key
    BY <1>1, <1>2 DEF Stores, StorePng, DisplayInv, TypeOK
  <2>2. Fits(req[r].png, asked[r]) /\ k = Key("render", asked[r].slot, asked[r].conf)
    BY <2>1 DEF FetchesUpToDate, UpToDate, Fetching
  <2> QED
    BY <2>1, <2>2, KeyParts DEF Fits
<1>3. ASSUME \A r \in Requests : ~Stores(r, k) PROVE Fits(cache'[k], [slot |-> k[2], conf |-> k[3]])
  <2>1. k \notin torn
    BY <1>3 DEF Remember
  <2>2. cache'[k] = cache[k]
    <3>1. CASE \A r \in Requests : ~StorePng(r)
      BY <3>1, CacheStep
    <3>2. ASSUME NEW r \in Requests, StorePng(r) PROVE cache'[k] = cache[k]
      BY <1>3, <3>2 DEF Stores, StorePng, DisplayInv, TypeOK
    <3> QED
      BY <3>1, <3>2
  <2> QED
    BY <2>1, <2>2 DEF KeysFit
<1> QED
  BY <1>2, <1>3

(***************************************************************************)
(* The device                                                              *)
(***************************************************************************)
\* The request that the device waits for has begun in this step, sleeps, or
\* goes on as a fetch.
LEMMA DeviceStep ==
    ASSUME DisplayInv, DeviceWaits, Next
    PROVE  DeviceWaits'
<1> SUFFICES ASSUME NEW p \in Requests, dev'.waits = p PROVE WaitsFor(p)'
  BY DEF DeviceWaits
<1>1. /\ req \in [Requests -> Request] /\ p # Nil
      /\ dev \in [png: Image \cup {Nil}, palette: Palettes \cup {Nil},
                  next: {"checkIn", "fetch"}, waits: Requests \cup {Nil}]
  BY NilAssumption DEF DisplayInv, TypeOK
<1>2. CASE req'[p] = req[p] /\ dev' = dev
  BY <1>2 DEF DeviceWaits, WaitsFor, Fetching
<1>3. ASSUME NEW r \in Requests, CheckInRead(r) PROVE WaitsFor(p)'
  BY <1>1, <1>3 DEF CheckInRead, Start, WaitsFor
<1>4. ASSUME NEW r \in Requests, NEW kind \in Formats, Fetch(r, kind) PROVE WaitsFor(p)'
  <2>1. r = p /\ dev'.png = dev.png /\ kind # "panel"
    BY <1>1, <1>4, BoundAssumption DEF Fetch
  <2>2. /\ req'[p].kind = kind /\ req'[p].etag = dev.png
        /\ req'[p].at \in {"slots", "store", "encode"}
    BY <1>1, <1>4, <2>1 DEF Fetch, FetchRead, Start
  <2> QED
    BY <2>1, <2>2 DEF WaitsFor, Fetching
<1>5. ASSUME NEW r \in Requests, CheckInReply(r) \/ ExecuteRefused(r) \/ RenderFails(r) \/ Reply(r)
      PROVE  WaitsFor(p)'
  <2>1. (\E next \in {"checkIn", "fetch"} : Answer(r, next)) \/ (Reply(r) /\ ~NotModified(req[r]))
    BY <1>5 DEF CheckInReply, ExecuteRefused, RenderFails, Reply
  <2>2. dev' = dev /\ dev.waits # r
    <3>1. CASE dev.waits = r
      <4>1. dev'.waits = Nil
        <5>1. ASSUME NEW next, Answer(r, next) PROVE dev'.waits = Nil
          BY <1>1, <3>1, <5>1 DEF Answer
        <5>2. CASE Reply(r) /\ ~NotModified(req[r])
          BY <3>1, <5>2 DEF Reply
        <5> QED
          BY <2>1, <5>1, <5>2
      <4> QED
        BY <1>1, <4>1
    <3>2. CASE dev.waits # r
      BY <2>1, <3>2 DEF Answer, Reply
    <3> QED
      BY <3>1, <3>2
  <2>3. req'[p] = req[p]
    BY <1>5, <2>2, NotFetching
  <2> QED
    BY <1>2, <2>2, <2>3
<1>6. ASSUME NEW r \in Requests,
             \/ RenderSlots(r) \/ Execute(r) \/ ResolveSource(r, TRUE) \/ ResolveSource(r, FALSE)
             \/ StorePng(r) \/ Encode(r)
      PROVE  WaitsFor(p)'
  <2>1. dev' = dev
    BY <1>6 DEF RenderSlots, Execute, ResolveSource, StorePng, Encode
  <2>2. CASE r # p
    <3>1. req'[p] = req[p]
      BY <1>1, <1>6, <2>2 DEF RenderSlots, Execute, ResolveSource, StorePng, Encode, Finish
    <3> QED
      BY <1>2, <2>1, <3>1
  <2>3. CASE r = p
    <3>1. req[p] \in FetchReq
      BY <1>6, <2>3, FetchingIsFetch DEF RenderSlots, Execute, ResolveSource, StorePng, Encode
    <3>2. req[p].kind # "panel" /\ req[p].etag = dev.png
      BY <1>6, <2>1, <2>3
         DEF DeviceWaits, WaitsFor, RenderSlots, Execute, ResolveSource, StorePng, Encode
    <3>3. Fetching(p)' /\ req'[p].kind = req[p].kind /\ req'[p].etag = req[p].etag
      <4>1. CASE RenderSlots(p) \/ Execute(p)
        BY <1>1, <3>1, <4>1 DEF RenderSlots, Execute, FetchReq, Fetching
      <4>2. CASE StorePng(p) \/ Encode(p)
        BY <1>1, <3>1, <3>2, <4>2 DEF StorePng, Encode, FetchReq, Fetching
      <4>3. CASE ResolveSource(p, TRUE) \/ ResolveSource(p, FALSE)
        <5>1. PICK datum : req' = [req EXCEPT ![p].at = "store", ![p].png.data = datum]
          BY <4>3 DEF ResolveSource
        <5> QED
          BY <1>1, <3>1, <5>1 DEF FetchReq, Fetching
      <4> QED
        BY <1>6, <2>3, <4>1, <4>2, <4>3
    <3> QED
      BY <2>1, <3>2, <3>3 DEF WaitsFor
  <2> QED
    BY <2>2, <2>3
<1>7. ASSUME NEW r \in Requests,
             \/ WriteHash(r) \/ NullHash(r) \/ UpdateInstance(r) \/ Preview(r)
             \/ \E s \in Slots : CreateSlot(r, s)
             \/ \E c \in Confs, e \in BOOLEAN : UpdateInstanceRead(r, c, e)
      PROVE  WaitsFor(p)'
  <2>1. dev' = dev
    BY <1>7 DEF WriteHash, NullHash, UpdateInstance, Preview, CreateSlot, UpdateInstanceRead
  <2>2. ~WaitsFor(r)
    BY <1>7 DEF WriteHash, NullHash, UpdateInstance, Preview, FetchRead, CreateSlot,
                UpdateInstanceRead, Start, Idle, WaitsFor, Fetching
  <2>3. r # p
    BY <2>1, <2>2 DEF DeviceWaits
  <2>4. req'[p] = req[p]
    BY <1>1, <1>7, <2>3 DEF WriteHash, NullHash, UpdateInstance, Preview, FetchRead, CreateSlot,
       UpdateInstanceRead, Start, Finish
  <2> QED
    BY <1>2, <2>1, <2>4
<1>8. ASSUME NEW r \in Requests,
             \/ \E z \in Zones, q \in Palettes : UpdateScreen(r, z, q)
             \/ \E s \in Slots : UpdateSlot(r, s)
             \/ DeleteSlot(r) \/ RemoveInstance(r)
      PROVE  WaitsFor(p)'
  BY <1>2, <1>8 DEF UpdateScreen, UpdateSlot, DeleteSlot, RemoveInstance
<1>9. CASE (\E v \in Values : ChangeSource(v)) \/ Expire
  BY <1>2, <1>9 DEF ChangeSource, Expire, ExpirePng, ExpireData
<1>10. ~GiveUp /\ ~Crash
  BY <1>1 DEF GiveUp, Crash
<1> QED
  BY <1>3, <1>4, <1>5, <1>6, <1>7, <1>8, <1>9, <1>10 DEF Next, Poll, Continue, Edit

LEMMA OverlapInvariance == OverlapSpec => [](DisplayInv /\ OverlapInv)
<1>1. OverlapInit => DisplayInv /\ OverlapInv
  <2> SUFFICES ASSUME OverlapInit PROVE OverlapInv
    BY InitGood DEF OverlapInit
  <2>1. Init
    BY DEF OverlapInit
  <2>2. KeysFit
    BY <2>1 DEF Init, KeysFit
  <2>3. \A r \in Requests : UpToDate(r)
    BY <2>1 DEF Init, Idle, UpToDate, Fetching
  <2>4. DeviceWaits
    BY <2>1, NilAssumption DEF Init, DeviceWaits
  <2> QED
    BY <2>2, <2>3, <2>4 DEF OverlapInv, FetchesUpToDate
<1>2. ASSUME DisplayInv, OverlapInv, Next, Remember PROVE OverlapInv'
  BY <1>2, FetchesStep, KeysStep, DeviceStep DEF OverlapInv
<1>3. ASSUME OverlapInv, UNCHANGED <<vars, history>> PROVE OverlapInv'
  <2>1. UNCHANGED <<screen, instance, cache, req, dev, asked, split, torn>>
    BY <1>3 DEF vars, history
  <2>2. KeysFit'
    BY <1>3, <2>1 DEF OverlapInv, KeysFit
  <2>3. FetchesUpToDate'
    BY <1>3, <2>1 DEF OverlapInv, FetchesUpToDate, UpToDate, Fetching, Key, Fits
  <2>4. DeviceWaits'
    BY <1>3, <2>1 DEF OverlapInv, DeviceWaits, WaitsFor, Fetching
  <2> QED
    BY <2>2, <2>3, <2>4 DEF OverlapInv
<1>4. DisplayInv /\ OverlapInv /\ [Next /\ Remember]_<<vars, history>> => OverlapInv'
  BY <1>2, <1>3
<1>5. OverlapSpec => []DisplayInv
  <2>1. [Next /\ Remember]_<<vars, history>> => [Next]_vars
    BY DEF vars, history
  <2>2. OverlapInit => Init
    BY DEF OverlapInit
  <2> QED
    BY <2>1, <2>2, Invariance, PTL DEF OverlapSpec, Spec
<1> QED
  BY <1>1, <1>4, <1>5, PTL DEF OverlapSpec

(***************************************************************************)
(* An answer to the device, 304 or 200, leaves it with an image of the     *)
(* slot and configuration in force when it asked, unless an edit fell      *)
(* between the reads of that fetch or of the one that stored its image: no *)
(* other edit hides behind the render cache, its key or the ETag.          *)
(***************************************************************************)
THEOREM EditsShow == OverlapSpec => ServedAsConfigured
<1> DEFINE Served == \A r \in Requests \ split :
                         Reply(r) /\ dev.waits = r => Fits(dev'.png, asked[r])
<1>1. ASSUME DisplayInv, OverlapInv PROVE Served
  <2> SUFFICES ASSUME NEW r \in Requests, r \notin split, Reply(r), dev.waits = r
               PROVE  Fits(dev'.png, asked[r])
    OBVIOUS
  <2>1. req[r].at = "reply"
    BY DEF Reply
  <2>2. Fits(req[r].png, asked[r]) /\ req[r].etag = dev.png
    BY <1>1, <2>1 DEF OverlapInv, FetchesUpToDate, UpToDate, DeviceWaits, WaitsFor
  <2>3. dev'.png = req[r].png
    <3>1. CASE NotModified(req[r])
      <4>1. dev' = [dev EXCEPT !.waits = Nil, !.next = "checkIn"]
        BY <3>1 DEF Reply, Answer
      <4>2. dev'.png = dev.png
        BY <1>1, <4>1 DEF DisplayInv, TypeOK
      <4> QED
        BY <2>2, <3>1, <4>2 DEF NotModified
    <3>2. CASE ~NotModified(req[r])
      BY <3>2 DEF Reply
    <3> QED
      BY <3>1, <3>2
  <2> QED
    BY <2>2, <2>3
<1>2. DisplayInv /\ OverlapInv /\ [Next /\ Remember]_<<vars, history>> => [Served]_<<vars, history>>
  BY <1>1
<1> HIDE DEF Served
<1>3. OverlapSpec => [][Served]_<<vars, history>>
  BY <1>2, OverlapInvariance, PTL DEF OverlapSpec
<1> QED
  BY <1>3 DEF ServedAsConfigured, Served
=============================================================================

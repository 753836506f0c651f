--------------------------- MODULE DisplayOverlap ----------------------------
(***************************************************************************)
(* Display with a record of what every fetch was asked for and of the      *)
(* edits that fell between its reads, so that what a fetch answers can be  *)
(* stated of all interleavings.  The history variables are read by nothing *)
(* but the properties.                                                     *)
(***************************************************************************)
EXTENDS Display

VARIABLES
    asked,   \* history: the slot and configuration in force when a fetch began
    split,   \* history: fetches with an edit between their reads
    torn     \* history: keys of cache entries that such fetches have stored

history == <<asked, split, torn>>

\* A fetch that has not been answered.
Fetching(r) == req[r].at \in {"slots", "execute", "source", "store", "encode", "reply"}

InForce == [slot |-> screen.slot, conf |-> IF screen.slot = Nil THEN Nil ELSE instance.conf]

\* The fetch has read the rows for its key, and in this step the slot or the
\* configuration that it has still to render from becomes another.
EditedBetweenReads(r) ==
    \/ req[r].at = "slots" /\ screen'.slot # screen.slot
    \/ req[r].at \in {"slots", "execute"} /\ instance'.conf # instance.conf

\* In this step r begins, with an image that a split fetch has stored.
TakesTorn(r) == ~Fetching(r) /\ req'[r].at = "encode" /\ req'[r].key \in torn

Stores(r, k) == StorePng(r) /\ req[r].key = k

\* An entry is torn until it expires, is lost, or is stored by another fetch.
Remember ==
    /\ asked' = [r \in Requests |-> IF ~Fetching(r)' THEN Nil
                                    ELSE IF Fetching(r) THEN asked[r] ELSE InForce]
    /\ split' = {r \in Requests : Fetching(r)' /\ (r \in split \/ EditedBetweenReads(r) \/ TakesTorn(r))}
    /\ torn' = {k \in Keys : /\ cache'[k] # Nil
                             /\ \/ k \in torn /\ ~\E r \in Requests : Stores(r, k)
                                \/ \E r \in split : Stores(r, k)}

OverlapInit == Init /\ asked = [r \in Requests |-> Nil] /\ split = {} /\ torn = {}

OverlapSpec == OverlapInit /\ [][Next /\ Remember]_<<vars, history>>

\* The image shows the slot and the configuration that were asked for.
Fits(png, as) == png.slot = as.slot /\ (as.slot # Nil => png.conf = as.conf)

(***************************************************************************)
(* An answer to the device, 304 or 200, leaves it with an image of the     *)
(* slot and configuration in force when its request began: no edit before  *)
(* that hides behind the render cache, its key or the ETag.  Only an edit  *)
(* between the reads of a fetch leads to another image, in the answer to   *)
(* that fetch and to those served from the entry it has stored.            *)
(***************************************************************************)
ServedAsConfigured ==
    [][\A r \in Requests \ split : Reply(r) /\ dev.waits = r =>
          Fits(dev'.png, asked[r])]_<<vars, history>>
=============================================================================

---------------------------- MODULE RenderCaches -----------------------------
(***************************************************************************)
(* How old the data on a screen can be.  Several screens show the same     *)
(* plugin instance: each has its image in the render cache, all share the  *)
(* instance's entry in the data-source cache.  The code compares Date.now  *)
(* with expiresAt; here an entry holds the seconds it has left and the     *)
(* seconds since its data was asked for, and Tick counts them.             *)
(* Configurations do not change here (Display has them), lifetimes do.     *)
(***************************************************************************)
EXTENDS Integers

CONSTANTS
    Screens,     \* active screens that show the instance
    Requests,    \* renders that may be under way at once
    Rates,       \* values of Screen.refreshRate
    MinTtl,      \* 30 s: the shortest life of an image
    MaxDataTtl,  \* 600 s: the longest life of data
    Longest,     \* what one render may take: its timeouts added up
    Nil          \* no entry, or one that no longer counts

ASSUME CacheAssumption ==
    /\ Rates \subseteq Nat
    /\ MinTtl \in Nat /\ MaxDataTtl \in Nat \ {0} /\ Longest \in Nat
    /\ Nil \notin [age: Nat, left: Int] /\ Nil \notin [age: Nat, left: Int, ttl: Nat]

VARIABLES
    rate,    \* Screen.refreshRate
    image,   \* RenderCacheService.cache, at the key of each screen
    data,    \* DataSourcesService.cache, at the key of the instance
    req,     \* renders under way; ran: seconds since they began
    mixed    \* history: something but device fetches of one screen has happened

vars == <<rate, image, data, req, mixed>>

\* age: seconds since the data was asked for; left: expiresAt - Date.now().
DataEntry == [age: Nat, left: Int]
ImageEntry == [age: Nat, left: Int, ttl: Nat]

Idle == [at |-> "idle"]
Request ==
    {Idle}
    \cup [at: {"execute", "upstream", "compose"}, screen: Screens, ttl: Nat, ran: Nat, age: Nat]

Larger(a, b) == IF a > b THEN a ELSE b
Smaller(a, b) == IF a < b THEN a ELSE b

ImageTtl(s) == Larger(MinTtl, rate[s])
DataTtl(ttl) == Smaller(ttl, MaxDataTtl)

\* RenderCacheService.get: an entry still counts at its last millisecond.
ImageCounts(s) == image[s] # Nil /\ image[s].left >= 0

\* DataSourcesService: an entry does not count at its last millisecond.
DataCounts == data # Nil /\ data.left > 0

Init ==
    /\ data = Nil /\ mixed = FALSE
    /\ rate \in [Screens -> Rates]
    /\ image = [s \in Screens |-> Nil]
    /\ req = [r \in Requests |-> Idle]

\* The lifetime is fixed here, with the first read of the screen.
Begin(r, s) ==
    /\ req[r] = Idle
    /\ req' = [req EXCEPT ![r] =
          [at |-> "execute", screen |-> s, ttl |-> ImageTtl(s), ran |-> 0, age |-> 0]]
    /\ UNCHANGED <<rate, data>>

\* Another screen is rendered, or was and its image still counts.
OtherScreen(s) ==
    \/ \E t \in Screens \ {s} : image[t] # Nil
    \/ \E r \in Requests : req[r] # Idle /\ req[r].screen # s

\* A device fetch that the render cache cannot answer.
Fetch(r, s) ==
    /\ ~ImageCounts(s)
    /\ Begin(r, s)
    /\ mixed' = (mixed \/ OtherScreen(s))
    /\ UNCHANGED image

\* A preview does not ask the render cache.
Preview(r, s) ==
    /\ Begin(r, s)
    /\ mixed' = TRUE
    /\ UNCHANGED image

\* The step of a render after which its data is `age' seconds old.
Continue(r, at, age) ==
    req' = [req EXCEPT ![r] = [at |-> at, screen |-> @.screen, ttl |-> @.ttl, ran |-> @.ran, age |-> age]]

\* resolveAll: the data-source cache answers, or the source is asked.
Execute(r) ==
    /\ req[r].at = "execute"
    /\ IF DataCounts THEN Continue(r, "compose", data.age) ELSE Continue(r, "upstream", 0)
    /\ UNCHANGED <<rate, image, data, mixed>>

\* Mutant: the data lives as long as the image.
AnswerUncapped(r) ==
    /\ req[r].at = "upstream"
    /\ Continue(r, "compose", req[r].age)
    /\ data' = [age |-> req[r].age, left |-> req[r].ttl - req[r].age]
    /\ UNCHANGED <<rate, image, mixed>>

\* Mutant: DEFAULT_TTL_SECONDS whatever the screen says.
AnswerDefaultTtl(r) ==
    /\ req[r].at = "upstream"
    /\ Continue(r, "compose", req[r].age)
    /\ data' = [age |-> req[r].age, left |-> MaxDataTtl - req[r].age]
    /\ UNCHANGED <<rate, image, mixed>>

\* The source has answered; the life of the entry counts from the question.
Answer(r) ==
    /\ req[r].at = "upstream"
    /\ Continue(r, "compose", req[r].age)
    /\ data' = [age |-> req[r].age, left |-> DataTtl(req[r].ttl) - req[r].age]
    /\ UNCHANGED <<rate, image, mixed>>

\* Mutant: the image lives as long as the longest-lived data.
ComposeTooLong(r) ==
    /\ req[r].at = "compose"
    /\ image' = [image EXCEPT ![req[r].screen] =
          [age |-> req[r].age, left |-> req[r].ttl + MaxDataTtl, ttl |-> req[r].ttl]]
    /\ req' = [req EXCEPT ![r] = Idle]
    /\ UNCHANGED <<rate, data, mixed>>

\* The image is composed, stored and returned; its life counts from here.
Compose(r) ==
    /\ req[r].at = "compose"
    /\ image' = [image EXCEPT ![req[r].screen] =
          [age |-> req[r].age, left |-> req[r].ttl, ttl |-> req[r].ttl]]
    /\ req' = [req EXCEPT ![r] = Idle]
    /\ UNCHANGED <<rate, data, mixed>>

\* A template or the browser fails: the data stays, no image is stored.
Fail(r) ==
    /\ req[r] # Idle
    /\ req' = [req EXCEPT ![r] = Idle]
    /\ mixed' = TRUE
    /\ UNCHANGED <<rate, image, data>>

UpdateScreen(s) ==
    /\ \E x \in Rates : rate' = [rate EXCEPT ![s] = x]
    /\ mixed' = TRUE
    /\ UNCHANGED <<image, data, req>>

\* The key of the data holds today's date: yesterday's entry is not found.
NewDay == data' = Nil /\ UNCHANGED <<rate, image, req, mixed>>

Restart ==
    /\ image' = [s \in Screens |-> Nil] /\ data' = Nil
    /\ req' = [r \in Requests |-> Idle]
    /\ mixed' = FALSE
    /\ UNCHANGED rate

\* A second goes by.  No render takes longer than its timeouts allow; an entry
\* that has lapsed is as good as none.
Tick ==
    /\ \A r \in Requests : req[r] # Idle => req[r].ran < Longest
    /\ image' = [s \in Screens |-> 
          IF ImageCounts(s)
          THEN [age |-> image[s].age + 1, left |-> image[s].left - 1, ttl |-> image[s].ttl] ELSE Nil]
    /\ data' = IF DataCounts THEN [age |-> data.age + 1, left |-> data.left - 1] ELSE Nil
    /\ req' = [r \in Requests |->
          IF req[r] = Idle THEN Idle
          ELSE [at |-> req[r].at, screen |-> req[r].screen, ttl |-> req[r].ttl,
                ran |-> req[r].ran + 1,
                age |-> IF req[r].at = "execute" THEN 0 ELSE req[r].age + 1]]
    /\ UNCHANGED <<rate, mixed>>

Next ==
    \/ \E r \in Requests :
          \/ \E s \in Screens : Fetch(r, s) \/ Preview(r, s)
          \/ Execute(r) \/ Answer(r) \/ Compose(r) \/ Fail(r)
    \/ \E s \in Screens : UpdateScreen(s)
    \/ NewDay \/ Restart \/ Tick

Spec == Init /\ [][Next]_vars

-----------------------------------------------------------------------------
\* Types; and no image has more time left than the life it was given.
TypeOK ==
    /\ rate \in [Screens -> Rates]
    /\ image \in [Screens -> ImageEntry \cup {Nil}]
    /\ \A s \in Screens : image[s] # Nil => image[s].left <= image[s].ttl
    /\ data \in DataEntry \cup {Nil}
    /\ req \in [Requests -> Request]
    /\ mixed \in BOOLEAN

\* What the device gets from the render cache shows data that was asked for
\* less than one life of data, one render and one life of the image ago, however
\* the screens share the instance, previews fill the caches and rates change
\* (render-orchestrator.service.ts, buildScreenPng).
ServedAge ==
    \A s \in Screens : ImageCounts(s) =>
        image[s].age < MaxDataTtl + Longest + image[s].ttl

\* "Data-source cache must not outlive the render cache": when no render is
\* under way, the data has no more time left than the image, so that a device
\* that finds its image too old gets new data.  It holds while only device
\* fetches of one screen with one rate succeed; a second screen with the
\* instance, a preview, a change of the rate or a failed render breaks it.
DataLapsesFirst ==
    ~mixed /\ (\A r \in Requests : req[r] = Idle) /\ DataCounts =>
        \E s \in Screens : ImageCounts(s) /\ data.left <= image[s].left
=============================================================================

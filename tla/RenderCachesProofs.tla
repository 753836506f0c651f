-------------------------- MODULE RenderCachesProofs --------------------------
(***************************************************************************)
(* The bound on the age of what the render cache serves, for any number of *)
(* screens and renders and any lifetimes.  Every entry and every render    *)
(* keeps a budget: the age of its data and the time it may still be used   *)
(* add up to less than the lives of what it was made from.  And, for one   *)
(* screen, that data lapses before the image that is made of it.           *)
(***************************************************************************)
EXTENDS RenderCaches, TLAPS

\* The budgets: data lives MaxDataTtl from the question on; a render has run
\* no longer than Longest, on data that was younger than MaxDataTtl when it
\* took it; an image adds its own life to that.
Budgets ==
    /\ data # Nil => data.age + data.left <= MaxDataTtl
    /\ \A r \in Requests : req[r] # Idle =>
          /\ req[r].ran <= Longest
          /\ req[r].at = "execute" => req[r].age = 0
          /\ req[r].at = "upstream" => req[r].age <= req[r].ran
          /\ req[r].at = "compose" => req[r].age < MaxDataTtl + req[r].ran
    /\ \A s \in Screens : image[s] # Nil =>
          image[s].age + image[s].left < MaxDataTtl + Longest + image[s].ttl

AgeInv == TypeOK /\ Budgets

LEMMA IdleIsNoRender == Idle.at = "idle" /\ \A r \in Request : r # Idle <=> r.at # "idle"
BY DEF Idle, Request

LEMMA TtlTypes ==
    ASSUME TypeOK, NEW s \in Screens
    PROVE  ImageTtl(s) \in Nat
BY CacheAssumption DEF TypeOK, ImageTtl, Larger

LEMMA DataTtlBound ==
    ASSUME NEW ttl \in Nat
    PROVE  DataTtl(ttl) \in Nat /\ DataTtl(ttl) <= MaxDataTtl
BY CacheAssumption DEF DataTtl, Smaller

LEMMA InitAges == Init => AgeInv
BY CacheAssumption DEF Init, AgeInv, TypeOK, Budgets, Request, Idle

\* A render begins with no data and no time spent.
LEMMA BeginAges ==
    ASSUME AgeInv, NEW r \in Requests, NEW s \in Screens, Begin(r, s),
           image' = image, mixed' \in BOOLEAN
    PROVE  AgeInv'
<1> DEFINE new == [at |-> "execute", screen |-> s, ttl |-> ImageTtl(s), ran |-> 0, age |-> 0]
<1>1. new \in Request
  BY TtlTypes DEF Request, AgeInv
<1>2. req' = [req EXCEPT ![r] = new] /\ data' = data /\ rate' = rate
  BY DEF Begin
<1>3. TypeOK'
  BY <1>1, <1>2 DEF AgeInv, TypeOK
<1>4. Budgets'
  BY <1>2, CacheAssumption DEF AgeInv, TypeOK, Budgets
<1> QED BY <1>3, <1>4 DEF AgeInv

LEMMA ExecuteAges ==
    ASSUME AgeInv, NEW r \in Requests, Execute(r)
    PROVE  AgeInv'
<1>1. /\ req[r].screen \in Screens /\ req[r].ttl \in Nat /\ req[r].ran \in Nat
      /\ req[r].ran <= Longest
  BY DEF AgeInv, TypeOK, Budgets, Execute, Request, Idle
<1>2. CASE DataCounts
  <2> DEFINE new == [at |-> "compose", screen |-> req[r].screen, ttl |-> req[r].ttl,
                     ran |-> req[r].ran, age |-> data.age]
  <2>1. req' = [req EXCEPT ![r] = new] /\ UNCHANGED <<rate, image, data, mixed>>
    BY <1>2 DEF Execute, Continue
  <2>2. data \in DataEntry /\ data.left > 0 /\ data.age + data.left <= MaxDataTtl
    BY <1>2 DEF DataCounts, AgeInv, TypeOK, Budgets
  <2>3. data.age \in Nat /\ data.left \in Int
    BY <2>2 DEF DataEntry
  <2>4. new \in Request /\ new.age < MaxDataTtl + new.ran
    BY <1>1, <2>2, <2>3, CacheAssumption DEF Request
  <2> QED BY <1>1, <2>1, <2>4 DEF AgeInv, TypeOK, Budgets, Idle
<1>3. CASE ~DataCounts
  <2> DEFINE new == [at |-> "upstream", screen |-> req[r].screen, ttl |-> req[r].ttl,
                     ran |-> req[r].ran, age |-> 0]
  <2>1. req' = [req EXCEPT ![r] = new] /\ UNCHANGED <<rate, image, data, mixed>>
    BY <1>3 DEF Execute, Continue
  <2>2. new \in Request /\ new.age <= new.ran
    BY <1>1 DEF Request
  <2> QED BY <1>1, <2>1, <2>2 DEF AgeInv, TypeOK, Budgets, Idle
<1> QED BY <1>2, <1>3

LEMMA AnswerAges ==
    ASSUME AgeInv, NEW r \in Requests, Answer(r)
    PROVE  AgeInv'
<1>1. /\ req[r].screen \in Screens /\ req[r].ttl \in Nat /\ req[r].ran \in Nat /\ req[r].age \in Nat
      /\ req[r].ran <= Longest /\ req[r].age <= req[r].ran
  BY DEF AgeInv, TypeOK, Budgets, Answer, Request, Idle
<1> DEFINE new == [at |-> "compose", screen |-> req[r].screen, ttl |-> req[r].ttl,
                   ran |-> req[r].ran, age |-> req[r].age]
           entry == [age |-> req[r].age, left |-> DataTtl(req[r].ttl) - req[r].age]
<1>2. req' = [req EXCEPT ![r] = new] /\ data' = entry /\ UNCHANGED <<rate, image, mixed>>
  BY DEF Answer, Continue
<1>3. new \in Request /\ new.age < MaxDataTtl + new.ran
  BY <1>1, CacheAssumption DEF Request
<1>4. entry \in DataEntry /\ entry.age + entry.left <= MaxDataTtl
  BY <1>1, DataTtlBound, CacheAssumption DEF DataEntry
<1>5. TypeOK'
  BY <1>2, <1>3, <1>4 DEF AgeInv, TypeOK
<1>6. Budgets'
  BY <1>1, <1>2, <1>3, <1>4 DEF AgeInv, TypeOK, Budgets, Idle
<1> QED BY <1>5, <1>6 DEF AgeInv

LEMMA ComposeAges ==
    ASSUME AgeInv, NEW r \in Requests, Compose(r)
    PROVE  AgeInv'
<1>1. /\ req[r].screen \in Screens /\ req[r].ttl \in Nat /\ req[r].ran \in Nat /\ req[r].age \in Nat
      /\ req[r].ran <= Longest /\ req[r].age < MaxDataTtl + req[r].ran
  BY DEF AgeInv, TypeOK, Budgets, Compose, Request, Idle
<1> DEFINE entry == [age |-> req[r].age, left |-> req[r].ttl, ttl |-> req[r].ttl]
<1>2. /\ image' = [image EXCEPT ![req[r].screen] = entry]
      /\ req' = [req EXCEPT ![r] = Idle] /\ UNCHANGED <<rate, data, mixed>>
  BY DEF Compose
<1>3. entry \in ImageEntry /\ entry.left <= entry.ttl
  BY <1>1 DEF ImageEntry
<1>4. entry.age + entry.left < MaxDataTtl + Longest + entry.ttl
  BY <1>1, CacheAssumption
<1>5. TypeOK'
  BY <1>1, <1>2, <1>3 DEF AgeInv, TypeOK, Request
<1>6. Budgets'
  BY <1>1, <1>2, <1>4 DEF AgeInv, TypeOK, Budgets
<1> QED BY <1>5, <1>6 DEF AgeInv

\* A second moves from what is left to the age.
LEMMA TickAges ==
    ASSUME AgeInv, Tick
    PROVE  AgeInv'
<1>1. ASSUME NEW s \in Screens, image'[s] # Nil
      PROVE  /\ image'[s] \in ImageEntry /\ image'[s].left <= image'[s].ttl
             /\ image'[s].age + image'[s].left < MaxDataTtl + Longest + image'[s].ttl
  <2>1. image[s] \in ImageEntry /\ image[s].left <= image[s].ttl
        /\ image[s].age + image[s].left < MaxDataTtl + Longest + image[s].ttl
    BY <1>1 DEF Tick, AgeInv, TypeOK, Budgets, ImageCounts
  <2>2. image'[s] = [age |-> image[s].age + 1, left |-> image[s].left - 1, ttl |-> image[s].ttl]
    BY <1>1 DEF Tick
  <2> QED BY <2>1, <2>2, CacheAssumption DEF ImageEntry
<1>2. ASSUME data' # Nil
      PROVE  data' \in DataEntry /\ data'.age + data'.left <= MaxDataTtl
  <2>1. data \in DataEntry /\ data.age + data.left <= MaxDataTtl
    BY <1>2 DEF Tick, AgeInv, TypeOK, Budgets, DataCounts
  <2>2. data' = [age |-> data.age + 1, left |-> data.left - 1]
    BY <1>2 DEF Tick
  <2> QED BY <2>1, <2>2, CacheAssumption DEF DataEntry
<1>3. ASSUME NEW r \in Requests, req[r] # Idle
      PROVE  /\ req'[r] \in Request
             /\ req'[r].ran <= Longest
             /\ req'[r].at = "execute" => req'[r].age = 0
             /\ req'[r].at = "upstream" => req'[r].age <= req'[r].ran
             /\ req'[r].at = "compose" => req'[r].age < MaxDataTtl + req'[r].ran
  <2> DEFINE age == IF req[r].at = "execute" THEN 0 ELSE req[r].age + 1
  <2>1. req'[r] = [at |-> req[r].at, screen |-> req[r].screen, ttl |-> req[r].ttl,
                   ran |-> req[r].ran + 1, age |-> age]
    BY <1>3 DEF Tick
  <2>2. /\ req[r].at \in {"execute", "upstream", "compose"}
        /\ req[r].screen \in Screens /\ req[r].ttl \in Nat /\ req[r].ran \in Nat /\ req[r].age \in Nat
    BY <1>3 DEF AgeInv, TypeOK, Request
  <2>3. req[r].ran < Longest
    BY <1>3 DEF Tick
  <2>4. age \in Nat
    BY <2>2
  <2>5. req'[r] \in Request
    BY <2>1, <2>2, <2>4 DEF Request
  <2> QED BY <1>3, <2>1, <2>2, <2>3, <2>5, CacheAssumption DEF AgeInv, Budgets
<1>4. \A r \in Requests : req[r] = Idle => req'[r] = Idle
  BY DEF Tick
<1>5. TypeOK'
  <2>1. image' \in [Screens -> ImageEntry \cup {Nil}]
    BY <1>1 DEF Tick
  <2>2. req' \in [Requests -> Request]
    BY <1>3, <1>4 DEF Tick, Request
  <2> QED BY <1>1, <1>2, <2>1, <2>2 DEF Tick, AgeInv, TypeOK
<1>6. Budgets'
  BY <1>1, <1>2, <1>3, <1>4 DEF Budgets
<1> QED BY <1>5, <1>6 DEF AgeInv

LEMMA StepAges ==
    ASSUME AgeInv, [Next]_vars
    PROVE  AgeInv'
<1>1. ASSUME NEW r \in Requests, NEW s \in Screens, Fetch(r, s) \/ Preview(r, s)
      PROVE  AgeInv'
  <2>1. Begin(r, s) /\ image' = image /\ mixed' \in BOOLEAN
    BY <1>1 DEF Fetch, Preview, AgeInv, TypeOK
  <2> QED BY <2>1, BeginAges
<1>2. ASSUME NEW r \in Requests, Fail(r)
      PROVE  AgeInv'
  BY <1>2 DEF Fail, AgeInv, TypeOK, Budgets, Request
<1>3. ASSUME NEW s \in Screens, UpdateScreen(s)
      PROVE  AgeInv'
  BY <1>3 DEF UpdateScreen, AgeInv, TypeOK, Budgets
<1>4. ASSUME NewDay
      PROVE  AgeInv'
  BY <1>4 DEF NewDay, AgeInv, TypeOK, Budgets
<1>5. ASSUME Restart
      PROVE  AgeInv'
  BY <1>5 DEF Restart, AgeInv, TypeOK, Budgets, Request
<1>6. ASSUME UNCHANGED vars
      PROVE  AgeInv'
  BY <1>6 DEF vars, AgeInv, TypeOK, Budgets
<1> QED BY <1>1, <1>2, <1>3, <1>4, <1>5, <1>6, ExecuteAges, AnswerAges, ComposeAges, TickAges DEF Next

\* The cached images and data have the types and the lives they were given,
\* whatever the screens, their rates and the renders under way.
THEOREM CacheTypes == Spec => []TypeOK
<1>1. AgeInv => TypeOK
  BY DEF AgeInv
<1> QED BY InitAges, StepAges, <1>1, PTL DEF Spec

\* No image is served with data as old as one life of data, one render and
\* one life of the image added up, for any screens, rates, lifetimes and renders.
THEOREM AgeBounded == Spec => []ServedAge
<1>1. ASSUME AgeInv
      PROVE  ServedAge
  BY <1>1, CacheAssumption DEF AgeInv, TypeOK, Budgets, ServedAge, ImageCounts, ImageEntry
<1> QED BY InitAges, StepAges, <1>1, PTL DEF Spec

(***************************************************************************)
(* DataLapsesFirst speaks of moments at which nothing is under way; what   *)
(* leads up to them must be said of one screen that alone has been         *)
(* fetched: its renders have the life its rate gives, no data is left      *)
(* longer than that life, and once the last render is over, the image it   *)
(* has stored is left at least as long as the data.                        *)
(***************************************************************************)
AllIdle == \A r \in Requests : req[r] = Idle

Fresh ==
    /\ AllIdle /\ ~DataCounts
    /\ \A s \in Screens : image[s] = Nil

OnlyScreen(s) ==
    /\ \A t \in Screens \ {s} : image[t] = Nil
    /\ \A r \in Requests : req[r] # Idle => req[r].screen = s /\ req[r].ttl = ImageTtl(s)
    /\ DataCounts => data.left <= ImageTtl(s)
    /\ AllIdle /\ DataCounts => ImageCounts(s) /\ data.left <= image[s].left

LapseInv == mixed \/ Fresh \/ \E s \in Screens : OnlyScreen(s)

LEMMA FetchLapses ==
    ASSUME AgeInv, LapseInv, NEW r \in Requests, NEW s \in Screens, Fetch(r, s)
    PROVE  LapseInv'
<1> SUFFICES ASSUME ~mixed, ~OtherScreen(s) PROVE OnlyScreen(s)'
  BY DEF Fetch, LapseInv, AgeInv, TypeOK
<1> DEFINE new == [at |-> "execute", screen |-> s, ttl |-> ImageTtl(s), ran |-> 0, age |-> 0]
<1>1. req' = [req EXCEPT ![r] = new] /\ UNCHANGED <<rate, image, data>>
  BY DEF Fetch, Begin
<1>2. new # Idle /\ new.screen = s /\ new.ttl = ImageTtl(s)
  BY IdleIsNoRender DEF Idle
<1> HIDE DEF new
<1>3. req'[r] = new /\ ImageTtl(s)' = ImageTtl(s)
  BY <1>1 DEF AgeInv, TypeOK, ImageTtl
<1>4. ~AllIdle'
  BY <1>2, <1>3 DEF AllIdle
<1>5. /\ \A t \in Screens \ {s} : image[t] = Nil
      /\ \A q \in Requests : req[q] # Idle => req[q].screen = s
  BY DEF OtherScreen
<1>6. \A q \in Requests : req[q] # Idle => req[q].ttl = ImageTtl(s)
  BY <1>5 DEF LapseInv, Fresh, OnlyScreen, AllIdle
<1>7. DataCounts => data.left <= ImageTtl(s)
  <2>1. CASE OnlyScreen(s)
    BY <2>1 DEF OnlyScreen
  <2>2. CASE Fresh
    BY <2>2 DEF Fresh
  <2>3. ASSUME NEW t \in Screens, t # s, OnlyScreen(t)
        PROVE  ~DataCounts
    <3>1. image[t] = Nil /\ AllIdle
      BY <1>5, <2>3 DEF OnlyScreen, AllIdle
    <3> QED
      BY <2>3, <3>1 DEF OnlyScreen, ImageCounts
  <2> QED
    BY <2>1, <2>2, <2>3 DEF LapseInv
<1>8. \A q \in Requests : req'[q] # Idle => req'[q].screen = s /\ req'[q].ttl = ImageTtl(s)
  BY <1>1, <1>2, <1>5, <1>6 DEF AgeInv, TypeOK
<1> QED
  BY <1>1, <1>3, <1>4, <1>5, <1>7, <1>8 DEF OnlyScreen, DataCounts

\* A render of the only screen goes on: it is still under way, and no other
\* screen has an image.
LEMMA ContinueLapses ==
    ASSUME AgeInv, LapseInv, NEW r \in Requests, Execute(r) \/ Answer(r)
    PROVE  LapseInv'
<1> SUFFICES ASSUME ~mixed PROVE \E s \in Screens : OnlyScreen(s)'
  BY DEF Execute, Answer, LapseInv
<1>1. req[r] \in Request /\ req[r] # Idle
  BY DEF AgeInv, TypeOK, Execute, Answer, Idle
<1>2. PICK s \in Screens : OnlyScreen(s)
  BY <1>1 DEF LapseInv, Fresh, AllIdle
<1>3. req[r].screen = s /\ req[r].ttl = ImageTtl(s) /\ req[r].age \in Nat
  BY <1>1, <1>2 DEF OnlyScreen, Request
<1>4. PICK at, age :
        /\ at \in {"upstream", "compose"}
        /\ req' = [req EXCEPT ![r] = [at |-> at, screen |-> req[r].screen, ttl |-> req[r].ttl,
                                      ran |-> req[r].ran, age |-> age]]
  BY DEF Execute, Answer, Continue
<1>5. req'[r].at = at /\ req'[r].screen = s /\ req'[r].ttl = ImageTtl(s)
  BY <1>3, <1>4 DEF AgeInv, TypeOK
<1>6. req'[r] # Idle
  BY <1>4, <1>5 DEF Idle
<1>7. \A q \in Requests \ {r} : req'[q] = req[q]
  BY <1>4 DEF AgeInv, TypeOK
<1>8. image' = image /\ ImageTtl(s)' = ImageTtl(s) /\ ImageTtl(s) \in Nat
  BY TtlTypes DEF Execute, Answer, ImageTtl, AgeInv
<1>9. DataCounts' => data'.left <= ImageTtl(s)
  <2>1. CASE Execute(r)
    BY <1>2, <2>1 DEF Execute, OnlyScreen, DataCounts
  <2>2. CASE Answer(r)
    <3>1. data'.left = DataTtl(req[r].ttl) - req[r].age
      BY <2>2 DEF Answer
    <3>2. DataTtl(req[r].ttl) \in Nat /\ DataTtl(req[r].ttl) <= req[r].ttl
      BY <1>3, <1>8, CacheAssumption DEF DataTtl, Smaller
    <3> QED
      BY <1>3, <1>8, <3>1, <3>2
  <2> QED
    BY <2>1, <2>2
<1>10. ~AllIdle'
  BY <1>6 DEF AllIdle
<1>11. \A q \in Requests : req'[q] # Idle => req'[q].screen = s /\ req'[q].ttl = ImageTtl(s)
  BY <1>2, <1>5, <1>7 DEF OnlyScreen
<1> QED
  BY <1>2, <1>8, <1>9, <1>10, <1>11 DEF OnlyScreen

LEMMA ComposeLapses ==
    ASSUME AgeInv, LapseInv, NEW r \in Requests, Compose(r)
    PROVE  LapseInv'
<1> SUFFICES ASSUME ~mixed PROVE \E s \in Screens : OnlyScreen(s)'
  BY DEF Compose, LapseInv
<1>1. req[r] \in Request /\ req[r] # Idle
  BY DEF AgeInv, TypeOK, Compose, Idle
<1>2. PICK s \in Screens : OnlyScreen(s)
  BY <1>1 DEF LapseInv, Fresh, AllIdle
<1>3. req[r].screen = s /\ req[r].ttl = ImageTtl(s) /\ req[r].age \in Nat
  BY <1>1, <1>2 DEF OnlyScreen, Request
<1> DEFINE entry == [age |-> req[r].age, left |-> req[r].ttl, ttl |-> req[r].ttl]
<1>4. /\ image' = [image EXCEPT ![s] = entry] /\ req' = [req EXCEPT ![r] = Idle]
      /\ UNCHANGED <<rate, data>>
  BY <1>3 DEF Compose
<1>5. ImageTtl(s)' = ImageTtl(s) /\ ImageTtl(s) \in Nat
  BY <1>4, TtlTypes DEF ImageTtl, AgeInv
<1>6. entry \in ImageEntry /\ entry.left = ImageTtl(s)
  BY <1>3, <1>5 DEF ImageEntry
<1>7. image'[s] = entry /\ \A t \in Screens \ {s} : image'[t] = image[t]
  BY <1>4 DEF AgeInv, TypeOK
<1> HIDE DEF entry
<1>8. ImageCounts(s)' /\ image'[s].left = ImageTtl(s)
  BY <1>5, <1>6, <1>7, CacheAssumption DEF ImageCounts, ImageEntry
<1> QED
  BY <1>2, <1>4, <1>5, <1>7, <1>8 DEF OnlyScreen, DataCounts, AgeInv, TypeOK

LEMMA TickLapses ==
    ASSUME AgeInv, LapseInv, Tick
    PROVE  LapseInv'
<1> SUFFICES ASSUME ~mixed PROVE LapseInv'
  BY DEF Tick, LapseInv
<1>1. \A r \in Requests : req'[r] = Idle <=> req[r] = Idle
  BY DEF Tick, Idle, AgeInv, TypeOK, Request
<1>2. \A r \in Requests : req[r] # Idle => req'[r].screen = req[r].screen /\ req'[r].ttl = req[r].ttl
  BY DEF Tick
<1>3. \A s \in Screens : image[s] = Nil => image'[s] = Nil
  BY DEF Tick, ImageCounts
<1>4. DataCounts' => DataCounts /\ data'.left = data.left - 1
  BY CacheAssumption DEF Tick, DataCounts
<1>5. DataCounts => data.left \in Int
  BY DEF DataCounts, AgeInv, TypeOK, DataEntry
<1>6. \A s \in Screens : ImageTtl(s)' = ImageTtl(s) /\ ImageTtl(s) \in Nat
  BY TtlTypes DEF Tick, ImageTtl, AgeInv
<1>7. CASE Fresh
  BY <1>1, <1>3, <1>4, <1>7 DEF LapseInv, Fresh, AllIdle
<1>8. ASSUME NEW s \in Screens, OnlyScreen(s)
      PROVE  OnlyScreen(s)'
  <2>1. AllIdle' /\ DataCounts' => ImageCounts(s)' /\ data'.left <= image'[s].left
    <3> SUFFICES ASSUME AllIdle', DataCounts'
                 PROVE  ImageCounts(s)' /\ data'.left <= image'[s].left
      OBVIOUS
    <3>1. AllIdle
      BY <1>1 DEF AllIdle
    <3>2. ImageCounts(s) /\ data.left <= image[s].left
      BY <1>4, <1>8, <3>1 DEF OnlyScreen
    <3> DEFINE entry == [age |-> image[s].age + 1, left |-> image[s].left - 1, ttl |-> image[s].ttl]
    <3>3. image'[s] = entry
      BY <3>2 DEF Tick
    <3>4. image[s] \in ImageEntry
      BY <3>2 DEF ImageCounts, AgeInv, TypeOK
    <3>5. image[s].left \in Int /\ image[s].age \in Nat /\ image[s].ttl \in Nat
      BY <3>4 DEF ImageEntry
    <3>6. entry # Nil
      BY <3>5, CacheAssumption
    <3>7. data'.left > 0
      BY DEF DataCounts
    <3> QED
      BY <1>4, <1>5, <3>2, <3>3, <3>5, <3>6, <3>7 DEF ImageCounts
  <2>2. DataCounts' => data'.left <= ImageTtl(s)
    BY <1>4, <1>5, <1>6, <1>8 DEF OnlyScreen
  <2> QED
    BY <1>1, <1>2, <1>3, <1>6, <1>8, <2>1, <2>2 DEF OnlyScreen
<1> QED
  BY <1>7, <1>8 DEF LapseInv

\* A device that finds its image too old finds the data too old, too, for any
\* rate and lifetimes, as long as it alone fetches and every render succeeds.
THEOREM DataGoesFirst == Spec => []DataLapsesFirst
<1>1. Init => LapseInv
  BY DEF Init, LapseInv, Fresh, AllIdle, DataCounts
<1>2. ASSUME AgeInv, LapseInv, [Next]_vars
      PROVE  LapseInv'
  <2>1. ASSUME NEW r \in Requests, NEW s \in Screens, Preview(r, s)
        PROVE  LapseInv'
    BY <2>1 DEF Preview, LapseInv
  <2>2. ASSUME NEW r \in Requests, Fail(r)
        PROVE  LapseInv'
    BY <2>2 DEF Fail, LapseInv
  <2>3. ASSUME NEW s \in Screens, UpdateScreen(s)
        PROVE  LapseInv'
    BY <2>3 DEF UpdateScreen, LapseInv
  <2>4. CASE NewDay
    BY <1>2, <2>4 DEF NewDay, LapseInv, Fresh, OnlyScreen, AllIdle, DataCounts, ImageCounts, ImageTtl
  <2>5. CASE Restart
    BY <2>5 DEF Restart, LapseInv, Fresh, AllIdle, DataCounts
  <2>6. CASE UNCHANGED vars
    BY <1>2, <2>6
       DEF vars, LapseInv, Fresh, OnlyScreen, AllIdle, DataCounts, ImageCounts, ImageTtl
  <2> QED
    BY <1>2, <2>1, <2>2, <2>3, <2>4, <2>5, <2>6,
       FetchLapses, ContinueLapses, ComposeLapses, TickLapses DEF Next
<1>3. ASSUME AgeInv, LapseInv
      PROVE  DataLapsesFirst
  BY <1>3 DEF LapseInv, Fresh, OnlyScreen, AllIdle, DataLapsesFirst
<1> QED
  BY InitAges, StepAges, <1>1, <1>2, <1>3, PTL DEF Spec
=============================================================================

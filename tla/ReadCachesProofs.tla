--------------------------- MODULE ReadCachesProofs ---------------------------
(* Type correctness of ReadCaches, and the bound on how old an answer can be, for any
   lookup, times to live, requests, versions and bounds. *)
EXTENDS ReadCaches, TLAPS

(* What every key and request owes to time: a version that a request got from the
   database is out of sight for no longer than its transaction is open; one that is in
   a cache, together with the time it has left there, for no longer than when it was
   put; one that a request got from a cache, for no longer than that and the time its
   transaction is open. An uncommitted version is in sight. *)
OpenInv == \A v \in Versions : status[v] = "open" => gone[v] = 0

InnerInv == cache[2].left > 0 => gone[cache[2].v] + cache[2].left <= InnerBound

OuterInv == cache[1].left > 0 => gone[cache[1].v] + cache[1].left <= OuterBound

ReadInv(r) == request[r].at = "put inner" => gone[request[r].v] <= request[r].held

GotInv(r) ==
  request[r].at = "put outer" => gone[request[r].v] <= InnerBound + request[r].held

AnsweredInv(r) ==
  request[r].at = "answered" => gone[request[r].v] <= OuterBound + request[r].held

RequestInv == \A r \in Requests : ReadInv(r) /\ GotInv(r) /\ AnsweredInv(r)

AgeInv == CacheTypeOK /\ OpenInv /\ InnerInv /\ OuterInv /\ RequestInv

(* The bounds are natural numbers. *)
LEMMA BoundsAreNumbers ==
  ASSUME lookup \in Lookups
  PROVE  /\ TTL(1) \in Nat /\ TTL(2) \in Nat
         /\ InnerBound \in Nat /\ OuterBound \in Nat /\ Window \in Nat /\ MaxAge \in Nat
         /\ InnerBound = TTL(2) + OpenFor
         /\ OuterBound = TTL(1) + OpenFor + InnerBound
         /\ Window = OuterBound + OpenFor /\ MaxAge = Window + 1
<1>1. TTL(1) \in Nat /\ TTL(2) \in Nat
  BY ReadCachesAssumption DEF TTL
<1>2. OpenFor \in Nat
  BY ReadCachesAssumption
<1> QED BY <1>1, <1>2 DEF InnerBound, OuterBound, Window, MaxAge

(* A step of a request or of time keeps the lookup, so the bounds are what they were. *)
LEMMA BoundsStay ==
  ASSUME lookup' = lookup
  PROVE  /\ TTL(1)' = TTL(1) /\ TTL(2)' = TTL(2) /\ InnerBound' = InnerBound
         /\ OuterBound' = OuterBound /\ Window' = Window /\ MaxAge' = MaxAge
<1>1. TTL(1)' = TTL(1) /\ TTL(2)' = TTL(2)
  BY DEF TTL
<1> QED BY <1>1 DEF InnerBound, OuterBound, Window, MaxAge

(* No step changes the lookup that the behaviour follows. *)
LEMMA LookupStays == ASSUME [CacheNext]_cacheVars PROVE lookup' = lookup
BY DEF CacheNext, cacheVars, RequestStep, Begin, ChangeFact, Get, ReadDatabase, Put, CommitChange,
       RollBackChange, End, Destroy, Tick

(* A request that moves on keeps its transaction; one that got a version has it. *)
LEMMA Moves ==
  ASSUME NEW x \in RequestState, NEW a \in Stages, NEW v \in Versions
  PROVE  /\ [x EXCEPT !.at = a] \in RequestState
         /\ [x EXCEPT !.at = a].at = a /\ [x EXCEPT !.at = a].v = x.v
         /\ [x EXCEPT !.at = a].held = x.held
         /\ [x EXCEPT !.v = v, !.at = a] \in RequestState
         /\ [x EXCEPT !.v = v, !.at = a].at = a /\ [x EXCEPT !.v = v, !.at = a].v = v
         /\ [x EXCEPT !.v = v, !.at = a].held = x.held
BY DEF RequestState

(* The steps of a request named in the actions are stages. *)
LEMMA StageNames ==
  /\ "get outer" \in Stages /\ "get inner" \in Stages /\ "read" \in Stages
  /\ "put inner" \in Stages /\ "put outer" \in Stages /\ "answered" \in Stages
BY DEF Stages

(* Order of the naturals, used where an age can only have shrunk. *)
LEMMA Younger == \A a, b, c \in Nat : a <= b /\ b <= c => a <= c
OBVIOUS

(* An age that grew by at most one stays below a bound that grew by one. *)
LEMMA TickOlder == \A a, b, c \in Nat : a <= b + 1 /\ b <= c => a <= c + 1
OBVIOUS

(* The outer and the inner key are two keys. *)
LEMMA TwoKeys == 2 # 1 /\ 1 \in 1 .. 2 /\ 2 \in 1 .. 2
OBVIOUS

(* A request whose transaction just began is in a state of a request. *)
LEMMA Started ==
  ASSUME NEW x \in RequestState, NEW a \in Stages, NEW h \in 0 .. OpenFor
  PROVE  [x EXCEPT !.at = a, !.held = h] \in RequestState
BY DEF RequestState

(* What the assumption on the constants gives as numbers. *)
LEMMA Numbers ==
  /\ OpenFor \in Nat /\ OpenFor >= 1 /\ MaxVersions \in Nat /\ MaxVersions >= 1
  /\ 0 \in Versions /\ 1 \in Versions
BY ReadCachesAssumption DEF Versions

(* A request at rest and an empty entry have their types. *)
LEMMA IdleIsAState == Idle \in RequestState /\ Idle.at = "idle" /\ Empty \in Entry /\ Empty.left = 0
BY Numbers DEF Idle, RequestState, Stages, Empty, Entry

(* At the start the caches are empty and no request is under way. *)
LEMMA InitAgeInv == CacheInit => AgeInv
<1> SUFFICES ASSUME CacheInit PROVE AgeInv
  OBVIOUS
<1>1. lookup \in Lookups
  BY DEF CacheInit
<1>2. MaxAge \in Nat /\ OpenFor + 1 <= MaxAge
  BY <1>1, BoundsAreNumbers, Numbers
<1>3. CacheTypeOK
  <2>1. current \in Versions /\ writer \in Requests \cup {NoWriter}
    BY Numbers DEF CacheInit
  <2>2. status \in [Versions -> {"none", "open", "committed", "aborted"}]
    BY DEF CacheInit
  <2>3. gone \in [Versions -> 0 .. MaxAge]
    BY <1>2, Numbers DEF CacheInit
  <2>4. cache \in [1 .. 2 -> Entry] /\ request \in [Requests -> RequestState]
    BY IdleIsAState DEF CacheInit
  <2> QED BY <1>1, <2>1, <2>2, <2>3, <2>4 DEF CacheTypeOK
<1>4. OpenInv
  BY DEF CacheInit, OpenInv
<1>5. InnerInv /\ OuterInv
  BY DEF CacheInit, InnerInv, OuterInv, Empty
<1>6. RequestInv
  BY DEF CacheInit, RequestInv, ReadInv, GotInv, AnsweredInv, Idle
<1> QED BY <1>3, <1>4, <1>5, <1>6 DEF AgeInv

(* The step of a request that touches neither the caches nor any age: what is left to show
   is that the request keeps its own promise. *)
LEMMA RequestAlone ==
  ASSUME AgeInv, CacheTypeOK', NEW r \in Requests,
         UNCHANGED <<lookup, gone, cache>>,
         \A v \in Versions : status'[v] = "open" => status[v] = "open",
         \A q \in Requests \ {r} : request'[q] = request[q],
         ReadInv(r)', GotInv(r)', AnsweredInv(r)'
  PROVE  AgeInv'
<1> USE DEF AgeInv
<1>1. InnerBound' = InnerBound /\ OuterBound' = OuterBound
  BY BoundsStay
<1>2. OpenInv'
  BY DEF OpenInv
<1>3. InnerInv' /\ OuterInv'
  BY <1>1 DEF InnerInv, OuterInv
<1>4. RequestInv'
  <2> SUFFICES ASSUME NEW q \in Requests PROVE (ReadInv(q) /\ GotInv(q) /\ AnsweredInv(q))'
    BY DEF RequestInv
  <2>1. CASE q = r BY <2>1
  <2>2. CASE q # r
    <3>1. request'[q] = request[q] BY <2>2
    <3> QED BY <3>1, <1>1 DEF RequestInv, ReadInv, GotInv, AnsweredInv
  <2> QED BY <2>1, <2>2
<1> QED BY <1>2, <1>3, <1>4

(* Type correctness of each step. *)
LEMMA NextTypeOK ==
  ASSUME CacheTypeOK, [CacheNext]_cacheVars
  PROVE  CacheTypeOK'
<1>1. lookup' = lookup /\ lookup \in Lookups
  BY LookupStays DEF CacheTypeOK
<1>2. MaxAge' = MaxAge /\ MaxAge \in Nat /\ TTL(1) \in Nat /\ TTL(2) \in Nat
  BY <1>1, BoundsStay, BoundsAreNumbers
<1>3. ASSUME UNCHANGED <<status, current, writer, gone>>,
             cache' \in [1 .. 2 -> Entry], request' \in [Requests -> RequestState]
      PROVE  CacheTypeOK'
  BY <1>1, <1>2, <1>3 DEF CacheTypeOK
<1>4. ASSUME NEW r \in Requests, Begin(r) PROVE CacheTypeOK'
  <2>1. PICK h \in 0 .. OpenFor - 1 :
          request' = [request EXCEPT ![r] = [Idle EXCEPT !.at = "get outer", !.held = h]]
    BY <1>4 DEF Begin
  <2>2. [Idle EXCEPT !.at = "get outer", !.held = h] \in RequestState
    <3>1. h \in 0 .. OpenFor
      BY Numbers
    <3> QED BY <3>1, IdleIsAState, StageNames, Started
  <2>3. request' \in [Requests -> RequestState]
    BY <2>1, <2>2 DEF CacheTypeOK
  <2> QED BY <1>3, <1>4, <2>3 DEF Begin, CacheTypeOK
<1>5. ASSUME NEW r \in Requests, ChangeFact(r) PROVE CacheTypeOK'
  <2>1. gone' \in [Versions -> 0 .. MaxAge]
    <3>1. PICK v \in Versions : gone' = [gone EXCEPT ![v] = 0]
      BY <1>5 DEF ChangeFact
    <3>2. 0 \in 0 .. MaxAge
      BY <1>2
    <3> QED BY <3>1, <3>2 DEF CacheTypeOK
  <2>2. status' \in [Versions -> {"none", "open", "committed", "aborted"}]
    BY <1>5 DEF CacheTypeOK, ChangeFact
  <2> QED BY <1>1, <1>2, <1>5, <2>1, <2>2 DEF CacheTypeOK, ChangeFact
<1>6. ASSUME NEW r \in Requests, NEW k \in 1 .. 2, Get(r, k) PROVE CacheTypeOK'
  <2>1. request[r] \in RequestState /\ cache[k].v \in Versions
    BY DEF CacheTypeOK, Entry
  <2>2. request' \in [Requests -> RequestState]
    <3>1. "answered" \in Stages /\ "put outer" \in Stages /\ "get inner" \in Stages /\ "read" \in Stages
      BY DEF Stages
    <3>2. (IF cache[k].left > 0
           THEN [request[r] EXCEPT !.v = cache[k].v, !.at = IF k = 1 THEN "answered" ELSE "put outer"]
           ELSE [request[r] EXCEPT !.at = IF k = 1 THEN "get inner" ELSE "read"]) \in RequestState
      BY <2>1, <3>1, Moves
    <3> QED BY <1>6, <3>2 DEF Get, CacheTypeOK
  <2> QED BY <1>3, <1>6, <2>2 DEF Get, CacheTypeOK
<1>7. ASSUME NEW r \in Requests, ReadDatabase(r) PROVE CacheTypeOK'
  <2>1. PICK v \in Readable(r) :
          request' = [request EXCEPT ![r] = [@ EXCEPT !.v = v, !.at = "put inner"]]
    BY <1>7 DEF ReadDatabase
  <2>2. request[r] \in RequestState /\ v \in Versions /\ "put inner" \in Stages
    BY DEF CacheTypeOK, Readable, Stages
  <2>3. [request[r] EXCEPT !.v = v, !.at = "put inner"] \in RequestState
    BY <2>2, Moves
  <2>4. request' \in [Requests -> RequestState]
    BY <2>1, <2>3 DEF CacheTypeOK
  <2> QED BY <1>3, <1>7, <2>4 DEF ReadDatabase, CacheTypeOK
<1>8. ASSUME NEW r \in Requests, NEW k \in 1 .. 2, Put(r, k) PROVE CacheTypeOK'
  <2>1. request[r] \in RequestState /\ request[r].v \in Versions
    BY DEF CacheTypeOK, RequestState
  <2>2. TTL(k) \in Nat
    BY <1>2
  <2>3. [v |-> request[r].v, left |-> TTL(k)] \in Entry
    BY <2>1, <2>2 DEF Entry
  <2>4. cache' \in [1 .. 2 -> Entry]
    BY <1>8, <2>3 DEF Put, Stored, CacheTypeOK
  <2>5. "answered" \in Stages /\ "put outer" \in Stages
    BY DEF Stages
  <2>6. [request[r] EXCEPT !.at = IF k = 1 THEN "answered" ELSE "put outer"] \in RequestState
    BY <2>1, <2>5, Moves
  <2>7. request' \in [Requests -> RequestState]
    BY <1>8, <2>6 DEF Put, CacheTypeOK
  <2> QED BY <1>3, <1>8, <2>4, <2>7 DEF Put
<1>9. ASSUME NEW r \in Requests, CommitChange(r) \/ RollBackChange(r) \/ End(r) PROVE CacheTypeOK'
  <2>1. request' \in [Requests -> RequestState]
    BY <1>9, IdleIsAState DEF CommitChange, RollBackChange, End, CacheTypeOK
  <2>2. status' \in [Versions -> {"none", "open", "committed", "aborted"}]
    BY <1>9 DEF CommitChange, RollBackChange, End, CacheTypeOK
  <2>3. current' \in Versions /\ writer' \in Requests \cup {NoWriter} /\ UNCHANGED <<gone, cache>>
    BY <1>9 DEF CommitChange, RollBackChange, End, CacheTypeOK
  <2> QED BY <1>1, <1>2, <2>1, <2>2, <2>3 DEF CacheTypeOK
<1>10. ASSUME Destroy PROVE CacheTypeOK'
  <2>1. cache' \in [1 .. 2 -> Entry]
    BY <1>10, IdleIsAState DEF Destroy
  <2> QED BY <1>3, <1>10, <2>1 DEF Destroy, CacheTypeOK
<1>11. ASSUME Tick PROVE CacheTypeOK'
  <2>1. gone' \in [Versions -> 0 .. MaxAge]
    <3>1. ASSUME NEW v \in Versions PROVE gone'[v] \in 0 .. MaxAge
      BY <1>2, <1>11 DEF CacheTypeOK, Tick
    <3>2. gone' = [v \in Versions |-> gone'[v]]
      BY <1>11 DEF Tick
    <3> QED BY <3>1, <3>2
  <2>2. cache' \in [1 .. 2 -> Entry]
    <3>1. ASSUME NEW e \in Entry PROVE Older(e) \in Entry
      <4>1. CASE e.left <= 1 BY <4>1, IdleIsAState DEF Older
      <4>2. CASE ~(e.left <= 1)
        <5>1. e.left \in Nat /\ e.left - 1 \in Nat BY <4>2 DEF Entry
        <5> QED BY <4>2, <5>1 DEF Older, Entry
      <4> QED BY <4>1, <4>2
    <3> QED BY <1>11, <3>1 DEF CacheTypeOK, Tick
  <2>3. request' \in [Requests -> RequestState]
    <3>1. ASSUME NEW r \in Requests, request[r].at # "idle"
          PROVE  [request[r] EXCEPT !.held = @ + 1] \in RequestState
      <4>1. request[r] \in RequestState /\ request[r].held < OpenFor
        BY <1>11, <3>1 DEF CacheTypeOK, Tick
      <4>2. request[r].held + 1 \in 0 .. OpenFor
        BY <4>1, Numbers DEF RequestState
      <4> QED BY <4>1, <4>2 DEF RequestState
    <3> QED BY <1>11, <3>1 DEF CacheTypeOK, Tick
  <2> QED BY <1>1, <1>2, <1>11, <2>1, <2>2, <2>3 DEF CacheTypeOK, Tick
<1>12. ASSUME UNCHANGED cacheVars PROVE CacheTypeOK'
  BY <1>3, <1>12 DEF CacheTypeOK, cacheVars
<1> QED
  BY <1>4, <1>5, <1>6, <1>7, <1>8, <1>9, <1>10, <1>11, <1>12
  DEF CacheNext, RequestStep

(* Each step keeps the ages within their bounds. *)
LEMMA NextAgeInv ==
  ASSUME AgeInv, [CacheNext]_cacheVars
  PROVE  AgeInv'
<1>1. CacheTypeOK /\ CacheTypeOK'
  BY NextTypeOK DEF AgeInv
<1>2. lookup' = lookup /\ lookup \in Lookups
  BY <1>1, LookupStays DEF CacheTypeOK
<1>3. /\ InnerBound' = InnerBound /\ OuterBound' = OuterBound
      /\ InnerBound \in Nat /\ OuterBound \in Nat /\ TTL(1) \in Nat /\ TTL(2) \in Nat
      /\ InnerBound = TTL(2) + OpenFor
      /\ OuterBound = TTL(1) + OpenFor + InnerBound
  BY <1>2, BoundsStay, BoundsAreNumbers
<1>4. OpenFor \in Nat \ {0}
  BY ReadCachesAssumption
<1>5. /\ \A v \in Versions : gone[v] \in Nat
      /\ \A r \in Requests : /\ request[r] \in RequestState /\ request[r].v \in Versions
                              /\ request[r].held \in 0 .. OpenFor
      /\ \A k \in 1 .. 2 : cache[k].v \in Versions /\ cache[k].left \in Nat
  <2>1. MaxAge \in Nat
    BY <1>2, BoundsAreNumbers
  <2>2. \A v \in Versions : gone[v] \in Nat
    BY <1>1, <2>1 DEF CacheTypeOK
  <2> QED BY <1>1, <2>2 DEF CacheTypeOK, RequestState, Entry
<1>6. ASSUME NEW r \in Requests, Begin(r) PROVE AgeInv'
  <2>1. request'[r].at = "get outer"
    BY <1>1, <1>6 DEF CacheTypeOK, Begin, Idle
  <2> QED BY <1>1, <1>6, <2>1, RequestAlone DEF Begin, ReadInv, GotInv, AnsweredInv, CacheTypeOK
<1>7. ASSUME NEW r \in Requests, ChangeFact(r) PROVE AgeInv'
  <2>1. \A v \in Versions : gone'[v] \in {gone[v], 0} /\ (status'[v] = "open" => gone'[v] = 0)
    BY <1>1, <1>7 DEF CacheTypeOK, ChangeFact, AgeInv, OpenInv
  <2>2. \A v \in Versions : gone'[v] <= gone[v] /\ gone'[v] \in Nat
    BY <2>1, <1>5
  <2>3. UNCHANGED <<cache, request>>
    BY <1>7 DEF ChangeFact
  <2>4. InnerInv' /\ OuterInv'
    BY <1>3, <1>5, <2>2, <2>3 DEF AgeInv, InnerInv, OuterInv
  <2>5. RequestInv'
    <3> SUFFICES ASSUME NEW q \in Requests PROVE (ReadInv(q) /\ GotInv(q) /\ AnsweredInv(q))'
      BY DEF RequestInv
    <3>1. /\ gone'[request[q].v] <= gone[request[q].v]
          /\ gone'[request[q].v] \in Nat /\ gone[request[q].v] \in Nat
          /\ request[q].held \in Nat /\ InnerBound + request[q].held \in Nat
      BY <1>3, <1>5, <2>2
    <3>2. ReadInv(q) /\ GotInv(q) /\ AnsweredInv(q)
      BY DEF AgeInv, RequestInv
    <3>3. ReadInv(q)'
      <4> SUFFICES ASSUME request[q].at = "put inner"
                   PROVE  gone'[request[q].v] <= request[q].held
        BY <2>3 DEF ReadInv
      <4>1. gone[request[q].v] <= request[q].held
        BY <3>2 DEF ReadInv
      <4> QED BY <3>1, <4>1, Younger
    <3>4. GotInv(q)'
      <4> SUFFICES ASSUME request[q].at = "put outer"
                   PROVE  gone'[request[q].v] <= InnerBound + request[q].held
        BY <1>3, <2>3 DEF GotInv
      <4>1. gone[request[q].v] <= InnerBound + request[q].held
        BY <3>2 DEF GotInv
      <4> QED BY <3>1, <4>1, Younger
    <3>5. AnsweredInv(q)'
      BY <1>3, <2>3, <3>1, <3>2 DEF AnsweredInv
    <3> QED BY <3>3, <3>4, <3>5
  <2> QED BY <1>1, <2>1, <2>4, <2>5 DEF AgeInv, OpenInv
<1>8. ASSUME NEW r \in Requests, Get(r, 1) PROVE AgeInv'
  <2>1. CASE cache[1].left > 0
    <3>1. request'[r].at = "answered" /\ request'[r].v = cache[1].v /\ request'[r].held = request[r].held
      <4>1. request' = [request EXCEPT ![r] = [request[r] EXCEPT !.v = cache[1].v, !.at = "answered"]]
        BY <1>8, <2>1 DEF Get
      <4>2. request'[r] = [request[r] EXCEPT !.v = cache[1].v, !.at = "answered"]
        BY <1>1, <4>1 DEF CacheTypeOK
      <4> QED BY <1>5, <4>2 DEF RequestState
    <3>2. gone[cache[1].v] <= OuterBound + request[r].held
      BY <1>3, <1>5, <2>1 DEF AgeInv, OuterInv
    <3> QED BY <1>1, <1>3, <1>8, <3>1, <3>2, RequestAlone
        DEF Get, ReadInv, GotInv, AnsweredInv, CacheTypeOK
  <2>2. CASE ~(cache[1].left > 0)
    <3>1. request'[r].at = "get inner"
      <4>1. request' = [request EXCEPT ![r] = [request[r] EXCEPT !.at = "get inner"]]
        BY <1>8, <2>2 DEF Get
      <4>2. request'[r] = [request[r] EXCEPT !.at = "get inner"]
        BY <1>1, <4>1 DEF CacheTypeOK
      <4> QED BY <1>5, <4>2 DEF RequestState
    <3> QED BY <1>1, <1>8, <3>1, RequestAlone DEF Get, ReadInv, GotInv, AnsweredInv, CacheTypeOK
  <2> QED BY <2>1, <2>2
<1>9. ASSUME NEW r \in Requests, Get(r, 2) PROVE AgeInv'
  <2>1. CASE cache[2].left > 0
    <3>1. request'[r].at = "put outer" /\ request'[r].v = cache[2].v /\ request'[r].held = request[r].held
      <4>1. request' = [request EXCEPT ![r] = [request[r] EXCEPT !.v = cache[2].v, !.at = "put outer"]]
        BY <1>9, <2>1, TwoKeys DEF Get
      <4>2. request'[r] = [request[r] EXCEPT !.v = cache[2].v, !.at = "put outer"]
        BY <1>1, <4>1 DEF CacheTypeOK
      <4> QED BY <1>5, <4>2 DEF RequestState
    <3>2. gone[cache[2].v] <= InnerBound + request[r].held
      BY <1>3, <1>5, <2>1 DEF AgeInv, InnerInv
    <3> QED BY <1>1, <1>3, <1>9, <3>1, <3>2, RequestAlone
        DEF Get, ReadInv, GotInv, AnsweredInv, CacheTypeOK
  <2>2. CASE ~(cache[2].left > 0)
    <3>1. request'[r].at = "read"
      <4>1. request' = [request EXCEPT ![r] = [request[r] EXCEPT !.at = "read"]]
        BY <1>9, <2>2, TwoKeys DEF Get
      <4>2. request'[r] = [request[r] EXCEPT !.at = "read"]
        BY <1>1, <4>1 DEF CacheTypeOK
      <4> QED BY <1>5, <4>2 DEF RequestState
    <3> QED BY <1>1, <1>9, <3>1, RequestAlone DEF Get, ReadInv, GotInv, AnsweredInv, CacheTypeOK
  <2> QED BY <2>1, <2>2
<1>10. ASSUME NEW r \in Requests, ReadDatabase(r) PROVE AgeInv'
  <2>1. PICK v \in Readable(r) :
          request' = [request EXCEPT ![r] = [@ EXCEPT !.v = v, !.at = "put inner"]]
    BY <1>10 DEF ReadDatabase
  <2>2. v \in Versions /\ gone[v] <= request[r].held
    BY <1>5 DEF Readable, AgeInv, OpenInv
  <2>3. request'[r].at = "put inner" /\ request'[r].v = v /\ request'[r].held = request[r].held
    BY <1>1, <2>1 DEF CacheTypeOK
  <2> QED BY <1>1, <1>10, <2>1, <2>2, <2>3, RequestAlone
      DEF ReadDatabase, ReadInv, GotInv, AnsweredInv, CacheTypeOK
<1>11. ASSUME NEW r \in Requests, Put(r, 2) PROVE AgeInv'
  <2>1. gone[request[r].v] <= request[r].held
    <3>1. request[r].at = "put inner"
      BY <1>11, TwoKeys DEF Put
    <3> QED BY <3>1 DEF AgeInv, RequestInv, ReadInv
  <2>2. /\ UNCHANGED <<status, gone>>
        /\ cache'[1] = cache[1]
        /\ cache'[2] \in {cache[2], [v |-> request[r].v, left |-> TTL(2)]}
    <3>1. cache' \in {cache, [cache EXCEPT ![2] = [v |-> request[r].v, left |-> TTL(2)]]}
      BY <1>11, TwoKeys DEF Put, Stored
    <3> QED BY <1>1, <1>11, <3>1, TwoKeys DEF Put, CacheTypeOK
  <2>3. /\ request'[r].at = "put outer" /\ request'[r].v = request[r].v
        /\ request'[r].held = request[r].held
        /\ \A q \in Requests \ {r} : request'[q] = request[q]
    <3>1. request' = [request EXCEPT ![r] = [request[r] EXCEPT !.at = "put outer"]]
      BY <1>11, TwoKeys DEF Put
    <3>2. request'[r] = [request[r] EXCEPT !.at = "put outer"]
      BY <1>1, <3>1 DEF CacheTypeOK
    <3>3. \A q \in Requests \ {r} : request'[q] = request[q]
      BY <1>1, <3>1 DEF CacheTypeOK
    <3> QED BY <1>5, <3>2, <3>3 DEF RequestState
  <2>4. OpenInv' /\ OuterInv'
    BY <1>3, <2>2 DEF AgeInv, OpenInv, OuterInv
  <2>5. InnerInv'
    <3>1. CASE cache'[2] = cache[2]
      BY <1>3, <2>2, <3>1 DEF AgeInv, InnerInv
    <3>2. CASE cache'[2] = [v |-> request[r].v, left |-> TTL(2)]
      BY <1>3, <1>4, <1>5, <2>1, <2>2, <3>2 DEF InnerInv
    <3> QED BY <2>2, <3>1, <3>2
  <2>6. RequestInv'
    <3> SUFFICES ASSUME NEW q \in Requests PROVE (ReadInv(q) /\ GotInv(q) /\ AnsweredInv(q))'
      BY DEF RequestInv
    <3>1. CASE q = r
      <4>1. gone[request[r].v] <= InnerBound + request[r].held
        BY <1>3, <1>5, <2>1
      <4> QED BY <1>3, <2>2, <2>3, <3>1, <4>1 DEF ReadInv, GotInv, AnsweredInv
    <3>2. CASE q # r
      <4>1. request'[q] = request[q] BY <2>3, <3>2
      <4> QED BY <1>3, <2>2, <4>1 DEF AgeInv, RequestInv, ReadInv, GotInv, AnsweredInv
    <3> QED BY <3>1, <3>2
  <2> QED BY <1>1, <2>4, <2>5, <2>6 DEF AgeInv
<1>12. ASSUME NEW r \in Requests, Put(r, 1) PROVE AgeInv'
  <2>1. gone[request[r].v] <= InnerBound + request[r].held
    BY <1>12 DEF AgeInv, RequestInv, GotInv, Put
  <2>2. /\ UNCHANGED <<status, gone>>
        /\ cache'[2] = cache[2]
        /\ cache'[1] \in {cache[1], [v |-> request[r].v, left |-> TTL(1)]}
    <3>1. cache' \in {cache, [cache EXCEPT ![1] = [v |-> request[r].v, left |-> TTL(1)]]}
      BY <1>12 DEF Put, Stored
    <3> QED BY <1>1, <1>12, <3>1, TwoKeys DEF Put, CacheTypeOK
  <2>3. /\ request'[r].at = "answered" /\ request'[r].v = request[r].v
        /\ request'[r].held = request[r].held
        /\ \A q \in Requests \ {r} : request'[q] = request[q]
    <3>1. request' = [request EXCEPT ![r] = [request[r] EXCEPT !.at = "answered"]]
      BY <1>12 DEF Put
    <3>2. request'[r] = [request[r] EXCEPT !.at = "answered"]
      BY <1>1, <3>1 DEF CacheTypeOK
    <3>3. \A q \in Requests \ {r} : request'[q] = request[q]
      BY <1>1, <3>1 DEF CacheTypeOK
    <3> QED BY <1>5, <3>2, <3>3 DEF RequestState
  <2>4. OpenInv' /\ InnerInv'
    BY <1>3, <2>2 DEF AgeInv, OpenInv, InnerInv
  <2>5. OuterInv'
    <3>1. CASE cache'[1] = cache[1]
      BY <1>3, <2>2, <3>1 DEF AgeInv, OuterInv
    <3>2. CASE cache'[1] = [v |-> request[r].v, left |-> TTL(1)]
      BY <1>3, <1>4, <1>5, <2>1, <2>2, <3>2 DEF OuterInv
    <3> QED BY <2>2, <3>1, <3>2
  <2>6. RequestInv'
    <3> SUFFICES ASSUME NEW q \in Requests PROVE (ReadInv(q) /\ GotInv(q) /\ AnsweredInv(q))'
      BY DEF RequestInv
    <3>1. CASE q = r
      <4>1. gone[request[r].v] <= OuterBound + request[r].held
        BY <1>3, <1>4, <1>5, <2>1
      <4> QED BY <1>3, <2>2, <2>3, <3>1, <4>1 DEF ReadInv, GotInv, AnsweredInv
    <3>2. CASE q # r
      <4>1. request'[q] = request[q] BY <2>3, <3>2
      <4> QED BY <1>3, <2>2, <4>1 DEF AgeInv, RequestInv, ReadInv, GotInv, AnsweredInv
    <3> QED BY <3>1, <3>2
  <2> QED BY <1>1, <2>4, <2>5, <2>6 DEF AgeInv
<1>13. ASSUME NEW r \in Requests, CommitChange(r) \/ RollBackChange(r) \/ End(r) PROVE AgeInv'
  <2>1. /\ request'[r].at = "idle" /\ UNCHANGED <<lookup, gone, cache>>
        /\ \A q \in Requests \ {r} : request'[q] = request[q]
    BY <1>1, <1>13 DEF CacheTypeOK, CommitChange, RollBackChange, End, Idle
  <2>2. \A v \in Versions : status'[v] = "open" => status[v] = "open"
    BY <1>1, <1>13 DEF CacheTypeOK, CommitChange, RollBackChange, End
  <2> QED BY <1>1, <2>1, <2>2, RequestAlone DEF ReadInv, GotInv, AnsweredInv
<1>14. ASSUME Destroy PROVE AgeInv'
  <2>1. cache'[1].left = 0 /\ cache'[2].left = 0 /\ UNCHANGED <<status, gone, request>>
    BY <1>14 DEF Destroy, Empty
  <2>2. InnerInv' /\ OuterInv'
    BY <2>1 DEF InnerInv, OuterInv
  <2> QED BY <1>1, <1>3, <2>1, <2>2
      DEF AgeInv, OpenInv, RequestInv, ReadInv, GotInv, AnsweredInv
<1>15. ASSUME Tick PROVE AgeInv'
  <2>1. \A v \in Versions : gone'[v] \in {gone[v], gone[v] + 1}
    BY <1>1, <1>15 DEF CacheTypeOK, Tick
  <2>2. OpenInv'
    BY <1>1, <1>15 DEF CacheTypeOK, Tick, Ages, AgeInv, OpenInv
  <2>3. \A k \in 1 .. 2 : cache'[k].left > 0 =>
          /\ cache[k].left > 0 /\ cache'[k].v = cache[k].v /\ cache'[k].left = cache[k].left - 1
    <3> SUFFICES ASSUME NEW k \in 1 .. 2, cache'[k].left > 0
                 PROVE  /\ cache[k].left > 0 /\ cache'[k].v = cache[k].v
                        /\ cache'[k].left = cache[k].left - 1
      OBVIOUS
    <3>1. cache[k] \in Entry /\ cache'[k] = Older(cache[k])
      BY <1>1, <1>15 DEF CacheTypeOK, Tick
    <3>2. ~(cache[k].left <= 1)
      BY <3>1, IdleIsAState DEF Older
    <3>3. cache'[k] = [cache[k] EXCEPT !.left = @ - 1]
      BY <3>1, <3>2 DEF Older
    <3> QED BY <1>5, <3>1, <3>2, <3>3 DEF Entry
  <2>4. InnerInv' /\ OuterInv'
    BY <1>3, <1>5, <2>1, <2>3 DEF AgeInv, InnerInv, OuterInv
  <2>5. \A r \in Requests : request'[r].at # "idle" =>
          /\ request'[r].at = request[r].at /\ request'[r].v = request[r].v
          /\ request'[r].held = request[r].held + 1
    <3> SUFFICES ASSUME NEW r \in Requests, request'[r].at # "idle"
                 PROVE  /\ request'[r].at = request[r].at /\ request'[r].v = request[r].v
                        /\ request'[r].held = request[r].held + 1
      OBVIOUS
    <3>1. request'[r] = [request[r] EXCEPT !.held = @ + 1]
      BY <1>1, <1>15 DEF CacheTypeOK, Tick
    <3> QED BY <1>5, <3>1 DEF RequestState
  <2>6. RequestInv'
    <3> SUFFICES ASSUME NEW r \in Requests PROVE (ReadInv(r) /\ GotInv(r) /\ AnsweredInv(r))'
      BY DEF RequestInv
    <3>1. CASE request'[r].at = "idle"
      BY <3>1 DEF ReadInv, GotInv, AnsweredInv
    <3>2. CASE request'[r].at # "idle"
      <4>1. /\ gone'[request[r].v] <= gone[request[r].v] + 1
            /\ gone'[request[r].v] \in Nat /\ gone[request[r].v] \in Nat
            /\ request[r].held \in Nat /\ InnerBound + request[r].held \in Nat
            /\ InnerBound + (request[r].held + 1) = (InnerBound + request[r].held) + 1
        BY <1>3, <1>5, <2>1
      <4>2. /\ request'[r].at = request[r].at /\ request'[r].v = request[r].v
            /\ request'[r].held = request[r].held + 1
        BY <2>5, <3>2
      <4>3. ReadInv(r) /\ GotInv(r) /\ AnsweredInv(r)
        BY DEF AgeInv, RequestInv
      <4>4. ReadInv(r)'
        <5> SUFFICES ASSUME request[r].at = "put inner"
                     PROVE  gone'[request[r].v] <= request[r].held + 1
          BY <4>2 DEF ReadInv
        <5>1. gone[request[r].v] <= request[r].held
          BY <4>3 DEF ReadInv
        <5> QED BY <4>1, <5>1, TickOlder
      <4>5. GotInv(r)'
        <5> SUFFICES ASSUME request[r].at = "put outer"
                     PROVE  gone'[request[r].v] <= InnerBound + (request[r].held + 1)
          BY <1>3, <4>2 DEF GotInv
        <5>1. gone[request[r].v] <= InnerBound + request[r].held
          BY <4>3 DEF GotInv
        <5> QED BY <4>1, <5>1, TickOlder
      <4>6. AnsweredInv(r)'
        BY <1>3, <4>1, <4>2, <4>3 DEF AnsweredInv
      <4> QED BY <4>4, <4>5, <4>6
    <3> QED BY <3>1, <3>2
  <2> QED BY <1>1, <2>2, <2>4, <2>6 DEF AgeInv
<1>16. ASSUME UNCHANGED cacheVars PROVE AgeInv'
  BY <1>1, <1>3, <1>16 DEF cacheVars, AgeInv, OpenInv, InnerInv, OuterInv, RequestInv, ReadInv,
     GotInv, AnsweredInv
<1> QED
  BY <1>6, <1>7, <1>8, <1>9, <1>10, <1>11, <1>12, <1>13, <1>14, <1>15, <1>16
  DEF CacheNext, RequestStep

(* The ages of what is cached and of what requests have got keep to their bounds. *)
THEOREM AgesAreBounded == CacheSpec => []AgeInv
BY InitAgeInv, NextAgeInv, PTL DEF CacheSpec

(* Caches, requests and versions keep their types whatever the times to live are. *)
THEOREM TypeCorrect == CacheSpec => []CacheTypeOK
<1>1. AgeInv => CacheTypeOK
  BY DEF AgeInv
<1> QED BY <1>1, AgesAreBounded, PTL

(* No answer of GetRowPermission and its like is from a version that went out of sight
   more than Window ago: the two times to live and three times what a transaction may stay
   open, for any number of requests and any order of lookups, writes and rollbacks. *)
THEOREM StalenessIsBounded == CacheSpec => []AnswerWithinWindow
<1>1. AgeInv => AnswerWithinWindow
  <2> SUFFICES ASSUME AgeInv, NEW r \in Requests, request[r].at = "answered"
               PROVE  gone[request[r].v] <= Window
    BY DEF AnswerWithinWindow
  <2>1. gone[request[r].v] <= OuterBound + request[r].held
    BY DEF AgeInv, RequestInv, AnsweredInv
  <2>2. /\ lookup \in Lookups /\ request[r].held \in 0 .. OpenFor
        /\ request[r].v \in Versions
    BY DEF AgeInv, CacheTypeOK, RequestState
  <2>3. OuterBound \in Nat /\ Window = OuterBound + OpenFor /\ MaxAge \in Nat
    BY <2>2, BoundsAreNumbers
  <2>4. gone[request[r].v] \in Nat /\ OpenFor \in Nat
    BY <2>2, <2>3, ReadCachesAssumption DEF AgeInv, CacheTypeOK
  <2> QED BY <2>1, <2>2, <2>3, <2>4
<1> QED BY <1>1, AgesAreBounded, PTL
=============================================================================

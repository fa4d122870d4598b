------------------------------ MODULE ReadCaches ------------------------------
(* What the server reads about users, permissions, actions and settings goes
   through the caches of Olric: a lookup asks its key, on a miss it reads the
   database (or another lookup that has a key of its own), and stores what it got
   with a time to live and NX. Nothing in a write path removes a key; only
   become_admin destroys the whole map, after its commit.

   One fact of the database is followed, as versions 0, 1, 2 ...: version 0 says
   that there is no such row. A lookup has at most two keys, one over the other.
   The transactions that fill the caches may see what they wrote themselves, and
   may yet be rolled back. *)
EXTENDS Integers

CONSTANTS Requests,     \* requests and actions, each with a transaction
          Lookups,      \* the lookups to follow, one in a behaviour
          Ticks(_),     \* a time to live in seconds as ticks of the model's clock
          OpenFor,      \* bound: ticks a transaction stays open
          MaxVersions   \* bound on the versions of the fact

ASSUME ReadCachesAssumption ==
  /\ OpenFor \in Nat \ {0}
  /\ MaxVersions \in Nat \ {0}
  /\ \A l \in Lookups : Ticks(l.outer.ttl) \in Nat /\ Ticks(l.inner.ttl) \in Nat

(* A key: its time to live in seconds, and whether "there is no such row" is
   stored like an answer. Uncached: the lookup below is the database. *)
Key(ttl, storesMiss) == [ttl |-> ttl, storesMiss |-> storesMiss]
Uncached == Key(0, FALSE)
Over(outer, inner) == [outer |-> outer, inner |-> inner]

(* The lookups behind the answer to "may this user do this". Scan's error is
   overwritten before it is looked at, so an unknown user gets a session too. *)
SessionOfUser == Over(Key(600, TRUE), Uncached)
IsAdmin == Over(Key(300, TRUE), Key(3600, TRUE))
RowPermission == Over(Key(60, TRUE), Key(1800, FALSE))
RowOwnerAndGroups == Over(Key(60, TRUE), Uncached)
TablePermission == Over(Key(600, FALSE), Uncached)
ObjectPermission == Over(Key(1800, FALSE), Uncached)
ActionPermission == Over(Key(10, FALSE), Uncached)

(* The others. The groups of an object, a cloud store by name, a whole object by id
   and a parsed token are put into a map too, but in a form that no Get can scan, so
   that these lookups always go to the database. *)
ActionByName == Over(Key(60, FALSE), Uncached)
ConfigValue == Over(Key(300, FALSE), Uncached)
RowCount == Over(Key(3, TRUE), Uncached)
IdToReferenceId == Over(Key(1800, TRUE), Uncached)
ReferenceIdToId == Over(Key(1800, TRUE), Uncached)
ReferenceIdToIdWithTransaction == Over(Key(3600, FALSE), Uncached)

CodeLookups == {SessionOfUser, IsAdmin, RowPermission, RowOwnerAndGroups, TablePermission,
                ObjectPermission, ActionPermission, ActionByName, ConfigValue, RowCount,
                IdToReferenceId, ReferenceIdToId, ReferenceIdToIdWithTransaction}

VARIABLES
  lookup,    \* the lookup of this behaviour
  status,    \* status[v]: "none", "open" (written, not committed), "committed", "aborted"
  current,   \* the version committed last
  writer,    \* the request with an open version, or NoWriter
  gone,      \* gone[v]: ticks since v was last what a transaction could read
  cache,     \* cache[k]: the entry of key k = 1 (outer), 2 (inner): version, ticks left
  request    \* request[r]: at, the key or step it is at; v, what it got;
             \*   held, ticks its transaction is open

cacheVars == <<lookup, status, current, writer, gone, cache, request>>

Versions == 0 .. MaxVersions
NoWriter == "no writer"
Empty == [v |-> 0, left |-> 0]
Idle == [at |-> "idle", v |-> 0, held |-> 0]

TTL(k) == Ticks(IF k = 1 THEN lookup.outer.ttl ELSE lookup.inner.ttl)
StoresMiss(k) == IF k = 1 THEN lookup.outer.storesMiss ELSE lookup.inner.storesMiss

CacheInit ==
  /\ lookup \in Lookups
  /\ current \in {0, 1}
  /\ status = [v \in Versions |-> IF v <= current THEN "committed" ELSE "none"]
  /\ writer = NoWriter
  /\ gone = [v \in Versions |-> IF v < current THEN OpenFor + 1 ELSE 0]
  /\ cache = [k \in 1 .. 2 |-> Empty]
  /\ request = [r \in Requests |-> Idle]

-----------------------------------------------------------------------------
(* A request. Its transaction may have been open for a while: it makes several
   lookups, of other keys, one after the other. *)

Begin(r) ==
  /\ request[r].at = "idle"
  /\ \E held \in 0 .. OpenFor - 1 :
       request' = [request EXCEPT ![r] = [Idle EXCEPT !.at = "get outer", !.held = held]]
  /\ UNCHANGED <<lookup, status, current, writer, gone, cache>>

(* Mutant of Get: a hit gives the entry its whole time to live again. *)
GetRenews(r, k) ==
  /\ request[r].at = IF k = 1 THEN "get outer" ELSE "get inner"
  /\ cache' = IF cache[k].left > 0 THEN [cache EXCEPT ![k].left = TTL(k)] ELSE cache
  /\ request' = [request EXCEPT ![r] =
       IF cache[k].left > 0
       THEN [@ EXCEPT !.v = cache[k].v, !.at = IF k = 1 THEN "answered" ELSE "put outer"]
       ELSE [@ EXCEPT !.at = IF k = 1 THEN "get inner" ELSE "read"]]
  /\ UNCHANGED <<lookup, status, current, writer, gone>>

(* OlricCache.Get. *)
Get(r, k) ==
  /\ request[r].at = IF k = 1 THEN "get outer" ELSE "get inner"
  /\ request' = [request EXCEPT ![r] =
       IF cache[k].left > 0
       THEN [@ EXCEPT !.v = cache[k].v, !.at = IF k = 1 THEN "answered" ELSE "put outer"]
       ELSE [@ EXCEPT !.at = IF k = 1 THEN "get inner" ELSE "read"]]
  /\ UNCHANGED <<lookup, status, current, writer, gone, cache>>

(* What a query of r's transaction may return: what it wrote itself; else a
   version that was the committed one at some moment since the transaction began
   (which one depends on the isolation level of the database). *)
Readable(r) ==
  IF writer = r THEN {v \in Versions : status[v] = "open"}
  ELSE {v \in Versions : status[v] = "committed" /\ gone[v] <= request[r].held}

ReadDatabase(r) ==
  /\ request[r].at = "read"
  /\ \E v \in Readable(r) :
       request' = [request EXCEPT ![r] = [@ EXCEPT !.v = v, !.at = "put inner"]]
  /\ UNCHANGED <<lookup, status, current, writer, gone, cache>>

(* Put with NX: an entry that is there stays, and the request keeps its own v. *)
Stored(k, v) ==
  IF cache[k].left > 0 \/ (v = 0 /\ ~StoresMiss(k)) THEN cache
  ELSE [cache EXCEPT ![k] = [v |-> v, left |-> TTL(k)]]

Put(r, k) ==
  /\ request[r].at = IF k = 1 THEN "put outer" ELSE "put inner"
  /\ cache' = Stored(k, request[r].v)
  /\ request' = [request EXCEPT ![r].at = IF k = 1 THEN "answered" ELSE "put outer"]
  /\ UNCHANGED <<lookup, status, current, writer, gone>>

(* The handler writes the row: create, update or delete. One writer at a time
   holds the row's lock. *)
ChangeFact(r) ==
  /\ request[r].at = "get outer"
  /\ writer = NoWriter
  /\ \E v \in Versions :
       /\ status[v] = "none" /\ \A u \in Versions : u < v => status[u] # "none"
       /\ status' = [status EXCEPT ![v] = "open"]
       /\ gone' = [gone EXCEPT ![v] = 0]
  /\ writer' = r
  /\ UNCHANGED <<lookup, current, cache, request>>

CommitChange(r) ==
  /\ writer = r /\ request[r].at = "answered"
  /\ \E v \in Versions :
       /\ status[v] = "open"
       /\ status' = [status EXCEPT ![v] = "committed"]
       /\ current' = v
  /\ writer' = NoWriter
  /\ request' = [request EXCEPT ![r] = Idle]
  /\ UNCHANGED <<lookup, gone, cache>>

RollBackChange(r) ==
  /\ writer = r /\ request[r].at = "answered"
  /\ status' = [v \in Versions |-> IF status[v] = "open" THEN "aborted" ELSE status[v]]
  /\ writer' = NoWriter
  /\ request' = [request EXCEPT ![r] = Idle]
  /\ UNCHANGED <<lookup, current, gone, cache>>

End(r) ==
  /\ writer # r /\ request[r].at = "answered"
  /\ request' = [request EXCEPT ![r] = Idle]
  /\ UNCHANGED <<lookup, status, current, writer, gone, cache>>

(* OlricCache.Destroy of become_admin, after its commit. *)
Destroy ==
  /\ lookup # SessionOfUser   \* it is in another map
  /\ \E k \in 1 .. 2 : cache[k].left > 0
  /\ cache' = [k \in 1 .. 2 |-> Empty]
  /\ UNCHANGED <<lookup, status, current, writer, gone, request>>

(* Time. A transaction is open for at most OpenFor ticks; the age of a version
   is kept up to MaxAge, where no answer can be from it any more. *)
InnerBound == TTL(2) + OpenFor
OuterBound == TTL(1) + OpenFor + InnerBound
Window == OuterBound + OpenFor
MaxAge == Window + 1

Ages(v) == v # current /\ status[v] \in {"committed", "aborted"}

(* Mutant of Older: an entry is never dropped. *)
OlderNeverDrops(e) == IF e = Empty THEN e ELSE [e EXCEPT !.left = @ - 1]

(* Mutant of Older: what was stored for a missing row stays. *)
OlderKeepsMiss(e) == IF e.v = 0 /\ e.left = 1 THEN e
                     ELSE IF e.left <= 1 THEN Empty ELSE [e EXCEPT !.left = @ - 1]

Older(e) == IF e.left <= 1 THEN Empty ELSE [e EXCEPT !.left = @ - 1]

Tick ==
  /\ \A r \in Requests : request[r].at # "idle" => request[r].held < OpenFor
  /\ gone' = [v \in Versions |-> IF Ages(v) /\ gone[v] < MaxAge THEN gone[v] + 1
                                 ELSE gone[v]]
  /\ cache' = [k \in 1 .. 2 |-> Older(cache[k])]
  /\ request' = [r \in Requests |-> IF request[r].at = "idle" THEN request[r]
                                    ELSE [request[r] EXCEPT !.held = @ + 1]]
  /\ UNCHANGED <<lookup, status, current, writer>>

RequestStep(r) ==
  \/ Get(r, 1) \/ Get(r, 2) \/ ReadDatabase(r) \/ Put(r, 1) \/ Put(r, 2)
  \/ CommitChange(r) \/ RollBackChange(r) \/ End(r)

CacheNext ==
  \/ \E r \in Requests : Begin(r) \/ ChangeFact(r) \/ RequestStep(r)
  \/ Destroy
  \/ Tick

-----------------------------------------------------------------------------
(* Properties. *)

Entry == [v : Versions, left : Nat]
Stages == {"idle", "get outer", "get inner", "read", "put inner", "put outer", "answered"}
RequestState == [at : Stages, v : Versions, held : 0 .. OpenFor]

CacheTypeOK ==
  /\ lookup \in Lookups
  /\ status \in [Versions -> {"none", "open", "committed", "aborted"}]
  /\ current \in Versions
  /\ writer \in Requests \cup {NoWriter}
  /\ gone \in [Versions -> 0 .. MaxAge]
  /\ cache \in [1 .. 2 -> Entry]
  /\ request \in [Requests -> RequestState]

(* However the lookups of several requests, writes, rollbacks and expiries follow
   each other, an answer is never from a version that went out of sight more than
   Window ago: the times to live of the keys it can have passed, and three times
   what a transaction may stay open, since a slow reader stores what it saw when
   its transaction was young. *)
AnswerWithinWindow ==
  \A r \in Requests : request[r].at = "answered" => gone[request[r].v] <= Window

(* A version that is never replaced is, from some moment on, in every answer:
   no cache keeps an older one, or a missing row, alive by being read. *)
ChangeTakesEffect ==
  \A v \in Versions :
    <>[](current = v /\ writer = NoWriter)
      => <>[](\A r \in Requests : request[r].at = "answered" => request[r].v = v)

CacheFairness ==
  /\ WF_cacheVars(Tick)
  /\ \A r \in Requests : WF_cacheVars(RequestStep(r))

CacheSpec == CacheInit /\ [][CacheNext]_cacheVars
=============================================================================

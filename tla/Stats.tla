-------------------------------- MODULE Stats --------------------------------
(***************************************************************************)
(* StatsService behind the CacheInterceptor: figures computed by several   *)
(* queries while the data change, and kept in Redis for a while.  A figure *)
(* counts the documents that meet a condition; the rooms are looked up by  *)
(* the role's filter, everything else by the ids of the rooms found        *)
(* before.  Sums, averages and groupings are of the same documents.        *)
(***************************************************************************)
EXTENDS Naturals, FiniteSets

CONSTANTS
  User, Admins,       \* who may ask; the others are owners
  Room, OwnerOf,      \* the rooms there may be, and whose they are
  SeedRooms, Movable, \* the rooms at the start; those that are opened and closed
  Doc,                \* <<figure, room, number>>: a document the figure may count
  SeedDocs,
  Asked,              \* bound: the routes asked for, and the figures they answer
  Asks,               \* bound: <<user, route>> pairs: who asks for what
  Changes,            \* bound: how often the data change
  Slot,               \* bound: requests in flight
  TTL,                \* CACHE_TTL_SECONDS, in ticks of Redis' clock
  None,
  Faults              \* TRUE: queries and Redis commands may fail

\* What each route counts: alerts unresolved, of today, of the last days; bills
\* unpaid, and paid in the year; devices offline, all, and silent for an hour.
Queries ==
  [overview |-> {"rooms", "unresolved", "unpaid", "offline", "today"},
   revenue  |-> {"paid"},
   alerts   |-> {"recent", "unresolved"},
   devices  |-> {"devices", "stale"}]
Field == UNION {Queries[r] : r \in DOMAIN Queries}
Route == DOMAIN Asked
Answers(r) == [Asked[r] -> Nat]

\* deleteRoom spares rooms with devices or unpaid bills; alerts come from devices.
ASSUME StatsAssumption ==
  /\ Admins \subseteq User /\ DOMAIN OwnerOf = Room
  /\ IsFiniteSet(Room) /\ SeedRooms \subseteq Room /\ Movable \subseteq Room
  /\ IsFiniteSet(Doc) /\ Doc \subseteq (Field \ {"rooms"}) \X SeedRooms \X Nat
  /\ SeedDocs \subseteq Doc
  /\ \A d \in Doc : d[2] \in Movable => d[1] = "paid"
  /\ Route \subseteq DOMAIN Queries
  /\ Asks \subseteq User \X Route
  /\ \A r \in Route : Asked[r] \subseteq Queries[r] /\ IsFiniteSet(Asked[r]) /\ Asked[r] # {}
  /\ TTL \in Nat \ {0} /\ Changes \in Nat /\ Faults \in BOOLEAN /\ None \notin User

VARIABLES
  rooms, docs, \* the collections: the rooms, and what meets each condition
  left,        \* changes left
  moments,     \* history: the states the collections went through
  cache,       \* key -> the stored answer and its age, or None
  req          \* slot -> the request it serves

data == <<rooms, docs, left, moments>>
vars == <<data, cache, req>>

Blank == [pc |-> "idle", user |-> None, route |-> None, ids |-> {}, todo |-> {}, value |-> None]

At(s, pc) == req[s].pc = pc
Done(s) == req' = [req EXCEPT ![s] = Blank]

\* buildRoomFilter: empty for an admin.
Matching(u, in) == {r \in in : u \in Admins \/ OwnerOf[r] = u}

\* getRoomIds does not ask for an admin; no ids put no condition on room_id.
IdsOf(u) == IF u \in Admins THEN {} ELSE Matching(u, rooms)
Found(f, ids) == {d \in docs : d[1] = f /\ (ids = {} \/ d[2] \in ids)}

\* What a user should be told: the number of their rooms, and of the documents
\* in them; an admin's rooms are all, those that are gone included.
Right(f, u, at, then) ==
  IF f = "rooms" THEN Cardinality(Matching(u, then.rooms))
  ELSE Cardinality({d \in then.docs : d[1] = f /\ (u \in Admins \/ d[2] \in Matching(u, at.rooms))})

Now == [rooms |-> rooms, docs |-> docs]

Init ==
  /\ rooms = SeedRooms /\ docs = SeedDocs /\ left = Changes
  /\ moments = {Now}
  /\ cache = [k \in User \X Route |-> None]
  /\ req = [s \in Slot |-> Blank]

----------------------------------------------------------------------------
\* Mutants: the key forgets the user; a hit renews the entry; the entry starts
\* a second late.
KeyOfRoute(u, r) == <<CHOOSE v \in User : TRUE, r>>
Renewed(k) == cache' = [cache EXCEPT ![k].age = 0]
EntryLate(v) == [value |-> v, age |-> TTL]

\* The cache key names the user and the route with its query; a hit leaves the
\* entry as it is.
Key(u, r) == <<u, r>>
Hit(k) == cache' = cache
Entry(v) == [value |-> v, age |-> 0]

\* Which free slot serves a request makes no difference: one is chosen.
Arrive(s) ==
  /\ At(s, "idle") /\ s = CHOOSE x \in Slot : At(x, "idle")
  /\ \E x \in Asks :
       req' = [req EXCEPT ![s] = [Blank EXCEPT !.pc = "get", !.user = x[1], !.route = x[2]]]
  /\ UNCHANGED <<data, cache>>

\* The answer of a hit leaves in the same step ("told" is that moment).
CacheGet(s) ==
  LET k == Key(req[s].user, req[s].route) IN
  /\ At(s, "get")
  /\ \/ /\ cache[k] # None
        /\ req' = [req EXCEPT ![s].pc = "told", ![s].value = cache[k].value]
        /\ Hit(k)
     \/ /\ cache[k] = None \/ Faults
        /\ req' = [req EXCEPT ![s].pc = "ids"]
        /\ cache' = cache
  /\ UNCHANGED data

Told(s) == At(s, "told") /\ Done(s) /\ UNCHANGED <<data, cache>>

RoomIds(s) ==
  LET q == req[s] IN
  /\ At(s, "ids")
  /\ req' = [req EXCEPT ![s] = [q EXCEPT !.pc = "count", !.ids = IdsOf(q.user),
                                !.todo = Asked[q.route],
                                !.value = [f \in Asked[q.route] |-> 0]]]
  /\ UNCHANGED <<data, cache>>

\* One query of the Promise.all; with the last one the handler answers and
\* goes on to setex, which nobody awaits.
CountOne(s, f) ==
  LET q == req[s]
      n == IF f = "rooms" THEN Cardinality(Matching(q.user, rooms))
           ELSE Cardinality(Found(f, q.ids)) IN
  /\ At(s, "count") /\ f \in q.todo
  /\ req' = [req EXCEPT ![s] = [q EXCEPT !.todo = @ \ {f}, !.value[f] = n,
                                !.pc = IF q.todo = {f} THEN "set" ELSE "count"]]
  /\ UNCHANGED <<data, cache>>

CacheSet(s) ==
  /\ At(s, "set")
  /\ \/ cache' = [cache EXCEPT ![Key(req[s].user, req[s].route)] = Entry(req[s].value)]
     \/ Faults /\ cache' = cache
  /\ Done(s)
  /\ UNCHANGED data

\* A query fails: the handler throws, and nothing is stored.
QueryFails(s) ==
  /\ Faults
  /\ At(s, "ids") \/ At(s, "count")
  /\ Done(s)
  /\ UNCHANGED <<data, cache>>

Step(s) ==
  CacheGet(s) \/ Told(s) \/ RoomIds(s) \/ (\E f \in Field : CountOne(s, f)) \/ CacheSet(s)

----------------------------------------------------------------------------
\* Redis counts the seconds of every entry and drops it after the last one.
Tick ==
  /\ \E k \in DOMAIN cache : cache[k] # None
  /\ cache' = [k \in DOMAIN cache |->
       IF cache[k] = None \/ cache[k].age + 1 = TTL THEN None
       ELSE [cache[k] EXCEPT !.age = @ + 1]]
  /\ UNCHANGED <<data, req>>

\* The other services open and close rooms, raise and resolve alerts, bill and
\* collect; time passes.  None of them tells the cache.
Change ==
  /\ left > 0 /\ left' = left - 1
  /\ \/ \E r \in Movable :
          rooms' = (IF r \in rooms THEN rooms \ {r} ELSE rooms \cup {r}) /\ UNCHANGED docs
     \/ \E d \in Doc :
          docs' = (IF d \in docs THEN docs \ {d} ELSE docs \cup {d}) /\ UNCHANGED rooms
  /\ moments' = moments \cup {Now'}
  /\ UNCHANGED <<cache, req>>

Next ==
  \/ \E s \in Slot : Arrive(s) \/ Step(s) \/ QueryFails(s)
  \/ Tick \/ Change

Spec == Init /\ [][Next]_vars

\* Queries and commands return or time out, and time passes in Redis.
FairSpec == Spec /\ WF_vars(Tick) /\ \A s \in Slot : WF_vars(Step(s))

----------------------------------------------------------------------------
\* Entries and requests have the shape the interceptor gives them.
TypeOK ==
  /\ rooms \subseteq Room /\ docs \subseteq Doc /\ left \in 0..Changes
  /\ moments \subseteq [rooms : SUBSET Room, docs : SUBSET Doc] /\ Now \in moments
  /\ \A k \in User \X Route : cache[k] # None =>
       cache[k].value \in Answers(k[2]) /\ cache[k].age \in 0..(TTL - 1)
  /\ \A s \in Slot :
       /\ req[s].pc \in {"idle", "get", "told", "ids", "count", "set"}
       /\ req[s].pc # "idle" => req[s].user \in User /\ req[s].route \in Route
       /\ req[s].ids \subseteq Room /\ req[s].todo \subseteq Field
       /\ req[s].pc \in {"told", "count", "set"} => req[s].value \in Answers(req[s].route)

\* An owner sees the data of their own rooms only, an admin of all: whatever
\* the cache, concurrent requests and changes do, each figure a user is told is
\* the right one for the rooms of some moment and the documents of some
\* moment.  It fails for an owner without a room, whose empty list of ids
\* matches everything.
AnswersWereTrue ==
  \A s \in Slot : At(s, "told") \/ At(s, "set") =>
    \A f \in Asked[req[s].route] :
      \E at, then \in moments : req[s].value[f] = Right(f, req[s].user, at, then)

\* Once the data no longer change, the cache comes to hold the truth, though
\* nobody invalidates it and slow requests store what they read long before.
CacheComesRight ==
  <>[](\A u \in User, r \in Route : cache[<<u, r>>] # None =>
        \A f \in Asked[r] : cache[<<u, r>>].value[f] = Right(f, u, Now, Now))
=============================================================================

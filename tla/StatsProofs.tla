----------------------------- MODULE StatsProofs -----------------------------
(***************************************************************************)
(* Theorems about Stats, for any number of users, rooms, documents, routes *)
(* and requests, with and without failures.                                *)
(***************************************************************************)
EXTENDS Stats, TLAPS, FiniteSetTheorems

Figures == UNION {Answers(r) : r \in Route}

\* What a request holds at each step of the interceptor and its handler.
WellFormed(q) ==
  /\ q \in [pc : {"idle", "get", "told", "ids", "count", "set"},
            user : User \cup {None}, route : Route \cup {None},
            ids : SUBSET Room, todo : SUBSET Field, value : Figures \cup {None}]
  /\ q.pc # "idle" => q.user \in User /\ q.route \in Route
  /\ q.pc \in {"told", "count", "set"} => q.value \in Answers(q.route)
  /\ q.pc = "count" => q.todo \subseteq Asked[q.route]

DataTyped ==
  /\ rooms \subseteq Room /\ docs \subseteq Doc /\ left \in 0..Changes
  /\ moments \subseteq [rooms : SUBSET Room, docs : SUBSET Doc] /\ Now \in moments
CacheTyped ==
  /\ cache \in [User \X Route -> [value : Figures, age : 0..(TTL - 1)] \cup {None}]
  /\ \A k \in User \X Route : cache[k] # None =>
       cache[k].value \in Answers(k[2]) /\ cache[k].age \in 0..(TTL - 1)
RequestsTyped == req \in [Slot -> [pc : {"idle", "get", "told", "ids", "count", "set"},
            user : User \cup {None}, route : Route \cup {None},
            ids : SUBSET Room, todo : SUBSET Field, value : Figures \cup {None}]]
                 /\ \A s \in Slot : WellFormed(req[s])

\* TypeOK says nothing of the local variables between two steps, and so is not
\* inductive.
IType == DataTyped /\ CacheTyped /\ RequestsTyped

LEMMA FieldsOfRoutes ==
  ASSUME NEW r \in Route PROVE Asked[r] \subseteq Field /\ Answers(r) \subseteq Figures
BY StatsAssumption DEF Field, Figures, Route

LEMMA Counted ==
  ASSUME IType
  PROVE  /\ \A u \in User : Cardinality(Matching(u, rooms)) \in Nat
         /\ \A f \in Field, ids \in SUBSET Room : Cardinality(Found(f, ids)) \in Nat
<1>1. ASSUME NEW u \in User PROVE Cardinality(Matching(u, rooms)) \in Nat
  <2>1. Matching(u, rooms) \subseteq Room
    BY DEF IType, DataTyped, Matching
  <2> QED BY <2>1, StatsAssumption, FS_Subset, FS_CardinalityType
<1>2. ASSUME NEW f \in Field, NEW ids \in SUBSET Room PROVE Cardinality(Found(f, ids)) \in Nat
  <2>1. Found(f, ids) \subseteq Doc
    BY DEF IType, DataTyped, Found
  <2> QED BY <2>1, StatsAssumption, FS_Subset, FS_CardinalityType
<1> QED BY <1>1, <1>2

LEMMA Replaced ==
  ASSUME RequestsTyped, NEW s \in Slot, NEW q, WellFormed(q), req' = [req EXCEPT ![s] = q]
  PROVE  RequestsTyped'
BY DEF RequestsTyped, WellFormed

LEMMA BlankFormed == WellFormed(Blank)
BY StatsAssumption DEF WellFormed, Blank

LEMMA DataKept == ASSUME DataTyped, UNCHANGED data PROVE DataTyped'
BY DEF DataTyped, data, Now

LEMMA InitTyped == Init => IType
<1> SUFFICES ASSUME Init PROVE IType
  OBVIOUS
<1>1. DataTyped
  BY StatsAssumption DEF Init, DataTyped, Now
<1>2. CacheTyped
  BY DEF Init, CacheTyped
<1>3. RequestsTyped
  BY BlankFormed DEF Init, RequestsTyped, WellFormed
<1> QED BY <1>1, <1>2, <1>3 DEF IType

LEMMA StepTyped ==
  ASSUME IType, NEW s \in Slot, Step(s) PROVE IType'
<1>0. WellFormed(req[s]) /\ RequestsTyped /\ CacheTyped /\ DataTyped
  BY DEF IType, RequestsTyped
<1>1. CASE CacheGet(s)
  <2> DEFINE k == Key(req[s].user, req[s].route)
  <2>1. req[s].pc = "get" /\ k \in User \X Route /\ k[2] = req[s].route
    BY <1>0, <1>1 DEF CacheGet, At, WellFormed, Key
  <2>2. CASE cache[k] # None /\ Hit(k)
             /\ req' = [req EXCEPT ![s].pc = "told", ![s].value = cache[k].value]
    <3>1. cache[k].value \in Answers(req[s].route)
      BY <1>0, <2>1, <2>2 DEF CacheTyped
    <3>2. WellFormed([req[s] EXCEPT !.pc = "told", !.value = cache[k].value])
      BY <1>0, <2>1, <3>1, FieldsOfRoutes DEF WellFormed
    <3>3. req' = [req EXCEPT ![s] = [req[s] EXCEPT !.pc = "told", !.value = cache[k].value]]
      BY <1>0, <2>2 DEF RequestsTyped
    <3>4. RequestsTyped'
      BY <1>0, <3>2, <3>3, Replaced
    <3> QED BY <1>0, <1>1, <2>2, <3>4, DataKept DEF CacheGet, Hit, IType, CacheTyped
  <2>3. CASE req' = [req EXCEPT ![s].pc = "ids"] /\ cache' = cache
    <3>1. WellFormed([req[s] EXCEPT !.pc = "ids"])
      BY <1>0, <2>1 DEF WellFormed
    <3>2. req' = [req EXCEPT ![s] = [req[s] EXCEPT !.pc = "ids"]]
      BY <1>0, <2>3 DEF RequestsTyped
    <3>3. RequestsTyped'
      BY <1>0, <3>1, <3>2, Replaced
    <3> QED BY <1>0, <1>1, <2>3, <3>3, DataKept DEF CacheGet, IType, CacheTyped
  <2> QED BY <1>1, <2>2, <2>3 DEF CacheGet
<1>2. CASE Told(s)
  <2>1. RequestsTyped'
    BY <1>0, <1>2, Replaced, BlankFormed DEF Told, Done
  <2> QED BY <1>0, <1>2, <2>1, DataKept DEF Told, IType, CacheTyped
<1>3. CASE RoomIds(s)
  <2> DEFINE q == [req[s] EXCEPT !.pc = "count", !.ids = IdsOf(req[s].user),
                                 !.todo = Asked[req[s].route],
                                 !.value = [f \in Asked[req[s].route] |-> 0]]
  <2>1. req[s].pc = "ids" /\ req' = [req EXCEPT ![s] = q]
    BY <1>3 DEF RoomIds, At
  <2>2. IdsOf(req[s].user) \subseteq Room
    BY <1>0 DEF IdsOf, Matching, DataTyped
  <2>3. [f \in Asked[req[s].route] |-> 0] \in Answers(req[s].route)
    BY DEF Answers
  <2>4. WellFormed(q)
    BY <1>0, <2>1, <2>2, <2>3, FieldsOfRoutes DEF WellFormed
  <2>5. RequestsTyped'
    BY <1>0, <2>1, <2>4, Replaced
  <2> QED BY <1>0, <1>3, <2>5, DataKept DEF RoomIds, IType, CacheTyped
<1>4. ASSUME NEW f \in Field, CountOne(s, f) PROVE IType'
  <2> DEFINE n == IF f = "rooms" THEN Cardinality(Matching(req[s].user, rooms))
                  ELSE Cardinality(Found(f, req[s].ids))
             q == [req[s] EXCEPT !.todo = @ \ {f}, !.value[f] = n,
                                 !.pc = IF req[s].todo = {f} THEN "set" ELSE "count"]
  <2>1. req[s].pc = "count" /\ f \in req[s].todo /\ req' = [req EXCEPT ![s] = q]
    BY <1>4 DEF CountOne, At
  <2>2. n \in Nat
    BY <1>0, <2>1, Counted DEF WellFormed
  <2>3. req[s].value \in Answers(req[s].route) /\ f \in Asked[req[s].route]
        /\ req[s].route \in Route
    BY <1>0, <2>1 DEF WellFormed
  <2> DEFINE v == [req[s].value EXCEPT ![f] = n]
  <2>4. v \in Answers(req[s].route)
    BY <2>2, <2>3 DEF Answers
  <2>5. v \in Figures
    BY <2>3, <2>4, FieldsOfRoutes
  <2>6. q = [req[s] EXCEPT !.todo = req[s].todo \ {f}, !.value = v,
                           !.pc = IF req[s].todo = {f} THEN "set" ELSE "count"]
    BY <1>0 DEF WellFormed
  <2> HIDE DEF n, v
  <2>7. WellFormed(q)
    BY <1>0, <2>1, <2>3, <2>4, <2>5, <2>6 DEF WellFormed
  <2>8. RequestsTyped'
    BY <1>0, <2>1, <2>7, Replaced
  <2> QED BY <1>0, <1>4, <2>8, DataKept DEF CountOne, IType, CacheTyped
<1>5. CASE CacheSet(s)
  <2> DEFINE k == Key(req[s].user, req[s].route)
  <2>1. RequestsTyped'
    BY <1>0, <1>5, Replaced, BlankFormed DEF CacheSet, Done
  <2>2. /\ k \in User \X Route /\ k[2] = req[s].route
        /\ req[s].value \in Answers(req[s].route) /\ req[s].value \in Figures
    BY <1>0, <1>5, FieldsOfRoutes DEF CacheSet, At, WellFormed, Key
  <2>3. /\ Entry(req[s].value) \in [value : Figures, age : 0..(TTL - 1)]
        /\ Entry(req[s].value).value = req[s].value /\ Entry(req[s].value).age = 0
        /\ 0 \in 0..(TTL - 1)
    BY <2>2, StatsAssumption DEF Entry
  <2>4. CacheTyped'
    <3>1. CASE cache' = [cache EXCEPT ![k] = Entry(req[s].value)]
      BY <1>0, <2>2, <2>3, <3>1 DEF CacheTyped
    <3>2. CASE cache' = cache
      BY <1>0, <3>2 DEF CacheTyped
    <3> QED BY <1>5, <3>1, <3>2 DEF CacheSet
  <2> QED BY <1>0, <1>5, <2>1, <2>4, DataKept DEF CacheSet, IType
<1> QED BY <1>1, <1>2, <1>3, <1>4, <1>5 DEF Step

LEMMA OthersTyped ==
  ASSUME IType, [Next]_vars, ~ \E s \in Slot : Step(s) PROVE IType'
<1>0. RequestsTyped /\ CacheTyped /\ DataTyped
  BY DEF IType
<1>1. CASE \E s \in Slot : Arrive(s)
  <2>1. PICK s \in Slot : Arrive(s)
    BY <1>1
  <2>2. PICK x \in Asks :
          req' = [req EXCEPT ![s] = [Blank EXCEPT !.pc = "get", !.user = x[1], !.route = x[2]]]
    BY <2>1 DEF Arrive
  <2>3. x[1] \in User /\ x[2] \in Route
    BY StatsAssumption
  <2>4. WellFormed([Blank EXCEPT !.pc = "get", !.user = x[1], !.route = x[2]])
    BY <2>3, BlankFormed DEF WellFormed, Blank
  <2>5. RequestsTyped'
    BY <1>0, <2>2, <2>4, Replaced
  <2> QED BY <1>0, <2>1, <2>5, DataKept DEF Arrive, IType, CacheTyped
<1>2. CASE \E s \in Slot : QueryFails(s)
  <2>1. RequestsTyped'
    BY <1>0, <1>2, Replaced, BlankFormed DEF QueryFails, Done
  <2> QED BY <1>0, <1>2, <2>1, DataKept DEF QueryFails, IType, CacheTyped
<1>3. CASE Tick
  <2>1. CacheTyped'
    <3>1. ASSUME NEW k \in User \X Route, cache'[k] # None
          PROVE  /\ cache[k] # None /\ cache'[k] = [cache[k] EXCEPT !.age = cache[k].age + 1]
                 /\ cache[k].age + 1 \in 0..(TTL - 1)
      <4>1. cache'[k] = IF cache[k] = None \/ cache[k].age + 1 = TTL THEN None
                        ELSE [cache[k] EXCEPT !.age = cache[k].age + 1]
        BY <1>0, <1>3 DEF Tick, CacheTyped
      <4>2. cache[k] # None /\ cache[k].age + 1 # TTL
            /\ cache'[k] = [cache[k] EXCEPT !.age = cache[k].age + 1]
        BY <3>1, <4>1
      <4>3. cache[k].age \in 0..(TTL - 1)
        BY <1>0, <4>2 DEF CacheTyped
      <4>4. cache[k].age + 1 \in 0..(TTL - 1)
        BY <4>2, <4>3, StatsAssumption
      <4> QED BY <4>2, <4>4
    <3>2. ASSUME NEW k \in User \X Route, cache'[k] # None
          PROVE  /\ cache'[k] \in [value : Figures, age : 0..(TTL - 1)]
                 /\ cache'[k].value \in Answers(k[2]) /\ cache'[k].age \in 0..(TTL - 1)
      <4>1. cache[k] \in [value : Figures, age : 0..(TTL - 1)]
            /\ cache[k].value \in Answers(k[2])
        BY <1>0, <3>1, <3>2 DEF CacheTyped
      <4> QED BY <3>1, <3>2, <4>1
    <3>3. DOMAIN cache = User \X Route /\ cache' = [k \in User \X Route |-> cache'[k]]
      BY <1>0, <1>3 DEF CacheTyped, Tick
    <3> QED BY <3>2, <3>3 DEF CacheTyped
  <2>2. RequestsTyped'
    BY <1>0, <1>3 DEF Tick, RequestsTyped, WellFormed
  <2> QED BY <1>0, <1>3, <2>1, <2>2, DataKept DEF Tick, IType
<1>4. CASE Change
  <2>1. rooms' \subseteq Room /\ docs' \subseteq Doc
    BY <1>0, <1>4, StatsAssumption DEF Change, DataTyped
  <2>2. left' \in 0..Changes
    BY <1>0, <1>4, StatsAssumption DEF Change, DataTyped
  <2>3. moments' = moments \cup {Now'} /\ Now' \in [rooms : SUBSET Room, docs : SUBSET Doc]
    BY <1>4, <2>1 DEF Change, Now
  <2>4. DataTyped'
    BY <1>0, <2>1, <2>2, <2>3 DEF DataTyped
  <2> QED BY <1>0, <1>4, <2>4 DEF Change, IType, CacheTyped, RequestsTyped, WellFormed
<1>5. CASE UNCHANGED vars
  BY <1>0, <1>5, DataKept DEF vars, IType, CacheTyped, RequestsTyped, WellFormed
<1> QED BY <1>1, <1>2, <1>3, <1>4, <1>5 DEF Next

LEMMA NextTyped == IType /\ [Next]_vars => IType'
BY StepTyped, OthersTyped

\* What the cache stores under a key answers that key's route, every figure of
\* it, and no request goes on with an answer of another shape, whatever
\* fails and whichever requests run together (CacheInterceptor.intercept).
THEOREM TypesHold == Spec => []TypeOK
<1>1. IType => TypeOK
  BY DEF IType, DataTyped, CacheTyped, RequestsTyped, WellFormed, TypeOK
<1> QED BY <1>1, InitTyped, NextTyped, PTL DEF Spec

----------------------------------------------------------------------------
\* A figure n that was right at some moments of ms.
WasRight(ms, f, u, n) == \E at, then \in ms : n = Right(f, u, at, then)

\* Every owner keeps a room: without one the empty list of ids would match the
\* documents of everybody, and the theorem would not hold.
EveryOwnerHasAHome == \A u \in User \ Admins : \E r \in SeedRooms \ Movable : OwnerOf[r] = u

\* The ids a handler counts by were its user's rooms at a moment, and what it
\* has counted so far was right then.
RightSoFar(ms, q) ==
  /\ q.pc = "count" =>
       /\ q.user \in Admins => q.ids = {}
       /\ q.user \notin Admins => q.ids # {} /\ \E at \in ms : q.ids = Matching(q.user, at.rooms)
       /\ \A f \in Asked[q.route] \ q.todo : WasRight(ms, f, q.user, q.value[f])
  /\ q.pc \in {"told", "set"} =>
       \A f \in Asked[q.route] : WasRight(ms, f, q.user, q.value[f])

RightEntry(ms, k, e) == \A f \in Asked[k[2]] : WasRight(ms, f, k[1], e.value[f])

\* AnswersWereTrue speaks of answers only; it rests on what the cache holds
\* and on what the requests have counted and looked up before.
RequestsRight == \A s \in Slot : RightSoFar(moments, req[s])
CacheRight == \A k \in User \X Route : cache[k] # None => RightEntry(moments, k, cache[k])
HomesStay == SeedRooms \ Movable \subseteq rooms
IRight == HomesStay /\ CacheRight /\ RequestsRight

LEMMA OnceRight ==
  ASSUME NEW ms, NEW more, ms \subseteq more
  PROVE  /\ \A q : RightSoFar(ms, q) => RightSoFar(more, q)
         /\ \A k, e : RightEntry(ms, k, e) => RightEntry(more, k, e)
<1>1. ASSUME NEW f, NEW u, NEW n, WasRight(ms, f, u, n) PROVE WasRight(more, f, u, n)
  BY <1>1 DEF WasRight
<1> QED BY <1>1 DEF RightSoFar, RightEntry

LEMMA ReplacedRight ==
  ASSUME RequestsTyped, RequestsRight, NEW s \in Slot, NEW q, RightSoFar(moments, q),
         req' = [req EXCEPT ![s] = q], moments' = moments
  PROVE  RequestsRight'
BY DEF RequestsTyped, RequestsRight

LEMMA BlankRight == ASSUME NEW ms PROVE RightSoFar(ms, Blank)
BY DEF RightSoFar, Blank

LEMMA InitRight == Init => IRight
<1> SUFFICES ASSUME Init PROVE IRight
  OBVIOUS
<1>1. HomesStay /\ CacheRight
  BY DEF Init, HomesStay, CacheRight
<1>2. RequestsRight
  BY BlankRight DEF Init, RequestsRight
<1> QED BY <1>1, <1>2 DEF IRight

\* One query of the Promise.all: the documents of the ids looked up before.
LEMMA CountRight ==
  ASSUME IType, NEW s \in Slot, RightSoFar(moments, req[s]), req[s].pc = "count",
         NEW f \in Field
  PROVE  WasRight(moments, f, req[s].user,
                  IF f = "rooms" THEN Cardinality(Matching(req[s].user, rooms))
                  ELSE Cardinality(Found(f, req[s].ids)))
<1> DEFINE u == req[s].user
           ids == req[s].ids
<1>1. Now \in moments
  BY DEF IType, DataTyped
<1>2. CASE f = "rooms"
  BY <1>1, <1>2 DEF WasRight, Right, Now
<1>3. CASE f # "rooms" /\ u \in Admins
  <2>1. Found(f, ids) = {d \in docs : d[1] = f /\ (u \in Admins \/ d[2] \in Matching(u, rooms))}
    BY <1>3 DEF RightSoFar, Found
  <2> QED BY <1>1, <1>3, <2>1 DEF WasRight, Right, Now
<1>4. CASE f # "rooms" /\ u \notin Admins
  <2>1. PICK at \in moments : ids # {} /\ ids = Matching(u, at.rooms)
    BY <1>4 DEF RightSoFar
  <2>2. Found(f, ids)
        = {d \in docs : d[1] = f /\ (u \in Admins \/ d[2] \in Matching(u, at.rooms))}
    BY <1>4, <2>1 DEF Found
  <2> QED BY <1>1, <1>4, <2>1, <2>2 DEF WasRight, Right, Now
<1> QED BY <1>2, <1>3, <1>4

LEMMA StepRight ==
  ASSUME EveryOwnerHasAHome, IType, IRight, NEW s \in Slot, Step(s) PROVE IRight'
<1>0. /\ WellFormed(req[s]) /\ RequestsTyped /\ CacheTyped /\ DataTyped
      /\ HomesStay /\ CacheRight /\ RequestsRight /\ RightSoFar(moments, req[s])
  BY DEF IType, RequestsTyped, IRight, RequestsRight
<1>d. UNCHANGED data
  BY DEF Step, CacheGet, Told, RoomIds, CountOne, CacheSet
<1>m. moments' = moments /\ HomesStay'
  BY <1>0, <1>d DEF data, HomesStay
<1>1. CASE CacheGet(s)
  <2> DEFINE k == Key(req[s].user, req[s].route)
  <2>1. req[s].pc = "get" /\ k \in User \X Route /\ k[2] = req[s].route /\ k[1] = req[s].user
    BY <1>0, <1>1 DEF CacheGet, At, WellFormed, Key
  <2>2. CASE cache[k] # None /\ Hit(k)
             /\ req' = [req EXCEPT ![s].pc = "told", ![s].value = cache[k].value]
    <3>1. RightEntry(moments, k, cache[k])
      BY <1>0, <2>1, <2>2 DEF CacheRight
    <3> DEFINE q == [req[s] EXCEPT !.pc = "told", !.value = cache[k].value]
    <3>2. q.pc = "told" /\ q.user = k[1] /\ q.route = k[2] /\ q.value = cache[k].value
      BY <1>0, <2>1 DEF WellFormed
    <3>3. req' = [req EXCEPT ![s] = q]
      BY <1>0, <2>2 DEF RequestsTyped
    <3> HIDE DEF q
    <3>4. RightSoFar(moments, q)
      BY <3>1, <3>2 DEF RightSoFar, RightEntry
    <3>5. RequestsRight'
      BY <1>0, <1>m, <3>3, <3>4, ReplacedRight
    <3> QED BY <1>0, <1>m, <2>2, <3>5 DEF Hit, IRight, CacheRight
  <2>3. CASE req' = [req EXCEPT ![s].pc = "ids"] /\ cache' = cache
    <3> DEFINE q == [req[s] EXCEPT !.pc = "ids"]
    <3>1. q.pc = "ids"
      BY <1>0 DEF WellFormed
    <3>2. req' = [req EXCEPT ![s] = q]
      BY <1>0, <2>3 DEF RequestsTyped
    <3> HIDE DEF q
    <3>3. RequestsRight'
      BY <1>0, <1>m, <3>1, <3>2, ReplacedRight DEF RightSoFar
    <3> QED BY <1>0, <1>m, <2>3, <3>3 DEF IRight, CacheRight
  <2> QED BY <1>1, <2>2, <2>3 DEF CacheGet
<1>2. CASE Told(s)
  <2>1. RequestsRight'
    BY <1>0, <1>m, <1>2, ReplacedRight, BlankRight DEF Told, Done
  <2> QED BY <1>0, <1>m, <1>2, <2>1 DEF Told, IRight, CacheRight
<1>3. CASE RoomIds(s)
  <2> DEFINE u == req[s].user
             q == [req[s] EXCEPT !.pc = "count", !.ids = IdsOf(u),
                                 !.todo = Asked[req[s].route],
                                 !.value = [f \in Asked[req[s].route] |-> 0]]
  <2>1. req[s].pc = "ids" /\ u \in User /\ req' = [req EXCEPT ![s] = q]
    BY <1>0, <1>3 DEF RoomIds, At, WellFormed
  <2>2. /\ q.pc = "count" /\ q.user = u /\ q.route = req[s].route
        /\ q.ids = IdsOf(u) /\ q.todo = Asked[q.route]
    BY <1>0 DEF WellFormed
  <2>3. u \in Admins => IdsOf(u) = {}
    BY DEF IdsOf
  <2>4. u \notin Admins => IdsOf(u) # {}
    BY <1>0, <2>1 DEF IdsOf, Matching, HomesStay, EveryOwnerHasAHome
  <2>5. u \notin Admins => \E at \in moments : IdsOf(u) = Matching(u, at.rooms)
    BY <1>0 DEF IdsOf, DataTyped, Now
  <2> HIDE DEF q
  <2>6. RightSoFar(moments, q)
    BY <2>2, <2>3, <2>4, <2>5 DEF RightSoFar
  <2>7. RequestsRight'
    BY <1>0, <1>m, <2>1, <2>6, ReplacedRight
  <2> QED BY <1>0, <1>m, <1>3, <2>7 DEF RoomIds, IRight, CacheRight
<1>4. ASSUME NEW f \in Field, CountOne(s, f) PROVE IRight'
  <2> DEFINE n == IF f = "rooms" THEN Cardinality(Matching(req[s].user, rooms))
                  ELSE Cardinality(Found(f, req[s].ids))
             q == [req[s] EXCEPT !.todo = @ \ {f}, !.value[f] = n,
                                 !.pc = IF req[s].todo = {f} THEN "set" ELSE "count"]
  <2>1. req[s].pc = "count" /\ f \in req[s].todo /\ req' = [req EXCEPT ![s] = q]
    BY <1>4 DEF CountOne, At
  <2>2. WasRight(moments, f, req[s].user, n)
    BY <1>0, <2>1, CountRight
  <2>3. f \in Asked[req[s].route] /\ req[s].value \in [Asked[req[s].route] -> Nat]
    BY <1>0, <2>1 DEF WellFormed, Answers
  <2> HIDE DEF n
  <2>4. /\ q.pc = IF req[s].todo = {f} THEN "set" ELSE "count"
        /\ q.user = req[s].user /\ q.route = req[s].route /\ q.ids = req[s].ids
        /\ q.todo = req[s].todo \ {f} /\ q.value = [req[s].value EXCEPT ![f] = n]
    BY <1>0 DEF WellFormed
  <2> HIDE DEF q
  <2>5. ASSUME NEW g \in Asked[q.route] \ q.todo
        PROVE  WasRight(moments, g, q.user, q.value[g])
    <3>1. CASE g = f
      BY <2>2, <2>3, <2>4, <3>1
    <3>2. CASE g # f
      <4>1. g \in Asked[req[s].route] \ req[s].todo /\ q.value[g] = req[s].value[g]
        BY <2>3, <2>4, <3>2
      <4> QED BY <1>0, <2>1, <2>4, <4>1 DEF RightSoFar
    <3> QED BY <3>1, <3>2
  <2>6. CASE req[s].todo = {f}
    <3>1. q.pc = "set" /\ q.todo = {}
      BY <2>4, <2>6
    <3>2. RightSoFar(moments, q)
      BY <2>5, <3>1 DEF RightSoFar
    <3> QED BY <1>0, <1>m, <1>4, <2>1, <3>2, ReplacedRight DEF CountOne, IRight, CacheRight
  <2>7. CASE req[s].todo # {f}
    <3>1. q.pc = "count"
      BY <2>4, <2>7
    <3>2. RightSoFar(moments, q)
      BY <1>0, <2>1, <2>4, <2>5, <3>1 DEF RightSoFar
    <3> QED BY <1>0, <1>m, <1>4, <2>1, <3>2, ReplacedRight DEF CountOne, IRight, CacheRight
  <2> QED BY <2>6, <2>7
<1>5. CASE CacheSet(s)
  <2> DEFINE k == Key(req[s].user, req[s].route)
  <2>1. RequestsRight'
    BY <1>0, <1>m, <1>5, ReplacedRight, BlankRight DEF CacheSet, Done
  <2>2. /\ k \in User \X Route /\ k[2] = req[s].route /\ k[1] = req[s].user
        /\ Entry(req[s].value).value = req[s].value
    BY <1>0, <1>5 DEF CacheSet, At, WellFormed, Key, Entry
  <2>3. RightEntry(moments, k, Entry(req[s].value))
    BY <1>0, <1>5, <2>2 DEF CacheSet, At, RightSoFar, RightEntry
  <2>4. CacheRight'
    <3>1. CASE cache' = [cache EXCEPT ![k] = Entry(req[s].value)]
      BY <1>0, <1>m, <2>2, <2>3, <3>1 DEF CacheTyped, CacheRight
    <3>2. CASE cache' = cache
      BY <1>0, <1>m, <3>2 DEF CacheRight
    <3> QED BY <1>5, <3>1, <3>2 DEF CacheSet
  <2> QED BY <1>m, <2>1, <2>4 DEF IRight
<1> QED BY <1>1, <1>2, <1>3, <1>4, <1>5 DEF Step

\* A change in the collections, or in the age of an entry, takes no moment back.
LEMMA OthersRight ==
  ASSUME IType, IRight, [Next]_vars, ~ \E s \in Slot : Step(s) PROVE IRight'
<1>0. RequestsTyped /\ CacheTyped /\ DataTyped /\ HomesStay /\ CacheRight /\ RequestsRight
  BY DEF IType, IRight
<1>1. CASE \E s \in Slot : Arrive(s)
  <2>1. PICK s \in Slot : Arrive(s)
    BY <1>1
  <2>2. PICK x \in Asks :
          req' = [req EXCEPT ![s] = [Blank EXCEPT !.pc = "get", !.user = x[1], !.route = x[2]]]
    BY <2>1 DEF Arrive
  <2>3. RightSoFar(moments, [Blank EXCEPT !.pc = "get", !.user = x[1], !.route = x[2]])
    BY DEF RightSoFar, Blank
  <2>4. RequestsRight'
    BY <1>0, <2>1, <2>2, <2>3, ReplacedRight DEF Arrive, data
  <2> QED BY <1>0, <2>1, <2>4 DEF Arrive, data, IRight, CacheRight, HomesStay
<1>2. CASE \E s \in Slot : QueryFails(s)
  <2>1. RequestsRight'
    BY <1>0, <1>2, ReplacedRight, BlankRight DEF QueryFails, Done, data
  <2> QED BY <1>0, <1>2, <2>1 DEF QueryFails, data, IRight, CacheRight, HomesStay
<1>3. CASE Tick
  <2>1. ASSUME NEW k \in User \X Route, cache'[k] # None
        PROVE  cache[k] # None /\ cache'[k].value = cache[k].value
    <3>1. cache'[k] = IF cache[k] = None \/ cache[k].age + 1 = TTL THEN None
                      ELSE [cache[k] EXCEPT !.age = @ + 1]
      BY <1>0, <1>3 DEF Tick, CacheTyped
    <3>2. cache[k] # None /\ cache'[k] = [cache[k] EXCEPT !.age = @ + 1]
      BY <2>1, <3>1
    <3>3. cache[k] \in [value : Figures, age : 0..(TTL - 1)]
      BY <1>0, <3>2 DEF CacheTyped
    <3> QED BY <3>2, <3>3
  <2>2. CacheRight'
    BY <1>0, <1>3, <2>1 DEF Tick, data, CacheRight, RightEntry
  <2> QED BY <1>0, <1>3, <2>2 DEF Tick, data, IRight, RequestsRight, HomesStay
<1>4. CASE Change
  <2>1. moments \subseteq moments'
    BY <1>4 DEF Change
  <2>2. HomesStay'
    BY <1>0, <1>4 DEF Change, HomesStay
  <2>3. CacheRight' /\ RequestsRight'
    BY <1>0, <1>4, <2>1, OnceRight DEF Change, CacheRight, RequestsRight
  <2> QED BY <2>2, <2>3 DEF IRight
<1>5. CASE UNCHANGED vars
  BY <1>0, <1>5 DEF vars, data, IRight, HomesStay, CacheRight, RequestsRight
<1> QED BY <1>1, <1>2, <1>3, <1>4, <1>5 DEF Next

\* Where every owner keeps a room, each figure anybody is told, fresh or from
\* the cache, counted the documents in their own rooms (an admin: in all) as
\* they were at some moment, whatever changed, failed or ran together meanwhile.
THEOREM TheAnswersWereTrue ==
  ASSUME EveryOwnerHasAHome PROVE Spec => []AnswersWereTrue
<1>1. IRight => AnswersWereTrue
  BY DEF IRight, RequestsRight, RightSoFar, WasRight, AnswersWereTrue, At
<1>2. IType /\ IRight /\ [Next]_vars => IType' /\ IRight'
  BY NextTyped, StepRight, OthersRight
<1> QED BY <1>1, <1>2, InitTyped, InitRight, PTL DEF Spec
=============================================================================

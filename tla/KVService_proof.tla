--------------------------- MODULE KVService_proof --------------------------
(***************************************************************************)
(* Proofs about the key-value service, for any tables, keys and values.    *)
(***************************************************************************)
EXTENDS KVService, TLAPS

(* The request fits the step it is at.                                     *)
ReqFits ==
    /\ pc \in {"lookup", "read", "fill"} =>
           req \in [op : {"get"}, table : Tables, key : Keys]
    /\ pc \in {"write", "refresh"} =>
           req \in [op : {"put"}, table : Tables, key : Keys, value : Values, ttl : Ttls]
    /\ pc \in {"erase", "invalidate"} =>
           req \in [op : {"del"}, table : Tables, key : Keys]
    /\ pc = "create" => req \in [op : {"create"}, table : Tables]
    /\ pc \in {"accept", "exited"} => req = None

(* What GET is about to cache, and what a write is about to refresh, is    *)
(* what MySQL holds now: requests do not overlap.                          *)
AboutToCache ==
    /\ pc = "fill" => val # None /\ val = db[req.table][req.key]
    /\ pc = "refresh" => req.value = db[req.table][req.key]

FromFits == \A k \in Keys : cache[k] # None => from[k] \in Tables

(* The two stores, apart from what the process is doing.                   *)
Stores == StaleOnlyIfMissed /\ FromFits

KVInv ==
    /\ TypeOK
    /\ ReqFits
    /\ AboutToCache
    /\ Stores
-----------------------------------------------------------------------------
(* What each primitive does to the two stores.                             *)
LEMMA NoEntryKeeps ==
    ASSUME Stores, NoEntry, UNCHANGED db
    PROVE  Stores'
  BY DEF Stores, StaleOnlyIfMissed, FromFits, Current, NoEntry

LEMMA EntryKeeps ==
    ASSUME TypeOK, Stores, UNCHANGED db,
           NEW k \in Keys, NEW v, NEW t, Entry(k, v, t),
           v # None => t \in Tables /\ v = db[t][k]
    PROVE  Stores'
  BY DEF TypeOK, Stores, StaleOnlyIfMissed, FromFits, Current, Entry

LEMMA EntryTyped ==
    ASSUME TypeOK, NEW k \in Keys, NEW v \in Values \cup {None},
           NEW t \in Tables \cup {None}, Entry(k, v, t)
    PROVE  /\ cache' \in [Keys -> Values \cup {None}]
           /\ from' \in [Keys -> Tables \cup {None}]
           /\ dirty' \in SUBSET Keys
  BY DEF TypeOK, Entry

LEMMA StoreKeeps ==
    ASSUME TypeOK, Stores, NEW t \in Tables, NEW k \in Keys,
           NEW v \in Values \cup {None}, Store(t, k, v)
    PROVE  /\ Stores'
           /\ db' \in [Tables -> [Keys -> Values \cup {None}]]
           /\ db'[t][k] = v
           /\ dirty' \in SUBSET Keys
<1>1. db' \in [Tables -> [Keys -> Values \cup {None}]] /\ db'[t][k] = v
    BY DEF TypeOK, Store
<1>2. \A u \in Tables, j \in Keys : j # k => db'[u][j] = db[u][j]
    BY DEF TypeOK, Store
<1>3. dirty' \in SUBSET Keys /\ dirty \subseteq dirty'
    BY DEF TypeOK, Store, Overtaken
<1>4. cache[k] # None => k \in dirty'
    BY DEF Store, Overtaken
<1>5. StaleOnlyIfMissed'
    BY <1>2, <1>3, <1>4
       DEF Stores, StaleOnlyIfMissed, FromFits, Current, Store
<1>6. FromFits'
    BY DEF Stores, FromFits, Store
<1> QED
    BY <1>1, <1>3, <1>5, <1>6 DEF Stores

LEMMA WipeKeeps ==
    ASSUME cache' = [k \in Keys |-> None]
    PROVE  Stores'
  BY DEF Stores, StaleOnlyIfMissed, FromFits, Current
-----------------------------------------------------------------------------
LEMMA KVInitial == Init => KVInv
  BY KVAssumption
     DEF Init, KVInv, TypeOK, PCs, ReqFits, AboutToCache, Stores,
         StaleOnlyIfMissed, FromFits, Current

(* Steps that end a request, or the process, and leave both stores alone.  *)
LEMMA EndsQuietly ==
    ASSUME KVInv, UNCHANGED <<db, cache, from, dirty>>,
           pc' \in {"accept", "exited"}, req' = None, val' = None, ok' = TRUE,
           created' \in SUBSET Tables, redis' \in {"up", "down", "back"},
           reply' \in [status : {"ok", "not_found", "failed"},
                       value : Values \cup {None}] \cup {None}
    PROVE  KVInv'
  BY DEF KVInv, TypeOK, PCs, ReqFits, AboutToCache, Stores, StaleOnlyIfMissed,
         FromFits, Current

LEMMA AcceptKeeps == ASSUME KVInv, NEW r \in Requests, Accept(r) PROVE KVInv'
<1>1. r.op \in {"get", "put", "del", "create"}
    BY DEF Requests
<1>2. pc' \in PCs /\ pc' \notin {"fill", "refresh"} /\ UNCHANGED <<mysqlVars, redisVars, val, ok, reply>>
    BY <1>1 DEF Accept, FirstStep, PCs
<1>3. ReqFits'
    BY <1>1 DEF Accept, FirstStep, Requests, ReqFits
<1>4. TypeOK'
    BY <1>2 DEF KVInv, TypeOK, Accept, mysqlVars, redisVars
<1>5. AboutToCache'
    BY <1>2 DEF AboutToCache
<1>6. Stores'
    BY <1>2, NoEntryKeeps DEF KVInv, NoEntry, mysqlVars, redisVars
<1> QED
    BY <1>3, <1>4, <1>5, <1>6 DEF KVInv

LEMMA StartKeeps == KVInv /\ Start => KVInv'
<1> SUFFICES ASSUME KVInv, Start PROVE KVInv'
    OBVIOUS
<1>1. ReqFits' /\ AboutToCache' /\ TypeOK'
    BY DEF KVInv, TypeOK, PCs, ReqFits, AboutToCache, Start, mysqlVars
<1>2. Stores'
    BY NoEntryKeeps DEF KVInv, Start, NoEntry, mysqlVars
<1> QED
    BY <1>1, <1>2 DEF KVInv

(* A lookup that found nothing goes on to MySQL.                           *)
LEMMA LookupKeeps == KVInv /\ (LookupHit \/ LookupMiss \/ LookupFails) => KVInv'
<1> SUFFICES ASSUME KVInv, LookupHit \/ LookupMiss \/ LookupFails PROVE KVInv'
    OBVIOUS
<1>1. CASE LookupHit
  <2>1. cache[req.key] \in Values
      BY <1>1, KVAssumption DEF KVInv, TypeOK, ReqFits, LookupHit
  <2>2. reply' = Reply("ok", cache[req.key])
      BY <1>1 DEF LookupHit, Respond
  <2> QED
      BY <1>1, <2>1, <2>2, EndsQuietly
         DEF LookupHit, Respond, Done, Reply, Executed, NoEntry, mysqlVars, KVInv, TypeOK
<1>2. CASE LookupMiss \/ LookupFails
  <2>1. /\ pc = "lookup" /\ GoTo("read") /\ NoEntry /\ UNCHANGED mysqlVars
        /\ redis' \in {"up", "down", "back"}
      BY <1>2 DEF LookupMiss, LookupFails, Executed, Refused, Dropped
  <2>2. ReqFits' /\ AboutToCache' /\ TypeOK'
      BY <2>1 DEF KVInv, TypeOK, PCs, ReqFits, AboutToCache, GoTo, NoEntry, mysqlVars
  <2>3. Stores'
      BY <2>1, NoEntryKeeps DEF KVInv, mysqlVars
  <2> QED
      BY <2>2, <2>3 DEF KVInv
<1> QED
    BY <1>1, <1>2

LEMMA ReadKeeps == KVInv /\ (Read \/ ReadFails) => KVInv'
<1> SUFFICES ASSUME KVInv, Read \/ ReadFails PROVE KVInv'
    OBVIOUS
<1> USE DEF mysqlVars, redisVars
<1>1. CASE Respond("not_found", None)
    BY <1>1, EndsQuietly DEF Read, ReadFails, Respond, Done, Reply, KVInv, TypeOK
<1>2. CASE Read /\ ~Respond("not_found", None)
  <2>1. /\ pc = "read" /\ pc' = "fill" /\ UNCHANGED <<req, ok, reply>>
        /\ req.table \in created
        /\ db[req.table][req.key] # None /\ val' = db[req.table][req.key]
        /\ UNCHANGED <<mysqlVars, redisVars>>
      BY <1>2 DEF Read
  <2>2. req \in [op : {"get"}, table : Tables, key : Keys]
      BY <2>1 DEF KVInv, ReqFits
  <2>3. val' \in Values
      BY <2>1, <2>2 DEF KVInv, TypeOK
  <2>4. TypeOK'
      BY <2>1, <2>3 DEF KVInv, TypeOK, PCs
  <2>5. ReqFits' /\ AboutToCache'
      BY <2>1, <2>2 DEF ReqFits, AboutToCache
  <2>6. Stores'
      BY <2>1, NoEntryKeeps DEF KVInv, NoEntry
  <2> QED
      BY <2>4, <2>5, <2>6 DEF KVInv
<1> QED
    BY <1>1, <1>2 DEF ReadFails

(* Steps that end a request after a command on the entry of its key.       *)
LEMMA EndsWithEntry ==
    ASSUME KVInv, NEW k \in Keys, NEW v \in Values \cup {None}, NEW t \in Tables \cup {None},
           NoEntry \/ Entry(k, v, t), v # None => t \in Tables /\ v = db[t][k],
           NEW s \in {"ok", "failed"}, NEW a \in Values \cup {None},
           Respond(s, a), UNCHANGED mysqlVars, redis' \in {"up", "down", "back"}
    PROVE  KVInv'
<1>1. /\ cache' \in [Keys -> Values \cup {None}]
      /\ from' \in [Keys -> Tables \cup {None}]
      /\ dirty' \in SUBSET Keys
    BY EntryTyped DEF KVInv, TypeOK, NoEntry
<1>2. Stores'
    BY EntryKeeps, NoEntryKeeps DEF KVInv, mysqlVars
<1>3. TypeOK'
    BY <1>1 DEF KVInv, TypeOK, PCs, Respond, Done, Reply, mysqlVars
<1>4. ReqFits' /\ AboutToCache'
    BY DEF ReqFits, AboutToCache, Respond, Done
<1> QED
    BY <1>2, <1>3, <1>4 DEF KVInv

LEMMA FillKeeps == KVInv /\ (Fill \/ FillFails) => KVInv'
<1> SUFFICES ASSUME KVInv, Fill \/ FillFails PROVE KVInv'
    OBVIOUS
<1>1. /\ pc = "fill" /\ Respond("ok", val) /\ UNCHANGED mysqlVars
      /\ NoEntry \/ Entry(req.key, val, req.table)
      /\ redis' \in {"up", "down", "back"}
    BY DEF Fill, FillFails, Executed, Refused, Dropped
<1>2. req.key \in Keys /\ req.table \in Tables /\ val \in Values \cup {None}
    BY <1>1 DEF KVInv, TypeOK, ReqFits
<1>3. val = db[req.table][req.key]
    BY <1>1 DEF KVInv, AboutToCache
<1> QED
    BY <1>1, <1>2, <1>3, EndsWithEntry

(* A write or a delete that reached MySQL, reported or not.                *)
LEMMA WriteKeeps == KVInv /\ (Write \/ WriteFails \/ WriteNoTable) => KVInv'
<1> SUFFICES ASSUME KVInv, Write \/ WriteFails \/ WriteNoTable PROVE KVInv'
    OBVIOUS
<1>1. /\ req.table \in Tables /\ req.key \in Keys /\ req.value \in Values
      /\ req \in [op : {"put"}, table : Tables, key : Keys, value : Values, ttl : Ttls]
    BY DEF KVInv, ReqFits, Write, WriteFails, WriteNoTable
<1>2. CASE UNCHANGED <<mysqlVars, redisVars>> /\ Respond("failed", None)
    BY <1>2, EndsQuietly DEF Respond, Done, Reply, KVInv, TypeOK, mysqlVars, redisVars
<1>3. CASE Store(req.table, req.key, req.value)
           /\ (GoTo("refresh") \/ Respond("failed", None))
  <2>1. /\ Stores' /\ db' \in [Tables -> [Keys -> Values \cup {None}]]
        /\ db'[req.table][req.key] = req.value /\ dirty' \in SUBSET Keys
      BY <1>1, <1>3, StoreKeeps DEF KVInv
  <2>2. TypeOK'
    <3>1. UNCHANGED <<created, cache, redis, from>>
        BY <1>3 DEF Store
    <3>2. CASE GoTo("refresh")
        BY <2>1, <3>1, <3>2 DEF KVInv, TypeOK, PCs, GoTo
    <3>3. CASE Respond("failed", None)
        BY <2>1, <3>1, <3>3 DEF KVInv, TypeOK, PCs, Respond, Done, Reply
    <3> QED
        BY <1>3, <3>2, <3>3
  <2>3. ReqFits' /\ AboutToCache'
      BY <1>1, <1>3, <2>1 DEF ReqFits, AboutToCache, GoTo, Respond, Done
  <2> QED
      BY <2>1, <2>2, <2>3 DEF KVInv
<1> QED
    BY <1>2, <1>3 DEF Write, WriteFails, WriteNoTable

LEMMA RefreshKeeps == KVInv /\ (Refresh \/ RefreshFails) => KVInv'
<1> SUFFICES ASSUME KVInv, Refresh \/ RefreshFails PROVE KVInv'
    OBVIOUS
<1>1. /\ pc = "refresh" /\ Respond("ok", None) /\ UNCHANGED mysqlVars
      /\ NoEntry \/ Entry(req.key, req.value, req.table)
      /\ redis' \in {"up", "down", "back"}
    BY DEF Refresh, RefreshFails, Executed, Refused, Dropped
<1>2. req.key \in Keys /\ req.table \in Tables /\ req.value \in Values
    BY <1>1 DEF KVInv, ReqFits
<1>3. req.value = db[req.table][req.key]
    BY <1>1 DEF KVInv, AboutToCache
<1> QED
    BY <1>1, <1>2, <1>3, EndsWithEntry

LEMMA EraseKeeps == KVInv /\ (Erase \/ EraseNoTable \/ EraseFails) => KVInv'
<1> SUFFICES ASSUME KVInv, Erase \/ EraseNoTable \/ EraseFails PROVE KVInv'
    OBVIOUS
<1>1. /\ req \in [op : {"del"}, table : Tables, key : Keys]
      /\ req.table \in Tables /\ req.key \in Keys
    BY DEF KVInv, ReqFits, Erase, EraseNoTable, EraseFails
<1>2. pc' = "invalidate" /\ ok' \in BOOLEAN /\ UNCHANGED <<req, val, reply>>
    BY DEF Erase, EraseNoTable, EraseFails, DeleteReports
<1>3. ReqFits' /\ AboutToCache'
    BY <1>1, <1>2 DEF ReqFits, AboutToCache
<1>4. CASE UNCHANGED <<mysqlVars, redisVars>>
  <2>1. TypeOK'
      BY <1>2, <1>4 DEF KVInv, TypeOK, PCs, mysqlVars, redisVars
  <2>2. Stores'
      BY <1>4, NoEntryKeeps DEF KVInv, NoEntry, mysqlVars, redisVars
  <2> QED
      BY <1>3, <2>1, <2>2 DEF KVInv
<1>5. CASE Store(req.table, req.key, None)
  <2>1. /\ Stores' /\ db' \in [Tables -> [Keys -> Values \cup {None}]]
        /\ dirty' \in SUBSET Keys
      BY <1>1, <1>5, StoreKeeps DEF KVInv
  <2>2. TypeOK'
      BY <1>2, <1>5, <2>1 DEF KVInv, TypeOK, PCs, Store
  <2> QED
      BY <1>3, <2>1, <2>2 DEF KVInv
<1> QED
    BY <1>4, <1>5 DEF Erase, EraseNoTable, EraseFails

LEMMA InvalidateKeeps == KVInv /\ (Invalidate \/ InvalidateFails) => KVInv'
<1> SUFFICES ASSUME KVInv, Invalidate \/ InvalidateFails PROVE KVInv'
    OBVIOUS
<1>1. /\ pc = "invalidate" /\ Deleted /\ UNCHANGED mysqlVars
      /\ NoEntry \/ Entry(req.key, None, None)
      /\ redis' \in {"up", "down", "back"}
    BY DEF Invalidate, InvalidateFails, Executed, Refused, Dropped
<1>2. req.key \in Keys
    BY <1>1 DEF KVInv, ReqFits
<1>3. PICK s \in {"ok", "failed"} : Respond(s, None)
    BY <1>1 DEF Deleted
<1> QED
    BY <1>1, <1>2, <1>3, EndsWithEntry

LEMMA CreateKeeps == KVInv /\ (CreateTable \/ CreateFails) => KVInv'
<1> SUFFICES ASSUME KVInv, CreateTable \/ CreateFails PROVE KVInv'
    OBVIOUS
<1>1. req.table \in Tables
    BY DEF KVInv, ReqFits, CreateTable, CreateFails
<1>2. created' \in SUBSET Tables
    BY <1>1 DEF KVInv, TypeOK, CreateTable, CreateFails, mysqlVars
<1> QED
    BY <1>2, EndsQuietly
       DEF CreateTable, CreateFails, Done, KVInv, TypeOK, mysqlVars, redisVars
-----------------------------------------------------------------------------
(* The world outside the process.                                          *)

LEMMA ExitKeeps == KVInv /\ (RedisCallThrows \/ Crash) => KVInv'
  BY EndsQuietly
     DEF RedisCallThrows, RedisGone, Crash, Exit, NoEntry, KVInv, TypeOK, mysqlVars, redisVars

(* The process does not move, and neither does MySQL.                      *)
LEMMA RedisAloneKeeps ==
    ASSUME KVInv, UNCHANGED <<mysqlVars, procVars>>, Stores',
           redis' \in {"up", "down", "back"},
           cache' \in [Keys -> Values \cup {None}],
           from' \in [Keys -> Tables \cup {None}], dirty' \in SUBSET Keys
    PROVE  KVInv'
<1>1. TypeOK'
    BY DEF KVInv, TypeOK, mysqlVars, procVars
<1>2. ReqFits' /\ AboutToCache'
    BY DEF KVInv, ReqFits, AboutToCache, mysqlVars, procVars
<1> QED
    BY <1>1, <1>2 DEF KVInv

LEMMA RedisFaultKeeps == KVInv /\ (RedisStops \/ RedisReturns \/ Disconnect) => KVInv'
<1> SUFFICES ASSUME KVInv, RedisStops \/ RedisReturns \/ Disconnect PROVE KVInv'
    OBVIOUS
<1>1. UNCHANGED <<mysqlVars, procVars>> /\ redis' \in {"up", "down", "back"}
    BY DEF RedisStops, RedisReturns, Disconnect
<1>2. CASE NoEntry
  <2>1. Stores'
      BY <1>1, <1>2, NoEntryKeeps DEF KVInv, mysqlVars
  <2> QED
      BY <1>1, <1>2, <2>1, RedisAloneKeeps DEF KVInv, TypeOK, NoEntry
<1>3. CASE /\ cache' = [k \in Keys |-> None] /\ from' = [k \in Keys |-> None] /\ dirty' = {}
    BY <1>1, <1>3, WipeKeeps, RedisAloneKeeps
<1> QED
    BY <1>2, <1>3 DEF RedisStops, RedisReturns, Disconnect

LEMMA ExpireKeeps == ASSUME KVInv, NEW k \in Keys, Expire(k) PROVE KVInv'
<1>1. Entry(k, None, None) /\ UNCHANGED <<mysqlVars, redis, procVars>>
    BY DEF Expire
<1>2. Stores'
    BY <1>1, EntryKeeps DEF KVInv, mysqlVars
<1> QED
    BY <1>1, <1>2, EntryTyped, RedisAloneKeeps DEF KVInv, TypeOK

LEMMA StutterKeeps == KVInv /\ UNCHANGED vars => KVInv'
  BY DEF KVInv, TypeOK, ReqFits, AboutToCache, Stores, StaleOnlyIfMissed, FromFits, Current,
         vars, mysqlVars, redisVars, procVars
-----------------------------------------------------------------------------
LEMMA KVStep == KVInv /\ [Next]_vars => KVInv'
<1> SUFFICES ASSUME KVInv, [Next]_vars PROVE KVInv'
    OBVIOUS
<1>1. CASE CalmNext
    BY <1>1, AcceptKeeps, LookupKeeps, ReadKeeps, FillKeeps, WriteKeeps, RefreshKeeps,
       EraseKeeps, InvalidateKeeps, CreateKeeps, ExpireKeeps DEF CalmNext, Serve
<1>2. CASE Fault
    BY <1>2, LookupKeeps, ReadKeeps, FillKeeps, WriteKeeps, RefreshKeeps, EraseKeeps,
       InvalidateKeeps, CreateKeeps, ExitKeeps, RedisFaultKeeps DEF Fault
<1> QED
    BY <1>1, <1>2, StartKeeps, StutterKeeps DEF Next

(* The service, through every failure and restart, keeps its variables in  *)
(* the sets the code gives them, and whatever GET or SETEX is about to     *)
(* cache is what MySQL holds at that moment.                               *)
THEOREM KVInvariant == Spec => []KVInv
<1>1. Init /\ [][Next]_vars => []KVInv
    BY KVInitial, KVStep, PTL
<1> QED
    BY <1>1, PTL DEF Spec

THEOREM KVTypeCorrect == Spec => []TypeOK
<1>1. KVInv => TypeOK
    BY DEF KVInv
<1> QED
    BY <1>1, KVInvariant, PTL

(* main.cpp writes MySQL first and Redis second: whatever fails, a cached  *)
(* value differs from MySQL's only if some SETEX or DEL was missed.        *)
THEOREM StaleOnlyAfterAMiss == Spec => []StaleOnlyIfMissed
<1>1. KVInv => StaleOnlyIfMissed
    BY DEF KVInv, Stores
<1> QED
    BY <1>1, KVInvariant, PTL
-----------------------------------------------------------------------------
(* Nothing fails.  The only key whose cached value may be behind MySQL is  *)
(* the one the request being served has just written.                      *)
Unsettled == IF pc \in {"refresh", "invalidate"} THEN {req.key} ELSE {}

CalmInv == KVInv /\ dirty \subseteq Unsettled

LEMMA StoreDirties ==
    ASSUME dirty = {}, NEW t, NEW k, NEW v, Store(t, k, v)
    PROVE  dirty' \subseteq {k}
  BY DEF Store, Overtaken

LEMMA CalmStep ==
    ASSUME Ttls = {TRUE}, CalmInv, [CalmNext]_vars
    PROVE  CalmInv'
<1>1. KVInv'
    BY KVStep DEF CalmInv, Next
<1>2. pc \notin {"refresh", "invalidate"} => dirty = {}
    BY DEF CalmInv, Unsettled
<1>3. (\E r \in Requests : Accept(r)) => dirty' \subseteq Unsettled'
    BY <1>2 DEF Accept, Unsettled, redisVars
<1>4. LookupHit \/ LookupMiss \/ Read \/ WriteNoTable \/ CreateTable
        => dirty' \subseteq Unsettled'
    BY <1>2 DEF LookupHit, LookupMiss, Read, WriteNoTable, CreateTable, NoEntry,
                Unsettled, redisVars
<1>5. Fill => dirty' \subseteq Unsettled'
    BY <1>2 DEF Fill, Entry, Unsettled
<1>6. Write => dirty' \subseteq Unsettled'
    BY <1>2, StoreDirties DEF Write, GoTo, Unsettled
<1>7. Erase => dirty' \subseteq Unsettled'
    BY <1>2, StoreDirties DEF Erase, DeleteReports, Unsettled
<1>8. EraseNoTable => dirty' \subseteq Unsettled'
    BY <1>2 DEF EraseNoTable, redisVars, Unsettled
<1>9. Refresh => dirty' \subseteq Unsettled'
  <2> SUFFICES ASSUME Refresh PROVE dirty' \subseteq Unsettled'
      OBVIOUS
  <2>1. req.ttl = TRUE
      BY DEF Refresh, CalmInv, KVInv, ReqFits
  <2>2. dirty' = dirty \ {req.key} /\ dirty \subseteq {req.key}
      BY <2>1 DEF Refresh, Entry, CalmInv, Unsettled
  <2> QED
      BY <2>2
<1>10. Invalidate => dirty' \subseteq Unsettled'
    BY DEF Invalidate, Entry, CalmInv, Unsettled
<1>11. (\E k \in Keys : Expire(k)) => dirty' \subseteq Unsettled'
    BY DEF Expire, Entry, CalmInv, Unsettled, procVars
<1>12. UNCHANGED vars => dirty' \subseteq Unsettled'
    BY DEF CalmInv, Unsettled, vars, redisVars, procVars
<1> QED
    BY <1>1, <1>3, <1>4, <1>5, <1>6, <1>7, <1>8, <1>9, <1>10, <1>11, <1>12
       DEF CalmInv, CalmNext, Serve

LEMMA CalmInvariant ==
    ASSUME Ttls = {TRUE}
    PROVE  Init /\ [][CalmNext]_vars => []CalmInv
<1>1. Init => CalmInv
    BY KVInitial DEF Init, CalmInv
<1>2. CalmInv /\ [CalmNext]_vars => CalmInv'
    BY CalmStep
<1> QED
    BY <1>1, <1>2, PTL

(* When nothing fails and every ttl is positive, the write-through policy  *)
(* works: between two requests the cache is never behind MySQL, however    *)
(* many tables there are.                                                  *)
THEOREM WriteThroughWorks ==
    ASSUME Ttls = {TRUE}
    PROVE  CalmSpec => []CoherentBetweenRequests
<1>1. CalmInv => CoherentBetweenRequests
    BY DEF CalmInv, KVInv, Stores, StaleOnlyIfMissed, CoherentBetweenRequests, Unsettled
<1> QED
    BY <1>1, CalmInvariant, PTL DEF CalmSpec
-----------------------------------------------------------------------------
(* A client of one table: the service implements KVStore.                  *)
OneTable == DefaultTable \in created /\ ok = TRUE

LEMMA OneTableInvariant ==
    ASSUME Tables = {DefaultTable}, Ttls = {TRUE}
    PROVE  Init /\ [][CalmNext]_vars => [](CalmInv /\ OneTable)
<1>1. Init => OneTable
    BY DEF Init, OneTable
<1>2. CalmInv /\ OneTable /\ [CalmNext]_vars => OneTable'
  <2> SUFFICES ASSUME CalmInv, OneTable, [CalmNext]_vars PROVE OneTable'
      OBVIOUS
  <2>1. EraseNoTable => FALSE
      BY DEF CalmInv, KVInv, ReqFits, OneTable, EraseNoTable
  <2> QED
      BY <2>1 DEF OneTable, CalmNext, Serve, Accept, LookupHit, LookupMiss, Read, Fill,
         Write, WriteNoTable, Refresh, Erase, Invalidate, CreateTable, Expire,
         Store, GoTo, Respond, Done, Deleted, DeleteReports, vars, mysqlVars, procVars
<1> QED
    BY <1>1, <1>2, CalmInvariant, PTL

(* What a client sees of a request.                                        *)
LEMMA Views ==
    /\ ClientView(None) = None
    /\ \A r \in Requests : r.op = "create" => ClientView(r) = None
    /\ \A r \in Requests :
           r.op = "put" => ClientView(r) = [op |-> "put", key |-> r.key, value |-> r.value]
    /\ \A r \in Requests :
           r.op \in {"get", "del"} => ClientView(r) = [op |-> r.op, key |-> r.key]
    /\ \A r \in Requests : r.op # "create" => ClientView(r) # None
<1>1. ClientView(None) = None
    BY DEF ClientView
<1>2. ASSUME NEW r \in Requests, r.op = "create" PROVE ClientView(r) = None
    BY <1>2 DEF ClientView
<1>3. ASSUME NEW r \in Requests, r.op = "put"
      PROVE  ClientView(r) = [op |-> "put", key |-> r.key, value |-> r.value]
  <2>1. r # None /\ r.op # "create"
      BY <1>3, NoneAssumption
  <2> QED
      BY <1>3, <2>1 DEF ClientView
<1>4. ASSUME NEW r \in Requests, r.op \in {"get", "del"}
      PROVE  ClientView(r) = [op |-> r.op, key |-> r.key]
  <2>1. r # None /\ r.op # "create" /\ r.op # "put"
      BY <1>4, NoneAssumption
  <2> QED
      BY <1>4, <2>1 DEF ClientView
<1>5. \A r \in Requests : r.op # "create" => ClientView(r) # None
    BY NoneAssumption
<1> QED
    BY <1>1, <1>2, <1>3, <1>4, <1>5

LEMMA MapsInit == Tables = {DefaultTable} /\ Init => Abstract!Init
<1> SUFFICES ASSUME Tables = {DefaultTable}, Init PROVE Abstract!Init
    OBVIOUS
<1>1. db[DefaultTable] \in [Keys -> Values \cup {None}]
    BY DEF Init
<1>2. ClientView(req) = None
    BY Views DEF Init
<1>3. ~(pc \in {"refresh", "invalidate"})
    BY DEF Init
<1>4. (pc \in {"refresh", "invalidate"}) = FALSE
    BY <1>3
<1> QED
    BY <1>1, <1>2, <1>4 DEF Init, Abstract!Init

(* The request at each step, as the abstract store sees it.                *)
LEMMA Serving ==
    ASSUME CalmInv
    PROVE  /\ pc \in {"lookup", "read", "fill"} =>
                  /\ req.key \in Keys /\ req.table \in Tables
                  /\ ClientView(req) = [op |-> "get", key |-> req.key]
           /\ pc \in {"write", "refresh"} =>
                  /\ req.key \in Keys /\ req.value \in Values /\ req.table \in Tables
                  /\ ClientView(req) = [op |-> "put", key |-> req.key, value |-> req.value]
           /\ pc \in {"erase", "invalidate"} =>
                  /\ req.key \in Keys /\ req.table \in Tables
                  /\ ClientView(req) = [op |-> "del", key |-> req.key]
           /\ pc = "create" => ClientView(req) = None
           /\ ~(pc \in {"accept", "create"}) /\ pc # "exited" => ClientView(req) # None
<1>1. /\ pc \in {"lookup", "read", "fill"} =>
             req \in Requests /\ req.op = "get" /\ req.key \in Keys /\ req.table \in Tables
      /\ pc \in {"write", "refresh"} =>
             /\ req \in Requests /\ req.op = "put" /\ req.key \in Keys
             /\ req.value \in Values /\ req.table \in Tables
      /\ pc \in {"erase", "invalidate"} =>
             req \in Requests /\ req.op = "del" /\ req.key \in Keys /\ req.table \in Tables
      /\ pc = "create" => req \in Requests /\ req.op = "create"
    BY DEF CalmInv, KVInv, ReqFits, Requests
<1>2. pc \in PCs
    BY DEF CalmInv, KVInv, TypeOK
<1> QED
    BY <1>1, <1>2, Views DEF PCs

(* Steps no client can tell: nothing was written and nothing answered.     *)
LEMMA Unnoticed ==
    ASSUME UNCHANGED <<db, reply>>, ClientView(req') = ClientView(req),
           pc \notin {"refresh", "invalidate"}, pc' \notin {"refresh", "invalidate"}
    PROVE  UNCHANGED Abstract!storeVars
  BY DEF Abstract!storeVars

LEMMA MapsAccept ==
    ASSUME CalmInv, NEW r \in Requests, Accept(r)
    PROVE  [Abstract!Next]_(Abstract!storeVars)
<1>1. /\ pc = "accept" /\ pc' \notin {"refresh", "invalidate"} /\ req' = r
      /\ UNCHANGED <<db, reply>>
  <2>1. r.op \in {"get", "put", "del", "create"}
      BY DEF Requests
  <2> QED
      BY <2>1 DEF Accept, FirstStep, mysqlVars
<1>2. ClientView(req) = None
    BY <1>1, Views DEF CalmInv, KVInv, ReqFits
<1>3. CASE r.op = "create"
  <2>1. ClientView(req') = None
      BY <1>1, <1>3, Views
  <2> QED
      BY <1>1, <1>2, <2>1, Unnoticed
<1>4. CASE r.op # "create"
  <2>1. ClientView(r) \in Abstract!StoreRequests
      BY <1>4, Views DEF Requests, Abstract!StoreRequests
  <2>2. Abstract!Invoke(ClientView(r))
      BY <1>1, <1>2 DEF Abstract!Invoke
  <2> QED
      BY <2>1, <2>2 DEF Abstract!Next
<1> QED
    BY <1>3, <1>4

(* A hit answers what MySQL holds, for nothing is unsettled.               *)
LEMMA MapsLookup ==
    ASSUME Tables = {DefaultTable}, CalmInv, LookupHit \/ LookupMiss
    PROVE  [Abstract!Next]_(Abstract!storeVars)
<1>1. /\ pc = "lookup" /\ req.key \in Keys
      /\ ClientView(req) = [op |-> "get", key |-> req.key] /\ ClientView(req) # None
    BY Serving DEF LookupHit, LookupMiss
<1>2. CASE LookupHit
  <2>1. cache[req.key] = db[DefaultTable][req.key]
      BY <1>1, <1>2 DEF LookupHit, CalmInv, KVInv, Stores, StaleOnlyIfMissed, FromFits,
         Current, Unsettled
  <2>2. /\ UNCHANGED db /\ pc' = "accept" /\ cache[req.key] # None
        /\ reply' = [status |-> "ok", value |-> cache[req.key]]
        /\ ClientView(req') = None
      BY <1>2, Views DEF LookupHit, Respond, Done, Reply, mysqlVars
  <2>3. Abstract!Read
      BY <1>1, <2>1, <2>2 DEF Abstract!Read
  <2> QED
      BY <2>3 DEF Abstract!Next, Abstract!Serve
<1>3. CASE LookupMiss
    BY <1>3, Unnoticed DEF LookupMiss, GoTo, mysqlVars
<1> QED
    BY <1>2, <1>3

LEMMA MapsRead ==
    ASSUME Tables = {DefaultTable}, CalmInv, OneTable, Read \/ Fill
    PROVE  [Abstract!Next]_(Abstract!storeVars)
<1>1. /\ pc \in {"read", "fill"} /\ req.key \in Keys /\ req.table = DefaultTable
      /\ ClientView(req) = [op |-> "get", key |-> req.key] /\ ClientView(req) # None
    BY Serving DEF Read, Fill
<1>2. UNCHANGED db /\ DefaultTable \in created
    BY DEF Read, Fill, mysqlVars, OneTable
<1>3. CASE pc' = "fill"
  <2>1. UNCHANGED <<req, reply>>
      BY <1>3 DEF Read, Fill, Respond, Done
  <2> QED
      BY <1>1, <1>2, <1>3, <2>1, Unnoticed
<1>4. CASE pc' # "fill"
  <2>1. /\ pc' = "accept" /\ req' = None
        /\ reply' = [status |-> IF db[DefaultTable][req.key] = None THEN "not_found" ELSE "ok",
                     value |-> db[DefaultTable][req.key]]
    <3>1. CASE Read
        BY <1>1, <1>2, <1>4, <3>1 DEF Read, Respond, Done, Reply
    <3>2. CASE Fill
        BY <1>1, <3>2 DEF Fill, Respond, Done, Reply, CalmInv, KVInv, AboutToCache
    <3> QED
        BY <3>1, <3>2
  <2>2. ClientView(req') = None
      BY <2>1, Views
  <2>3. Abstract!Read
      BY <1>1, <1>2, <2>1, <2>2 DEF Abstract!Read
  <2> QED
      BY <2>3 DEF Abstract!Next, Abstract!Serve
<1> QED
    BY <1>3, <1>4

(* The statement of MySQL is the abstract write, ...                       *)
LEMMA MapsWrite ==
    ASSUME Tables = {DefaultTable}, CalmInv, OneTable, Write \/ Erase
    PROVE  [Abstract!Next]_(Abstract!storeVars)
<1>1. /\ pc \in {"write", "erase"} /\ pc' \in {"refresh", "invalidate"}
      /\ UNCHANGED <<req, reply>>
    BY DEF Write, Erase, GoTo, DeleteReports
<1>2. req.key \in Keys /\ req.table = DefaultTable /\ ClientView(req) # None
    BY <1>1, Serving
<1>3. db \in [Tables -> [Keys -> Values \cup {None}]]
    BY DEF CalmInv, KVInv, TypeOK
<1>4. /\ ClientView(req).op \in {"put", "del"} /\ ClientView(req).key = req.key
      /\ db'[DefaultTable] = [db[DefaultTable] EXCEPT ![ClientView(req).key] =
             IF ClientView(req).op = "put" THEN ClientView(req).value ELSE None]
  <2>1. CASE Write
    <3>1. ClientView(req) = [op |-> "put", key |-> req.key, value |-> req.value]
        BY <2>1, Serving DEF Write
    <3> QED
        BY <1>2, <1>3, <2>1, <3>1 DEF Write, Store
  <2>2. CASE Erase
    <3>1. ClientView(req) = [op |-> "del", key |-> req.key]
        BY <2>2, Serving DEF Erase
    <3> QED
        BY <1>2, <1>3, <2>2, <3>1 DEF Erase, Store
  <2> QED
      BY <2>1, <2>2
<1>5. Abstract!Write
  <2>1. (pc' \in {"refresh", "invalidate"}) = TRUE /\ ~(pc \in {"refresh", "invalidate"})
      BY <1>1
  <2> QED
      BY <1>1, <1>2, <1>4, <2>1 DEF Abstract!Write
<1> QED
    BY <1>5 DEF Abstract!Next, Abstract!Serve

(* ... and the command to Redis acknowledges it.                           *)
LEMMA MapsAcknowledge ==
    ASSUME OneTable, Refresh \/ Invalidate
    PROVE  [Abstract!Next]_(Abstract!storeVars)
<1>1. /\ pc \in {"refresh", "invalidate"} /\ pc' = "accept" /\ req' = None
      /\ reply' = [status |-> "ok", value |-> None] /\ UNCHANGED db
    BY DEF Refresh, Invalidate, Deleted, Respond, Done, Reply, OneTable, mysqlVars
<1>2. ClientView(req') = None
    BY <1>1, Views
<1>3. (pc' \in {"refresh", "invalidate"}) = FALSE
    BY <1>1
<1>4. Abstract!Acknowledge
    BY <1>1, <1>2, <1>3 DEF Abstract!Acknowledge
<1> QED
    BY <1>4 DEF Abstract!Next, Abstract!Serve

LEMMA MapsCreate ==
    ASSUME CalmInv, CreateTable
    PROVE  [Abstract!Next]_(Abstract!storeVars)
<1>1. ClientView(req) = None /\ ClientView(req') = None
    BY Serving, Views DEF CreateTable, Done
<1> QED
    BY <1>1, Unnoticed DEF CreateTable, Done

LEMMA MapsNothing ==
    ASSUME UNCHANGED vars \/ \E k \in Keys : Expire(k)
    PROVE  [Abstract!Next]_(Abstract!storeVars)
  BY DEF Expire, vars, mysqlVars, procVars, Abstract!storeVars

LEMMA MapsStep ==
    ASSUME Tables = {DefaultTable}
    PROVE  (CalmInv /\ OneTable) /\ [CalmNext]_vars => [Abstract!Next]_(Abstract!storeVars)
<1> SUFFICES ASSUME CalmInv, OneTable, [CalmNext]_vars
             PROVE  [Abstract!Next]_(Abstract!storeVars)
    OBVIOUS
<1>1. ~WriteNoTable /\ ~EraseNoTable
    BY Serving DEF OneTable, WriteNoTable, EraseNoTable
<1> QED
    BY <1>1, MapsAccept, MapsLookup, MapsRead, MapsWrite, MapsAcknowledge, MapsCreate,
       MapsNothing DEF CalmNext, Serve

(* For a client of one table, nothing failing and every ttl positive, the  *)
(* cache cannot be told: every step of the service is a step of the plain  *)
(* store KVStore, or changes nothing of it.                                *)
THEOREM CacheIsTransparent ==
    ASSUME Tables = {DefaultTable}, Ttls = {TRUE}
    PROVE  CalmSpec => Abstract!Init /\ [][Abstract!Next]_(Abstract!storeVars)
<1>1. Init => Abstract!Init
    BY MapsInit
<1>2. (CalmInv /\ OneTable) /\ [CalmNext]_vars => [Abstract!Next]_(Abstract!storeVars)
    BY MapsStep
<1> QED
    BY <1>1, <1>2, OneTableInvariant, PTL DEF CalmSpec
=============================================================================

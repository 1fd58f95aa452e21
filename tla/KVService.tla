----------------------------- MODULE KVService ------------------------------
(***************************************************************************)
(* cpp-microservice/cpp-redis-mysql-ms: a key-value service that keeps its *)
(* data in MySQL tables and caches values in Redis.  One thread accepts a  *)
(* request, serves it and closes the connection, so requests never         *)
(* overlap; what is hard is a request of two stores: MySQL and Redis are   *)
(* written one after the other, and either may fail, or the process may    *)
(* die, in between.                                                        *)
(*                                                                         *)
(* Redis knows keys only.  The table of a request takes no part in the     *)
(* cache key.                                                              *)
(*                                                                         *)
(* MySQL and Redis are external.  A MySQL statement fails, or takes effect *)
(* and is reported (or, with the connection lost, not reported) done.  An  *)
(* entry of Redis may expire at any moment; Redis may stop, with or        *)
(* without its data, and come back.                                        *)
(***************************************************************************)
CONSTANTS
    Tables,        \* valid table names
    DefaultTable,  \* kv_store, created at startup
    Keys, Values,
    Ttls,          \* is the ttl of a write positive? a set of BOOLEANs
    None

ASSUME KVAssumption ==
    /\ DefaultTable \in Tables
    /\ Ttls \subseteq BOOLEAN
    /\ None \notin Values
    /\ None \notin Tables

VARIABLES
    created,  \* the tables that exist in MySQL
    db,       \* db[t][k]: the value of key k in table t, or None
    cache,    \* cache[k]: the value Redis holds for key k, or None
    redis,    \* "up"; "down"; "back": up again, but rds.ctx_ is dead
    pc,       \* the next step of the serving thread; "exited": no process
    req,      \* the request being served, or None
    val,      \* local variable `val` of GET /get, read from MySQL
    ok,       \* local variable `ok` of DELETE /del
    reply,    \* the answer to the last request that named a key
    from,     \* history: the table the cached value of k belongs to
    dirty     \* history: keys written in MySQL after they were cached

mysqlVars == <<created, db>>
redisVars == <<cache, redis, from, dirty>>
procVars == <<pc, req, val, ok, reply>>
vars == <<mysqlVars, redisVars, procVars>>

Requests ==
    [op : {"get", "del"}, table : Tables, key : Keys]
      \cup [op : {"put"}, table : Tables, key : Keys, value : Values, ttl : Ttls]
      \cup [op : {"create"}, table : Tables]

Reply(s, v) == [status |-> s, value |-> v]

Init ==
    /\ created = {DefaultTable}
    /\ db = [t \in Tables |-> [k \in Keys |-> None]]
    /\ cache = [k \in Keys |-> None]
    /\ redis = "up"
    /\ pc = "accept"
    /\ req = None
    /\ val = None
    /\ ok = TRUE
    /\ reply = None
    /\ from = [k \in Keys |-> None]
    /\ dirty = {}
-----------------------------------------------------------------------------
(* The process.                                                            *)

FirstStep == [get |-> "lookup", put |-> "write", del |-> "erase", create |-> "create"]

Accept(r) ==
    /\ pc = "accept"
    /\ req' = r
    /\ pc' = FirstStep[r.op]
    /\ UNCHANGED <<mysqlVars, redisVars, val, ok, reply>>

Done ==
    /\ pc' = "accept"
    /\ req' = None
    /\ val' = None
    /\ ok' = TRUE

Respond(s, v) == Done /\ reply' = Reply(s, v)

GoTo(step) ==
    /\ pc' = step
    /\ UNCHANGED <<req, val, ok, reply>>

(* The process is gone, with all its local state.                          *)
Exit ==
    /\ pc' = "exited"
    /\ req' = None
    /\ val' = None
    /\ ok' = TRUE
    /\ UNCHANGED reply

(* main() connects to both servers, and makes sure of the default table.   *)
Start ==
    /\ pc = "exited"
    /\ redis # "down"
    /\ redis' = "up"
    /\ pc' = "accept"
    /\ UNCHANGED <<mysqlVars, cache, from, dirty, req, val, ok, reply>>
-----------------------------------------------------------------------------
(* Commands of RedisClient.  Entry(k, v, t) is Redis after the value v,    *)
(* which table t holds, is stored under k; v is None when k is removed.    *)

Entry(k, v, t) ==
    /\ cache' = [cache EXCEPT ![k] = v]
    /\ from' = [from EXCEPT ![k] = t]
    /\ dirty' = dirty \ {k}

NoEntry == UNCHANGED <<cache, from, dirty>>

(* The command is executed and its reply received.                         *)
Executed == redis = "up" /\ UNCHANGED redis

(* redisCommandArgv returned NULL on a dead connection and reconnect()     *)
(* succeeded: the command was never sent.                                  *)
Refused == redis = "back" /\ redis' = "up" /\ NoEntry

(* The connection died under the command; reconnect() succeeded.           *)
Dropped == redis = "up" /\ UNCHANGED redis

(* reconnect() threw: the exception ends main().                           *)
RedisGone == redis = "down" /\ NoEntry /\ UNCHANGED redis /\ Exit
-----------------------------------------------------------------------------
(* GET /get                                                                *)

LookupHit ==
    /\ pc = "lookup"
    /\ Executed /\ NoEntry
    /\ cache[req.key] # None
    /\ Respond("ok", cache[req.key])
    /\ UNCHANGED mysqlVars

LookupMiss ==
    /\ pc = "lookup"
    /\ Executed /\ NoEntry
    /\ cache[req.key] = None
    /\ GoTo("read")
    /\ UNCHANGED mysqlVars

LookupFails ==
    /\ pc = "lookup"
    /\ Refused \/ (Dropped /\ NoEntry)
    /\ GoTo("read")
    /\ UNCHANGED mysqlVars

Read ==
    /\ pc = "read"
    /\ \/ /\ req.table \in created
          /\ db[req.table][req.key] # None
          /\ val' = db[req.table][req.key]
          /\ pc' = "fill"
          /\ UNCHANGED <<req, ok, reply>>
       \/ /\ req.table \in created => db[req.table][req.key] = None
          /\ Respond("not_found", None)
    /\ UNCHANGED <<mysqlVars, redisVars>>

(* get_value returns false for every error of MySQL, and the client gets   *)
(* the same 404 as for a key that does not exist.                          *)
ReadFails ==
    /\ pc = "read"
    /\ Respond("not_found", None)
    /\ UNCHANGED <<mysqlVars, redisVars>>

Fill ==
    /\ pc = "fill"
    /\ Executed /\ Entry(req.key, val, req.table)
    /\ Respond("ok", val)
    /\ UNCHANGED mysqlVars

FillFails ==
    /\ pc = "fill"
    /\ \/ Refused
       \/ Dropped /\ (NoEntry \/ Entry(req.key, val, req.table))
    /\ Respond("ok", val)
    /\ UNCHANGED mysqlVars
-----------------------------------------------------------------------------
(* POST /set and POST /update, which differ in the text of their replies   *)

(* MySQL changes under a cached entry.                                     *)
Overtaken(k) == IF cache[k] # None THEN dirty \cup {k} ELSE dirty

Store(t, k, v) ==
    /\ db' = [db EXCEPT ![t][k] = v]
    /\ dirty' = Overtaken(k)
    /\ UNCHANGED <<created, cache, redis, from>>

Write ==
    /\ pc = "write"
    /\ req.table \in created
    /\ Store(req.table, req.key, req.value)
    /\ GoTo("refresh")

(* Mutant of WriteFails: the `if(ok)` before setex is dropped.             *)
WriteFailsUnnoticed ==
    /\ pc = "write"
    /\ \/ UNCHANGED <<mysqlVars, redisVars>>
       \/ /\ req.table \in created
          /\ Store(req.table, req.key, req.value)
    /\ GoTo("refresh")

(* upsert_value returns false: no table, an error, or an error after the   *)
(* statement took effect.  The cache is left alone.                        *)
WriteFails ==
    /\ pc = "write"
    /\ \/ UNCHANGED <<mysqlVars, redisVars>>
       \/ /\ req.table \in created
          /\ Store(req.table, req.key, req.value)
    /\ Respond("failed", None)

WriteNoTable ==
    /\ pc = "write"
    /\ req.table \notin created
    /\ Respond("failed", None)
    /\ UNCHANGED <<mysqlVars, redisVars>>

(* Mutant of Refresh: SET NX leaves an old entry in place.                 *)
RefreshIfAbsent ==
    /\ pc = "refresh"
    /\ Executed
    /\ IF req.ttl /\ cache[req.key] = None
       THEN Entry(req.key, req.value, req.table) ELSE NoEntry
    /\ Respond("ok", None)
    /\ UNCHANGED mysqlVars

(* SETEX refuses a ttl that is not positive.  The reply is the same.       *)
Refresh ==
    /\ pc = "refresh"
    /\ Executed
    /\ IF req.ttl THEN Entry(req.key, req.value, req.table) ELSE NoEntry
    /\ Respond("ok", None)
    /\ UNCHANGED mysqlVars

RefreshFails ==
    /\ pc = "refresh"
    /\ \/ Refused
       \/ Dropped /\ (NoEntry \/ (req.ttl /\ Entry(req.key, req.value, req.table)))
    /\ Respond("ok", None)
    /\ UNCHANGED mysqlVars
-----------------------------------------------------------------------------
(* DELETE /del: rds.del follows whatever dao.delete_key returned           *)

DeleteReports(success) ==
    /\ ok' = success
    /\ pc' = "invalidate"
    /\ UNCHANGED <<req, val, reply>>

Erase ==
    /\ pc = "erase"
    /\ req.table \in created
    /\ Store(req.table, req.key, None)
    /\ DeleteReports(TRUE)

EraseNoTable ==
    /\ pc = "erase"
    /\ req.table \notin created
    /\ DeleteReports(FALSE)
    /\ UNCHANGED <<mysqlVars, redisVars>>

EraseFails ==
    /\ pc = "erase"
    /\ \/ UNCHANGED <<mysqlVars, redisVars>>
       \/ /\ req.table \in created
          /\ Store(req.table, req.key, None)
    /\ DeleteReports(FALSE)

(* Mutant of Deleted: a status the clients do not know.                    *)
DeletedOrError == Respond(IF ok THEN "ok" ELSE "error", None)

Deleted == Respond(IF ok THEN "ok" ELSE "failed", None)

(* Mutant of Invalidate: the test of `ok` is inverted.                     *)
InvalidateIfFailed ==
    /\ pc = "invalidate"
    /\ Executed
    /\ IF ok THEN NoEntry ELSE Entry(req.key, None, None)
    /\ Deleted
    /\ UNCHANGED mysqlVars

Invalidate ==
    /\ pc = "invalidate"
    /\ Executed /\ Entry(req.key, None, None)
    /\ Deleted
    /\ UNCHANGED mysqlVars

InvalidateFails ==
    /\ pc = "invalidate"
    /\ \/ Refused
       \/ Dropped /\ (NoEntry \/ Entry(req.key, None, None))
    /\ Deleted
    /\ UNCHANGED mysqlVars
-----------------------------------------------------------------------------
(* POST /table/create                                                      *)

CreateTable ==
    /\ pc = "create"
    /\ created' = created \cup {req.table}
    /\ Done
    /\ UNCHANGED <<db, redisVars, reply>>

(* The statement fails without effect; the client gets a 200 all the same. *)
CreateFails ==
    /\ pc = "create"
    /\ Done
    /\ UNCHANGED <<mysqlVars, redisVars, reply>>
-----------------------------------------------------------------------------
(* Failures and the passing of time.                                       *)

RedisCallThrows ==
    /\ pc \in {"lookup", "fill", "refresh", "invalidate"}
    /\ RedisGone
    /\ UNCHANGED mysqlVars

Crash ==
    /\ pc # "exited"
    /\ Exit
    /\ UNCHANGED <<mysqlVars, redisVars>>

RedisStops ==
    /\ redis # "down"
    /\ redis' = "down"
    /\ \/ NoEntry
       \/ /\ cache' = [k \in Keys |-> None]
          /\ from' = [k \in Keys |-> None]
          /\ dirty' = {}
    /\ UNCHANGED <<mysqlVars, procVars>>

RedisReturns ==
    /\ redis = "down"
    /\ redis' = "back"
    /\ NoEntry
    /\ UNCHANGED <<mysqlVars, procVars>>

Disconnect ==
    /\ redis = "up"
    /\ redis' = "back"
    /\ NoEntry
    /\ UNCHANGED <<mysqlVars, procVars>>

(* The ttl of an entry runs whether or not Redis does.                     *)
Expire(k) ==
    /\ cache[k] # None
    /\ Entry(k, None, None)
    /\ UNCHANGED <<mysqlVars, redis, procVars>>
-----------------------------------------------------------------------------
Serve ==
    \/ LookupHit \/ LookupMiss \/ Read \/ Fill
    \/ Write \/ WriteNoTable \/ Refresh
    \/ Erase \/ EraseNoTable \/ Invalidate \/ CreateTable

Fault ==
    \/ LookupFails \/ ReadFails \/ FillFails \/ WriteFails \/ RefreshFails
    \/ EraseFails \/ InvalidateFails \/ CreateFails \/ RedisCallThrows
    \/ Crash \/ RedisStops \/ RedisReturns \/ Disconnect

(* Nothing fails, but entries expire.                                      *)
CalmNext ==
    \/ \E r \in Requests : Accept(r)
    \/ Serve
    \/ \E k \in Keys : Expire(k)

Next == CalmNext \/ Fault \/ Start

(* The serving thread runs.                                                *)
CalmSpec == Init /\ [][CalmNext]_vars /\ WF_vars(Serve)

(* Nothing fails but the SETEX that follows a write.                       *)
RefreshFaultSpec == Init /\ [][CalmNext \/ RefreshFails]_vars

(* Only the ttl is owed: the process, Redis and MySQL may stop for ever.   *)
Spec ==
    /\ Init /\ [][Next]_vars
    /\ \A k \in Keys : WF_vars(Expire(k))
-----------------------------------------------------------------------------
PCs == {"exited", "accept", "lookup", "read", "fill", "write", "refresh", "erase",
        "invalidate", "create"}

TypeOK ==
    /\ created \in SUBSET Tables
    /\ db \in [Tables -> [Keys -> Values \cup {None}]]
    /\ cache \in [Keys -> Values \cup {None}]
    /\ redis \in {"up", "down", "back"}
    /\ pc \in PCs
    /\ req \in Requests \cup {None}
    /\ val \in Values \cup {None}
    /\ ok \in BOOLEAN
    /\ reply \in [status : {"ok", "not_found", "failed"}, value : Values \cup {None}]
                  \cup {None}
    /\ from \in [Keys -> Tables \cup {None}]
    /\ dirty \in SUBSET Keys

Current(k) == cache[k] # None => cache[k] = db[from[k]][k]

(* Whatever fails, and wherever the process dies: a cached value is the    *)
(* one MySQL holds, in the table it was cached from, unless a write of     *)
(* that key reached MySQL and its SETEX or DEL did not reach Redis.        *)
StaleOnlyIfMissed == \A k \in Keys : k \notin dirty => Current(k)

(* Without failures and with positive ttls the cache is never behind MySQL *)
(* between two requests.                                                   *)
CoherentBetweenRequests == pc = "accept" => \A k \in Keys : Current(k)

(* Staleness does not outlive the writes: once MySQL no longer changes,    *)
(* the ttl and the read path make the cache current for good, whatever     *)
(* else keeps failing.                                                     *)
CacheSettles == (<>[][db' = db]_vars) => <>[](\A k \in Keys : Current(k))

(* README.md:42: after a refresh of Redis that failed, reads still fall    *)
(* back on MySQL; python_test_client.py:31,37: a read that follows an      *)
(* update or a delete sees it.  A GET answers what MySQL holds.            *)
ReadsSeeWrites ==
    [][LookupHit => reply'.value = db[req.table][req.key]]_vars
-----------------------------------------------------------------------------
(* For a client of one table, nothing failing, the cache is invisible.     *)
ClientView(r) ==
    IF r = None \/ r.op = "create" THEN None
    ELSE IF r.op = "put" THEN [op |-> "put", key |-> r.key, value |-> r.value]
    ELSE [op |-> r.op, key |-> r.key]

(* None is not the view of a request that names a key.                     *)
ASSUME NoneAssumption ==
    \A r \in Requests : r # None /\ (r.op # "create" => ClientView(r) # None)

Abstract == INSTANCE KVStore WITH
    store <- db[DefaultTable],
    request <- ClientView(req),
    written <- pc \in {"refresh", "invalidate"}

TransparentCache == Abstract!Spec
=============================================================================

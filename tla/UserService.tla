---------------------------- MODULE UserService -----------------------------
(***************************************************************************)
(* The routes of cpp-microservice/mysql_microservice_modular over its      *)
(* connection pool: each worker takes a request, acquires a connection,    *)
(* runs one prepared statement through it, releases it and answers.        *)
(*                                                                         *)
(* The MySQL server is external and modelled by what the service relies    *)
(* on: one statement is atomic, users.email is UNIQUE, AUTO_INCREMENT      *)
(* consumes an id even for an INSERT the UNIQUE index refuses, and         *)
(* mysql_insert_id belongs to the connection, not to the statement.        *)
(* Requests refused before acquire() (bad body, /ping) change no state.    *)
(***************************************************************************)
EXTENDS ConnPool

CONSTANTS
    Names, Emails,  \* values of the two columns a client sets
    MaxId           \* bound: AUTO_INCREMENT ids handed out in a behaviour

VARIABLES
    ready,     \* the table users exists
    users,     \* its rows, by id
    nextId,    \* its AUTO_INCREMENT counter
    insertId,  \* what mysql_insert_id would return on each connection
    broken,    \* connections MySQL has dropped; the pool never reopens one
    job,       \* the request each worker serves, or None
    answer,    \* what its handler knows so far, or None
    inserted   \* history: the row the worker's current request inserted, or 0

dbVars == <<ready, users, nextId, insertId, broken>>
handlerVars == <<job, answer, inserted>>
vars == <<connVars, dbVars, handlerVars>>

Ids == 1 .. MaxId
Rows == [name : Names, email : Emails]

Requests ==
    [op : {"init", "list"}] \cup [op : {"create"}, row : Rows]
      \cup [op : {"get", "delete"}, id : Ids]
      \cup [op : {"update"}, id : Ids, row : Rows]

(* "executed" is the state between mysql_stmt_execute and mysql_insert_id  *)
(* in sql_create_user; the others are the HTTP statuses 200, 404, 500, 400.*)
Statuses == {"executed", "ok", "not_found", "error", "bad_request"}
Answers == [status : Statuses, id : Ids \cup {0}]

ASSUME ServiceAssumption ==
    /\ MaxId \in Nat
    /\ None \notin Requests
    /\ None \notin Answers

Answer(s) == [status |-> s, id |-> 0]

Init ==
    /\ PoolInit
    /\ ready = FALSE
    /\ users = [i \in {} |-> None]
    /\ nextId = 1
    /\ insertId = [c \in Conns |-> 0]
    /\ broken = {}
    /\ job = [w \in Workers |-> None]
    /\ answer = [w \in Workers |-> None]
    /\ inserted = [w \in Workers |-> 0]

EmailTaken(e, others) == \E i \in others : users[i].email = e

Creating == {w \in Workers : job[w] # None /\ job[w].op = "create"}

Receive(w, r) ==
    /\ job[w] = None
    /\ r.op = "create" => nextId + Cardinality(Creating) <= MaxId  \* bound
    /\ CallAcquire(w)
    /\ job' = [job EXCEPT ![w] = r]
    /\ UNCHANGED <<dbVars, answer, inserted>>

(* A statement of worker w has run in MySQL and its connection reports s,  *)
(* or dies with the report: the handler sees an error, the effect stays.   *)
(* mysql_insert_id is what the statement left there: 0 unless an INSERT.   *)
Reports(w, s, id) ==
    \/ /\ answer' = [answer EXCEPT ![w] = Answer(s)]
       /\ insertId' = [insertId EXCEPT ![held[w]] = id]
       /\ UNCHANGED broken
    \/ /\ answer' = [answer EXCEPT ![w] = Answer("error")]
       /\ insertId' = [insertId EXCEPT ![held[w]] = 0]
       /\ broken' = broken \cup {held[w]}

InHandler(w, op) ==
    /\ stage[w] = "use"
    /\ answer[w] = None
    /\ job[w].op = op
    /\ held[w] \notin broken

Reads == <<ready, users, nextId, inserted>>

(* sql_* reports an error and nothing has changed: the connection is gone, *)
(* the table is not there, or MySQL refuses for reasons of its own.        *)
StatementFails(w) ==
    /\ stage[w] = "use"
    /\ answer[w] = None
    /\ answer' = [answer EXCEPT ![w] = Answer("error")]
    /\ insertId' = [insertId EXCEPT ![held[w]] = 0]
    /\ UNCHANGED <<Reads, broken, connVars, job>>

InitTables(w) ==
    /\ InHandler(w, "init")
    /\ ready' = TRUE
    /\ Reports(w, "ok", 0)
    /\ UNCHANGED <<users, nextId, inserted, connVars, job>>

CreateUser(w) ==
    LET row == job[w].row
        fresh == ~EmailTaken(row.email, DOMAIN users)
    IN
    /\ InHandler(w, "create")
    /\ ready
    /\ nextId' = nextId + 1
    /\ \/ /\ fresh
          /\ users' = [i \in DOMAIN users \cup {nextId} |->
                         IF i = nextId THEN row ELSE users[i]]
          /\ inserted' = [inserted EXCEPT ![w] = nextId]
          /\ Reports(w, "executed", nextId)
       \/ /\ ~fresh
          /\ Reports(w, "error", 0)
          /\ UNCHANGED <<users, inserted>>
    /\ UNCHANGED <<ready, connVars, job>>

(* Mutant of ReadInsertId: SELECT MAX(id) in place of mysql_insert_id.     *)
ReadMaxId(w) ==
    /\ stage[w] = "use"
    /\ answer[w] = Answer("executed")
    /\ answer' = [answer EXCEPT ![w] = [status |-> "ok", id |-> nextId - 1]]
    /\ UNCHANGED <<dbVars, inserted, connVars, job>>

(* new_id = mysql_insert_id(conn), a call of its own after the execute.    *)
ReadInsertId(w) ==
    /\ stage[w] = "use"
    /\ answer[w] = Answer("executed")
    /\ answer' = [answer EXCEPT ![w] =
                    [status |-> "ok", id |-> insertId[held[w]]]]
    /\ UNCHANGED <<dbVars, inserted, connVars, job>>

GetUser(w) ==
    /\ InHandler(w, "get")
    /\ ready
    /\ Reports(w, IF job[w].id \in DOMAIN users THEN "ok" ELSE "not_found", 0)
    /\ UNCHANGED <<Reads, connVars, job>>

(* limit and offset choose the rows of the reply and change no state.      *)
ListUsers(w) ==
    /\ InHandler(w, "list")
    /\ ready
    /\ Reports(w, "ok", 0)
    /\ UNCHANGED <<Reads, connVars, job>>

(* affected_rows counts changed rows: it is 0, and the answer 404, for a   *)
(* row that already holds the values sent.                                 *)
UpdateUser(w) ==
    LET id == job[w].id
        row == job[w].row
    IN
    /\ InHandler(w, "update")
    /\ ready
    /\ \/ /\ id \in DOMAIN users
          /\ users[id] # row
          /\ ~EmailTaken(row.email, DOMAIN users \ {id})
          /\ users' = [users EXCEPT ![id] = row]
          /\ Reports(w, "ok", 0)
       \/ /\ id \in DOMAIN users
          /\ EmailTaken(row.email, DOMAIN users \ {id})
          /\ Reports(w, "error", 0)
          /\ UNCHANGED users
       \/ /\ id \in DOMAIN users => users[id] = row
          /\ Reports(w, "not_found", 0)
          /\ UNCHANGED users
    /\ UNCHANGED <<ready, nextId, inserted, connVars, job>>

DeleteUser(w) ==
    LET id == job[w].id IN
    /\ InHandler(w, "delete")
    /\ ready
    /\ users' = [i \in DOMAIN users \ {id} |-> users[i]]
    /\ Reports(w, IF id \in DOMAIN users THEN "ok" ELSE "not_found", 0)
    /\ UNCHANGED <<ready, nextId, inserted, connVars, job>>

Answered(w) == answer[w] # None /\ answer[w].status # "executed"

Finish(w) ==
    /\ Answered(w)
    /\ CallRelease(w)
    /\ UNCHANGED <<dbVars, handlerVars>>

(* What may throw while the handler owns a connection: assigning the text  *)
(* of an error, building rows, and the json_error that /admin/init calls   *)
(* before release().  create and update answer any exception with 400, the *)
(* HTTP library answers the others with 500.                               *)
Throw(w) ==
    /\ answer[w] # None
    /\ answer[w].status = "error" \/ job[w].op \in {"get", "list"}
    /\ Unwind(w)
    /\ answer' = [answer EXCEPT ![w] =
                    Answer(IF job[w].op \in {"create", "update"}
                           THEN "bad_request" ELSE "error")]
    /\ UNCHANGED <<dbVars, job, inserted>>

Reply(w) ==
    /\ stage[w] = "idle"
    /\ job[w] # None
    /\ job' = [job EXCEPT ![w] = None]
    /\ answer' = [answer EXCEPT ![w] = None]
    /\ inserted' = [inserted EXCEPT ![w] = 0]
    /\ UNCHANGED <<connVars, dbVars>>

(* MySQL drops a connection: a restart, wait_timeout, the network.         *)
Break(c) ==
    /\ c \notin broken
    /\ broken' = broken \cup {c}
    /\ UNCHANGED <<ready, users, nextId, insertId, connVars, handlerVars>>

Execute(w) ==
    \/ StatementFails(w) \/ InitTables(w) \/ CreateUser(w) \/ GetUser(w)
    \/ ListUsers(w)      \/ UpdateUser(w) \/ DeleteUser(w)

InPool(w) ==
    /\ LockToAcquire(w) \/ Block(w) \/ SeeConn(w) \/ TakeFront(w)
         \/ SpuriousWakeup(w) \/ LockToRelease(w) \/ Push(w)
    /\ UNCHANGED <<dbVars, handlerVars>>

Next ==
    \/ \E w \in Workers :
         \/ \E r \in Requests : Receive(w, r)
         \/ InPool(w) \/ Execute(w) \/ ReadInsertId(w) \/ Finish(w)
         \/ Throw(w)  \/ Reply(w)
    \/ \E c \in Conns : Break(c)

(* Threads run, and mu_ is free again and again for each that wants it;    *)
(* clients, exceptions, spurious wakeups and failures owe nothing.         *)
Fairness == \A w \in Workers :
    /\ SF_vars(LockToAcquire(w) /\ UNCHANGED <<dbVars, handlerVars>>)
    /\ SF_vars(LockToRelease(w) /\ UNCHANGED <<dbVars, handlerVars>>)
    /\ WF_vars((Block(w) \/ SeeConn(w) \/ TakeFront(w) \/ Push(w))
                  /\ UNCHANGED <<dbVars, handlerVars>>)
    /\ WF_vars(Execute(w) \/ ReadInsertId(w) \/ Finish(w))
    /\ WF_vars(Reply(w))

Spec == Init /\ [][Next]_vars /\ Fairness
-----------------------------------------------------------------------------
TypeOK ==
    /\ PoolTypeOK
    /\ ready \in BOOLEAN
    /\ DOMAIN users \subseteq 1 .. (nextId - 1)
    /\ \A i \in DOMAIN users : users[i] \in Rows
    /\ nextId \in 1 .. (MaxId + 1)
    /\ insertId \in [Conns -> Ids \cup {0}]
    /\ broken \in SUBSET Conns
    /\ job \in [Workers -> Requests \cup {None}]
    /\ answer \in [Workers -> Answers \cup {None}]
    /\ inserted \in [Workers -> Ids \cup {0}]

(* POST /users answers 200 with the id of the row this very request        *)
(* inserted, although the id is fetched from the connection by a second    *)
(* call, after other workers may have inserted rows.                       *)
CreateAnswersOwnId ==
    \A w \in Workers :
        (answer[w] # None /\ answer[w].status = "ok" /\ job[w].op = "create")
            => answer[w].id = inserted[w] /\ inserted[w] # 0

(* When no more requests arrive, every request is answered, whatever       *)
(* failed on the way, unless exceptions have closed every connection.      *)
NoNewRequests ==
    <>[][\A w \in Workers : /\ \A r \in Requests : ~Receive(w, r)
                            /\ ~SpuriousWakeup(w)]_vars

EveryRequestAnswered ==
    NoNewRequests =>
        \A w \in Workers : (job[w] # None) ~> (job[w] = None \/ closed = Conns)
=============================================================================

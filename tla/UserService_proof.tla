-------------------------- MODULE UserService_proof -------------------------
(***************************************************************************)
(* Proofs about the HTTP service over the connection pool.                 *)
(***************************************************************************)
EXTENDS UserService, ConnPool_proof

(* The service uses the pool only through acquire() and release(), or by   *)
(* losing a connection to an exception: every step of the service is a     *)
(* step of the pool or leaves it alone.                                    *)
LEMMA ServiceStepUsesPool == [Next]_vars => [PoolNext]_connVars
<1> SUFFICES ASSUME [Next]_vars PROVE [PoolNext]_connVars
    OBVIOUS
<1>1. ASSUME NEW w \in Workers, NEW r \in Requests, Receive(w, r)
      PROVE  PoolNext
    BY <1>1 DEF Receive, PoolNext
<1>2. ASSUME NEW w \in Workers, InPool(w) PROVE PoolNext
    BY <1>2 DEF InPool, PoolNext
<1>3. ASSUME NEW w \in Workers, Execute(w) \/ ReadInsertId(w) \/ Reply(w)
      PROVE  UNCHANGED connVars
    BY <1>3 DEF Execute, StatementFails, InitTables, CreateUser, GetUser,
                ListUsers, UpdateUser, DeleteUser, ReadInsertId, Reply
<1>4. ASSUME NEW w \in Workers, Finish(w) \/ Throw(w) PROVE PoolNext
    BY <1>4 DEF Finish, Throw, PoolNext
<1>5. ASSUME NEW c \in Conns, Break(c) PROVE UNCHANGED connVars
    BY <1>5 DEF Break
<1>6. CASE UNCHANGED vars
    BY <1>6 DEF vars
<1> QED
    BY <1>1, <1>2, <1>3, <1>4, <1>5, <1>6 DEF Next

(* What is proved of the pool therefore holds inside the service: no two   *)
(* requests ever share a MySQL connection.                                 *)
THEOREM ServiceKeepsPool == Spec => []PoolInv
<1>1. Init => PoolInit
    BY DEF Init
<1> QED
    BY <1>1, ServiceStepUsesPool, PoolSafety, PTL DEF Spec

THEOREM ServiceExclusive == Spec => []ConnsExclusive
  BY ServiceKeepsPool, PTL DEF PoolInv
-----------------------------------------------------------------------------
(* Shapes of the handler state, without the bound on ids.                  *)
HandlerTypes ==
    /\ insertId \in [Conns -> Nat]
    /\ nextId \in Nat \ {0}
    /\ job \in [Workers -> Requests \cup {None}]
    /\ answer \in [Workers -> [status : Statuses, id : Nat] \cup {None}]
    /\ inserted \in [Workers -> Nat]

(* A worker without a request has no answer.                               *)
NoJobNoAnswer == \A w \in Workers : job[w] = None => answer[w] = None

(* A worker inside the pool or a handler serves a request.                 *)
BusyHasJob == \A w \in Workers : stage[w] # "idle" => job[w] # None

(* Between mysql_stmt_execute and mysql_insert_id the worker still owns    *)
(* the connection, and the connection still remembers this row.            *)
ExecutedRemembered ==
    \A w \in Workers : answer[w] = Answer("executed") =>
        /\ stage[w] = "use"
        /\ job[w] # None
        /\ job[w].op = "create"
        /\ inserted[w] # 0
        /\ insertId[held[w]] = inserted[w]

(* The inductive invariant: CreateAnswersOwnId needs to know what the      *)
(* connection remembers before the handler asks for it.                    *)
HandlerInv ==
    /\ HandlerTypes
    /\ NoJobNoAnswer
    /\ BusyHasJob
    /\ ExecutedRemembered
    /\ CreateAnswersOwnId

LEMMA HandlerInitial == Init => HandlerInv
<1> SUFFICES ASSUME Init PROVE HandlerInv
    OBVIOUS
<1>1. Answer("executed") \in Answers
    BY DEF Answer, Answers, Statuses
<1> QED
    BY <1>1, ServiceAssumption
       DEF Init, PoolInit, HandlerInv, HandlerTypes, NoJobNoAnswer, BusyHasJob,
           ExecutedRemembered, CreateAnswersOwnId

(* A step that changes no answer, job or insert id, and takes no worker    *)
(* out of its handler in the middle of a create, keeps the invariant.      *)
LEMMA HandlerUntouched ==
    ASSUME HandlerInv, UNCHANGED <<insertId, nextId, job, answer, inserted>>,
           \A w \in Workers : answer[w] = Answer("executed") =>
               stage'[w] = stage[w] /\ held'[w] = held[w],
           \A w \in Workers : stage'[w] # "idle" => stage[w] # "idle"
    PROVE  HandlerInv'
  BY DEF HandlerInv, HandlerTypes, NoJobNoAnswer, BusyHasJob, ExecutedRemembered,
         CreateAnswersOwnId, Answer

(* A worker that finished a statement on its own connection with an answer *)
(* that is neither "executed" nor a 200 to a create.                       *)
LEMMA PlainAnswer ==
    ASSUME HandlerInv, PoolInv, NEW w \in Workers, NEW s \in Statuses,
           s # "executed", s = "ok" => job[w].op # "create",
           stage[w] = "use", UNCHANGED <<connVars, job>>,
           answer' = [answer EXCEPT ![w] = Answer(s)],
           insertId' = [insertId EXCEPT ![held[w]] = 0],
           nextId' \in Nat \ {0},
           inserted' \in [Workers -> Nat],
           \A v \in Workers : v # w => inserted'[v] = inserted[v]
    PROVE  HandlerInv'
<1> USE DEF HandlerInv
<1>1. HandlerTypes'
    BY DEF HandlerTypes, Answer
<1>2. NoJobNoAnswer' /\ BusyHasJob'
    BY DEF NoJobNoAnswer, BusyHasJob, HandlerTypes, connVars
<1>3. \A v \in Workers : v # w => answer'[v] = answer[v]
    BY DEF HandlerTypes
<1>4. answer'[w].status = s /\ answer'[w] # Answer("executed")
    BY DEF HandlerTypes, Answer
<1>5. held[w] \in Conns /\ \A v \in Workers : v # w => held[v] # held[w]
    BY DEF PoolInv, PoolTypeOK, HoldersInUse, ConnsExclusive
<1>6. ExecutedRemembered'
    <2> SUFFICES ASSUME NEW v \in Workers, answer'[v] = Answer("executed")
                 PROVE  /\ stage[v] = "use"
                        /\ job[v] # None
                        /\ job[v].op = "create"
                        /\ inserted'[v] # 0
                        /\ insertId'[held[v]] = inserted'[v]
        BY DEF ExecutedRemembered, connVars, Answer
    <2>1. v # w /\ answer[v] = Answer("executed")
        BY <1>3, <1>4
    <2>2. held[v] # held[w] /\ held[v] \in Conns
        BY <2>1, <1>5 DEF ExecutedRemembered, PoolInv, PoolTypeOK, HoldersInUse
    <2> QED
        BY <2>1, <2>2 DEF ExecutedRemembered, HandlerTypes
<1>7. CreateAnswersOwnId'
    BY <1>3, <1>4 DEF CreateAnswersOwnId
<1> QED
    BY <1>1, <1>2, <1>6, <1>7

(* Every statement reports one of its statuses or an error.                *)
LEMMA ReportsPlainly ==
    ASSUME HandlerInv, PoolInv, NEW w \in Workers, NEW s \in Statuses,
           s # "executed", s = "ok" => job[w].op # "create",
           stage[w] = "use", UNCHANGED <<connVars, job>>,
           Reports(w, s, 0),
           nextId' \in Nat \ {0}, UNCHANGED inserted
    PROVE  HandlerInv'
<1>1. "error" \in Statuses
    BY DEF Statuses
<1>2. \/ /\ answer' = [answer EXCEPT ![w] = Answer(s)]
         /\ insertId' = [insertId EXCEPT ![held[w]] = 0]
      \/ /\ answer' = [answer EXCEPT ![w] = Answer("error")]
         /\ insertId' = [insertId EXCEPT ![held[w]] = 0]
    BY DEF Reports
<1>3. inserted' \in [Workers -> Nat]
    BY DEF HandlerInv, HandlerTypes
<1> QED
    BY <1>1, <1>2, <1>3, PlainAnswer

LEMMA CreateUserKeeps ==
    ASSUME HandlerInv, PoolInv, NEW w \in Workers, CreateUser(w)
    PROVE  HandlerInv'
<1> USE DEF HandlerInv
<1>1. nextId \in Nat \ {0} /\ nextId' \in Nat \ {0}
    BY DEF CreateUser, HandlerTypes
<1>2. stage[w] = "use" /\ job[w].op = "create" /\ UNCHANGED <<connVars, job>>
    BY DEF CreateUser, InHandler
<1>3. CASE Reports(w, "error", 0) /\ UNCHANGED inserted
    BY <1>1, <1>2, <1>3, ReportsPlainly DEF Statuses
<1>4. ASSUME inserted' = [inserted EXCEPT ![w] = nextId],
             Reports(w, "executed", nextId)
      PROVE  HandlerInv'
    <2>1. inserted' \in [Workers -> Nat] /\ \A v \in Workers : v # w => inserted'[v] = inserted[v]
        BY <1>1, <1>4 DEF HandlerTypes
    <2>2. CASE answer' = [answer EXCEPT ![w] = Answer("error")]
               /\ insertId' = [insertId EXCEPT ![held[w]] = 0]
        BY <1>1, <1>2, <2>1, <2>2, PlainAnswer DEF Statuses
    <2>3. CASE answer' = [answer EXCEPT ![w] = Answer("executed")]
               /\ insertId' = [insertId EXCEPT ![held[w]] = nextId]
        <3>1. HandlerTypes'
            BY <1>1, <1>2, <2>1, <2>3 DEF HandlerTypes, Answer, Statuses
        <3>2. NoJobNoAnswer' /\ BusyHasJob'
            BY <1>2, <2>3 DEF NoJobNoAnswer, BusyHasJob, HandlerTypes, connVars
        <3>3. held[w] \in Conns /\ \A v \in Workers : v # w => held[v] # held[w]
            BY <1>2 DEF PoolInv, PoolTypeOK, HoldersInUse, ConnsExclusive
        <3>4. \A v \in Workers : v # w => answer'[v] = answer[v]
            BY <2>3 DEF HandlerTypes
        <3>5. ExecutedRemembered'
            <4> SUFFICES ASSUME NEW v \in Workers, answer'[v] = Answer("executed")
                         PROVE  /\ stage[v] = "use"
                                /\ job[v] # None
                                /\ job[v].op = "create"
                                /\ inserted'[v] # 0
                                /\ insertId'[held[v]] = inserted'[v]
                BY <1>2 DEF ExecutedRemembered, connVars, Answer
            <4>1. CASE v = w
                BY <4>1, <1>1, <1>2, <1>4, <2>3, <3>3 DEF HandlerTypes, BusyHasJob
            <4>2. CASE v # w
                <5>1. answer[v] = Answer("executed") /\ held[v] # held[w] /\ held[v] \in Conns
                    BY <4>2, <3>3, <3>4
                       DEF ExecutedRemembered, PoolInv, PoolTypeOK, HoldersInUse
                <5> QED
                    BY <4>2, <5>1, <2>1, <2>3 DEF ExecutedRemembered, HandlerTypes
            <4> QED
                BY <4>1, <4>2
        <3>6. answer'[w].status = "executed"
            BY <2>3 DEF HandlerTypes, Answer
        <3>7. CreateAnswersOwnId'
            BY <1>2, <2>1, <3>4, <3>6 DEF CreateAnswersOwnId
        <3> QED
            BY <3>1, <3>2, <3>5, <3>7
    <2> QED
        BY <1>4, <2>2, <2>3 DEF Reports
<1> QED
    BY <1>3, <1>4 DEF CreateUser

LEMMA ReadInsertIdKeeps ==
    ASSUME HandlerInv, PoolInv, NEW w \in Workers, ReadInsertId(w)
    PROVE  HandlerInv'
<1> USE DEF HandlerInv
<1>1. held[w] \in Conns
    BY DEF ReadInsertId, PoolInv, PoolTypeOK, HoldersInUse
<1>2. insertId[held[w]] \in Nat /\ insertId[held[w]] = inserted[w] /\ inserted[w] # 0
      /\ job[w] # None
    BY <1>1 DEF ReadInsertId, ExecutedRemembered, HandlerTypes
<1>3. answer'[w] = [status |-> "ok", id |-> inserted[w]]
    BY <1>2 DEF ReadInsertId, HandlerTypes
<1>4. \A v \in Workers : v # w => answer'[v] = answer[v]
    BY DEF ReadInsertId, HandlerTypes
<1>5. UNCHANGED <<insertId, nextId, job, inserted, stage, held>>
    BY DEF ReadInsertId, dbVars, connVars
<1>6. HandlerTypes'
    BY <1>2, <1>5 DEF ReadInsertId, HandlerTypes, Statuses
<1>7. NoJobNoAnswer' /\ BusyHasJob'
    BY <1>2, <1>4, <1>5 DEF NoJobNoAnswer, BusyHasJob
<1>8. ExecutedRemembered'
    BY <1>3, <1>4, <1>5 DEF ExecutedRemembered, Answer
<1>9. CreateAnswersOwnId'
    BY <1>2, <1>3, <1>4, <1>5 DEF CreateAnswersOwnId
<1> QED
    BY <1>6, <1>7, <1>8, <1>9

(* The statements other than INSERT.                                       *)
LEMMA OtherStatementsKeep ==
    ASSUME HandlerInv, PoolInv, NEW w \in Workers,
           \/ StatementFails(w) \/ InitTables(w) \/ GetUser(w) \/ ListUsers(w)
           \/ UpdateUser(w) \/ DeleteUser(w)
    PROVE  HandlerInv'
<1>1. nextId \in Nat \ {0} /\ inserted \in [Workers -> Nat]
    BY DEF HandlerInv, HandlerTypes
<1>2. CASE StatementFails(w)
    BY <1>1, <1>2, PlainAnswer DEF StatementFails, Reads, Statuses
<1>3. CASE InitTables(w)
    BY <1>1, <1>3, ReportsPlainly DEF InitTables, InHandler, Statuses
<1>4. CASE GetUser(w)
    BY <1>1, <1>4, ReportsPlainly DEF GetUser, InHandler, Reads, Statuses
<1>5. CASE ListUsers(w)
    BY <1>1, <1>5, ReportsPlainly DEF ListUsers, InHandler, Reads, Statuses
<1>6. CASE UpdateUser(w)
    <2>1. \E s \in {"ok", "error", "not_found"} : Reports(w, s, 0)
        BY <1>6 DEF UpdateUser
    <2> QED
        BY <1>1, <1>6, <2>1, ReportsPlainly DEF UpdateUser, InHandler, Statuses
<1>7. CASE DeleteUser(w)
    <2>1. \E s \in {"ok", "not_found"} : Reports(w, s, 0)
        BY <1>7 DEF DeleteUser
    <2> QED
        BY <1>1, <1>7, <2>1, ReportsPlainly DEF DeleteUser, InHandler, Statuses
<1> QED
    BY <1>2, <1>3, <1>4, <1>5, <1>6, <1>7

LEMMA ReceiveKeeps ==
    ASSUME HandlerInv, PoolInv, NEW w \in Workers, NEW r \in Requests, Receive(w, r)
    PROVE  HandlerInv'
<1> USE DEF HandlerInv
<1>1. answer[w] = None /\ job' = [job EXCEPT ![w] = r]
      /\ UNCHANGED <<insertId, nextId, answer, inserted, held>>
    BY DEF Receive, NoJobNoAnswer, dbVars, CallAcquire
<1>2. None # Answer("executed")
    BY ServiceAssumption DEF Answer, Answers, Statuses
<1>3. HandlerTypes'
    BY <1>1 DEF HandlerTypes
<1>4. NoJobNoAnswer' /\ BusyHasJob'
    BY <1>1, ServiceAssumption
       DEF NoJobNoAnswer, BusyHasJob, HandlerTypes, Receive, CallAcquire, PoolInv,
           PoolTypeOK
<1>5. ExecutedRemembered'
    <2>1. \A v \in Workers : v # w => stage'[v] = stage[v] /\ job'[v] = job[v]
        BY <1>1 DEF Receive, CallAcquire, PoolInv, PoolTypeOK, HandlerTypes
    <2> QED
        BY <1>1, <1>2, <2>1 DEF ExecutedRemembered, Answer
<1>6. CreateAnswersOwnId'
    BY <1>1 DEF CreateAnswersOwnId, HandlerTypes
<1> QED
    BY <1>3, <1>4, <1>5, <1>6

LEMMA InPoolKeeps ==
    ASSUME HandlerInv, PoolInv, NEW w \in Workers, InPool(w)
    PROVE  HandlerInv'
<1>1. UNCHANGED <<insertId, nextId, job, answer, inserted>>
    BY DEF InPool, dbVars, handlerVars
<1>2. \A v \in Workers : answer[v] = Answer("executed") => stage[v] = "use"
    BY DEF HandlerInv, ExecutedRemembered
<1>3. \A v \in Workers : stage[v] = "use" => stage'[v] = stage[v] /\ held'[v] = held[v]
    BY DEF InPool, PoolInv, PoolTypeOK, LockToAcquire, Block, SeeConn, TakeFront,
           SpuriousWakeup, LockToRelease, Push, Waiting
<1>4. \A v \in Workers : stage'[v] # "idle" => stage[v] # "idle"
    BY DEF InPool, PoolInv, PoolTypeOK, LockToAcquire, Block, SeeConn, TakeFront,
           SpuriousWakeup, LockToRelease, Push, Waiting
<1> QED
    BY <1>1, <1>2, <1>3, <1>4, HandlerUntouched

LEMMA FinishKeeps ==
    ASSUME HandlerInv, PoolInv, NEW w \in Workers, Finish(w)
    PROVE  HandlerInv'
<1>1. answer[w] # Answer("executed")
    BY DEF Finish, Answered, Answer
<1>2. UNCHANGED <<insertId, nextId, job, answer, inserted, held>>
    BY DEF Finish, dbVars, handlerVars, CallRelease
<1>3. \A v \in Workers : v # w => stage'[v] = stage[v]
    BY DEF Finish, CallRelease, PoolInv, PoolTypeOK
<1>4. stage[w] = "use"
    BY DEF Finish, CallRelease
<1> QED
    BY <1>1, <1>2, <1>3, <1>4, HandlerUntouched

LEMMA ThrowKeeps ==
    ASSUME HandlerInv, PoolInv, NEW w \in Workers, Throw(w)
    PROVE  HandlerInv'
<1> USE DEF HandlerInv
<1> DEFINE s == IF job[w].op \in {"create", "update"} THEN "bad_request" ELSE "error"
<1>1. answer' = [answer EXCEPT ![w] = Answer(s)] /\ s \in {"bad_request", "error"}
      /\ UNCHANGED <<insertId, nextId, job, inserted>>
    BY DEF Throw, dbVars
<1>2. \A v \in Workers : v # w => /\ answer'[v] = answer[v]
                                 /\ stage'[v] = stage[v]
                                 /\ held'[v] = held[v]
    BY <1>1 DEF Throw, Unwind, HandlerTypes, PoolInv, PoolTypeOK
<1>3. answer'[w] = Answer(s)
    BY <1>1 DEF HandlerTypes
<1>4. HandlerTypes'
    BY <1>1 DEF HandlerTypes, Answer, Statuses
<1>5. NoJobNoAnswer' /\ BusyHasJob'
    BY <1>1, <1>2 DEF NoJobNoAnswer, BusyHasJob, Throw, Unwind
<1>6. ExecutedRemembered'
    BY <1>1, <1>2, <1>3 DEF ExecutedRemembered, Answer
<1>7. CreateAnswersOwnId'
    BY <1>1, <1>2, <1>3 DEF CreateAnswersOwnId, Answer
<1> QED
    BY <1>4, <1>5, <1>6, <1>7

LEMMA ReplyKeeps ==
    ASSUME HandlerInv, PoolInv, NEW w \in Workers, Reply(w)
    PROVE  HandlerInv'
<1> USE DEF HandlerInv
<1>1. /\ job' = [job EXCEPT ![w] = None]
      /\ answer' = [answer EXCEPT ![w] = None]
      /\ inserted' = [inserted EXCEPT ![w] = 0]
      /\ UNCHANGED <<insertId, nextId, stage, held>>
    BY DEF Reply, connVars, dbVars
<1>2. None # Answer("executed")
    BY ServiceAssumption DEF Answer, Answers, Statuses
<1>3. HandlerTypes' /\ NoJobNoAnswer' /\ BusyHasJob'
    BY <1>1 DEF HandlerTypes, NoJobNoAnswer, BusyHasJob, Reply
<1>4. ExecutedRemembered' /\ CreateAnswersOwnId'
    BY <1>1, <1>2 DEF HandlerTypes, ExecutedRemembered, CreateAnswersOwnId, Answer
<1> QED
    BY <1>3, <1>4

LEMMA HandlerStep == HandlerInv /\ PoolInv /\ [Next]_vars => HandlerInv'
<1> SUFFICES ASSUME HandlerInv, PoolInv, [Next]_vars PROVE HandlerInv'
    OBVIOUS
<1>1. ASSUME NEW w \in Workers, Execute(w) PROVE HandlerInv'
    BY <1>1, CreateUserKeeps, OtherStatementsKeep DEF Execute
<1>2. CASE UNCHANGED vars
    BY <1>2, HandlerUntouched DEF vars, connVars, dbVars, handlerVars
<1>3. ASSUME NEW c \in Conns, Break(c) PROVE HandlerInv'
    BY <1>3, HandlerUntouched DEF Break, connVars, handlerVars
<1> QED
    BY <1>1, <1>2, <1>3, ReceiveKeeps, InPoolKeeps, ReadInsertIdKeeps, FinishKeeps,
       ThrowKeeps, ReplyKeeps DEF Next

(* POST /users never answers with the id of somebody else's row.           *)
THEOREM CreateAnswersTruly == Spec => []CreateAnswersOwnId
<1>1. Spec => []HandlerInv
    BY HandlerInitial, HandlerStep, ServiceKeepsPool, PTL DEF Spec
<1> QED
    BY <1>1, PTL DEF HandlerInv
-----------------------------------------------------------------------------
(* Types, with their bound: every id handed out is within MaxId.           *)
DbTypes ==
    /\ ready \in BOOLEAN
    /\ DOMAIN users \subseteq 1 .. (nextId - 1)
    /\ \A i \in DOMAIN users : users[i] \in Rows
    /\ nextId \in 1 .. (MaxId + 1)
    /\ insertId \in [Conns -> Ids \cup {0}]
    /\ broken \in SUBSET Conns
    /\ job \in [Workers -> Requests \cup {None}]
    /\ answer \in [Workers -> Answers \cup {None}]
    /\ inserted \in [Workers -> Ids \cup {0}]

(* The requests that have yet to take an id from AUTO_INCREMENT.           *)
Pending == {w \in Creating : answer[w] = None}

IdsSuffice == nextId + Cardinality(Pending) <= MaxId + 1

LEMMA PendingFinite ==
    /\ IsFiniteSet(Pending) /\ Cardinality(Pending) \in Nat
    /\ IsFiniteSet(Creating) /\ Cardinality(Creating) \in Nat
    /\ Cardinality(Pending) <= Cardinality(Creating)
<1>1. Creating \subseteq Workers /\ Pending \subseteq Creating
    BY DEF Creating, Pending
<1> QED
    BY <1>1, PoolAssumption, FS_Subset, FS_CardinalityType

(* A step that hands out no id and adds no pending request.                *)
LEMMA NoMorePending ==
    ASSUME DbTypes, IdsSuffice, nextId' = nextId, Pending' \subseteq Pending
    PROVE  IdsSuffice'
<1>1. Cardinality(Pending') \in Nat /\ Cardinality(Pending') <= Cardinality(Pending)
    BY PendingFinite, FS_Subset, FS_CardinalityType
<1> QED
    BY <1>1, PendingFinite, ServiceAssumption DEF DbTypes, IdsSuffice

LEMMA TypesInitial == Init => DbTypes /\ IdsSuffice
<1> SUFFICES ASSUME Init PROVE DbTypes /\ IdsSuffice
    OBVIOUS
<1>1. Pending = {}
    BY DEF Init, Pending, Creating
<1>2. IdsSuffice
    BY <1>1, FS_EmptySet, ServiceAssumption DEF Init, IdsSuffice
<1>3. DOMAIN users = {} /\ nextId \in 1 .. (MaxId + 1)
    BY ServiceAssumption DEF Init
<1>4. DbTypes
    BY <1>3 DEF Init, DbTypes
<1> QED
    BY <1>2, <1>4

(* A statement reports: an answer, an insert id and perhaps a lost         *)
(* connection, all of their types.                                         *)
LEMMA ReportsTyped ==
    ASSUME DbTypes, PoolInv, NEW w \in Workers, NEW s \in Statuses, NEW id \in Ids \cup {0},
           stage[w] = "use", UNCHANGED job, Reports(w, s, id)
    PROVE  /\ answer' \in [Workers -> Answers \cup {None}]
           /\ insertId' \in [Conns -> Ids \cup {0}]
           /\ broken' \in SUBSET Conns
           /\ Pending' \subseteq Pending \ {w}
<1>1. held[w] \in Conns
    BY DEF PoolInv, PoolTypeOK, HoldersInUse
<1>2. Answer(s) \in Answers /\ Answer("error") \in Answers
    BY DEF Answer, Answers, Statuses
<1>3. Answer(s) # None /\ Answer("error") # None
    BY <1>2, ServiceAssumption
<1>4. PICK a \in Answers :
        /\ a # None
        /\ answer' = [answer EXCEPT ![w] = a]
    BY <1>2, <1>3 DEF Reports
<1>5. Pending' \subseteq Pending \ {w}
    BY <1>4 DEF Pending, Creating, DbTypes
<1>6. answer' \in [Workers -> Answers \cup {None}]
    BY <1>4 DEF DbTypes
<1>7. /\ insertId' \in [Conns -> Ids \cup {0}]
      /\ broken' \in SUBSET Conns
    BY <1>1 DEF Reports, DbTypes
<1> QED
    BY <1>5, <1>6, <1>7

LEMMA CreateTyped ==
    ASSUME DbTypes, IdsSuffice, PoolInv, HandlerInv, NEW w \in Workers, CreateUser(w)
    PROVE  DbTypes' /\ IdsSuffice'
<1>1. /\ stage[w] = "use" /\ answer[w] = None /\ job[w].op = "create"
      /\ nextId' = nextId + 1 /\ UNCHANGED <<ready, connVars, job>>
    BY DEF CreateUser, InHandler
<1>2. job[w] # None /\ w \in Pending
    BY <1>1 DEF HandlerInv, BusyHasJob, Pending, Creating
<1>3. Cardinality(Pending \ {w}) = Cardinality(Pending) - 1
      /\ Cardinality(Pending \ {w}) \in Nat
    BY <1>2, PendingFinite, FS_RemoveElement, FS_CardinalityType
<1>4. nextId \in Ids /\ nextId' \in 1 .. (MaxId + 1)
      /\ nextId' + Cardinality(Pending \ {w}) <= MaxId + 1
    BY <1>1, <1>3, PendingFinite, ServiceAssumption DEF DbTypes, IdsSuffice, Ids
<1>5. job[w] \in Requests /\ job[w].row \in Rows
    BY <1>1, <1>2 DEF DbTypes, Requests
<1>6. /\ DOMAIN users' \subseteq 1 .. (nextId' - 1)
      /\ \A i \in DOMAIN users' : users'[i] \in Rows
      /\ inserted' \in [Workers -> Ids \cup {0}]
      /\ \E s \in Statuses, id \in Ids \cup {0} : Reports(w, s, id)
  <2>1. CASE /\ users' = [i \in DOMAIN users \cup {nextId} |->
                            IF i = nextId THEN job[w].row ELSE users[i]]
             /\ inserted' = [inserted EXCEPT ![w] = nextId]
             /\ Reports(w, "executed", nextId)
    BY <1>1, <1>4, <1>5, <2>1, ServiceAssumption DEF DbTypes, Statuses, Ids
  <2>2. CASE Reports(w, "error", 0) /\ UNCHANGED <<users, inserted>>
    BY <1>1, <1>4, <2>2, ServiceAssumption DEF DbTypes, Statuses, Ids
  <2> QED
    BY <2>1, <2>2 DEF CreateUser
<1>7. /\ answer' \in [Workers -> Answers \cup {None}]
      /\ insertId' \in [Conns -> Ids \cup {0}]
      /\ broken' \in SUBSET Conns
      /\ Pending' \subseteq Pending \ {w}
    BY <1>1, <1>6, ReportsTyped
<1>8. DbTypes'
    BY <1>1, <1>4, <1>6, <1>7 DEF DbTypes
<1>9. Cardinality(Pending') \in Nat /\ Cardinality(Pending') <= Cardinality(Pending \ {w})
    BY <1>7, PendingFinite, FS_Subset, FS_RemoveElement, FS_CardinalityType
<1>10. IdsSuffice'
    BY <1>3, <1>4, <1>9, ServiceAssumption DEF IdsSuffice, Ids
<1> QED
    BY <1>8, <1>10

(* The statements other than INSERT hand out no id.                        *)
LEMMA StatementTyped ==
    ASSUME DbTypes, IdsSuffice, PoolInv, HandlerInv, NEW w \in Workers,
           \/ StatementFails(w) \/ InitTables(w) \/ GetUser(w) \/ ListUsers(w)
           \/ UpdateUser(w) \/ DeleteUser(w)
    PROVE  DbTypes' /\ IdsSuffice'
<1>1. /\ stage[w] = "use" /\ UNCHANGED <<nextId, inserted, job>>
      /\ ready' \in BOOLEAN
    BY DEF DbTypes, StatementFails, InitTables, GetUser, ListUsers, UpdateUser, DeleteUser,
           InHandler, Reads
<1>2. \E s \in Statuses : Reports(w, s, 0)
    BY DEF StatementFails, InitTables, GetUser, ListUsers, UpdateUser, DeleteUser,
           Reports, Statuses
<1>3. /\ answer' \in [Workers -> Answers \cup {None}]
      /\ insertId' \in [Conns -> Ids \cup {0}]
      /\ broken' \in SUBSET Conns
      /\ Pending' \subseteq Pending
    BY <1>1, <1>2, ReportsTyped
<1>4. /\ DOMAIN users' \subseteq DOMAIN users
      /\ \A i \in DOMAIN users' : users'[i] \in Rows
  <2>1. CASE UpdateUser(w)
    <3>1. job[w] # None
      BY <1>1 DEF HandlerInv, BusyHasJob
    <3>2. job[w].row \in Rows
      BY <2>1, <3>1 DEF UpdateUser, InHandler, DbTypes, Requests
    <3>3. users' = users \/ users' = [users EXCEPT ![job[w].id] = job[w].row]
      BY <2>1 DEF UpdateUser
    <3> QED
      BY <3>2, <3>3 DEF DbTypes
  <2>2. CASE DeleteUser(w)
    BY <2>2 DEF DeleteUser, DbTypes
  <2>3. CASE StatementFails(w) \/ InitTables(w) \/ GetUser(w) \/ ListUsers(w)
    BY <2>3 DEF StatementFails, InitTables, GetUser, ListUsers, Reads, DbTypes
  <2> QED
    BY <2>1, <2>2, <2>3
<1>5. DbTypes'
    BY <1>1, <1>3, <1>4 DEF DbTypes
<1> QED
    BY <1>1, <1>3, <1>5, NoMorePending

LEMMA ReceiveTyped ==
    ASSUME DbTypes, IdsSuffice, HandlerInv, NEW w \in Workers, NEW r \in Requests, Receive(w, r)
    PROVE  DbTypes' /\ IdsSuffice'
<1>1. /\ job[w] = None /\ job' = [job EXCEPT ![w] = r]
      /\ r.op = "create" => nextId + Cardinality(Creating) <= MaxId
      /\ UNCHANGED <<dbVars, answer, inserted>>
    BY DEF Receive
<1>2. DbTypes'
    BY <1>1 DEF DbTypes, dbVars
<1>3. CASE r.op # "create"
  <2>1. Pending' \subseteq Pending
    BY <1>1, <1>3 DEF Pending, Creating, DbTypes
  <2> QED
    BY <1>1, <1>2, <2>1, NoMorePending DEF dbVars
<1>4. CASE r.op = "create"
  <2>1. Pending' \subseteq Creating \cup {w} /\ w \notin Creating
    BY <1>1 DEF Pending, Creating, DbTypes
  <2>2. Cardinality(Creating \cup {w}) = Cardinality(Creating) + 1
        /\ IsFiniteSet(Creating \cup {w})
    BY <2>1, PendingFinite, FS_AddElement
  <2>3. Cardinality(Pending') \in Nat /\ Cardinality(Pending') <= Cardinality(Creating) + 1
    BY <2>1, <2>2, FS_Subset, FS_CardinalityType
  <2> QED
    BY <1>1, <1>2, <1>4, <2>3, PendingFinite, ServiceAssumption DEF DbTypes, IdsSuffice, dbVars
<1> QED
    BY <1>3, <1>4

LEMMA OthersTyped ==
    ASSUME DbTypes, IdsSuffice, PoolInv, HandlerInv,
           \/ \E w \in Workers : InPool(w) \/ ReadInsertId(w) \/ Finish(w) \/ Throw(w) \/ Reply(w)
           \/ \E c \in Conns : Break(c)
           \/ UNCHANGED vars
    PROVE  DbTypes' /\ IdsSuffice'
<1>1. nextId' = nextId
    BY DEF InPool, ReadInsertId, Finish, Throw, Reply, Break, vars, dbVars
<1>2. CASE \E w \in Workers : InPool(w) \/ Finish(w)
    BY <1>2, NoMorePending DEF InPool, Finish, dbVars, handlerVars, DbTypes, Pending, Creating
<1>3. ASSUME NEW c \in Conns, Break(c) PROVE DbTypes' /\ Pending' \subseteq Pending
    BY <1>3 DEF Break, handlerVars, DbTypes, Pending, Creating
<1>4. CASE UNCHANGED vars
    BY <1>4, NoMorePending DEF vars, dbVars, handlerVars, DbTypes, Pending, Creating
<1>5. ASSUME NEW w \in Workers, ReadInsertId(w) PROVE DbTypes' /\ Pending' \subseteq Pending
  <2>1. held[w] \in Conns
    BY <1>5 DEF ReadInsertId, PoolInv, PoolTypeOK, HoldersInUse
  <2> DEFINE a == [status |-> "ok", id |-> insertId[held[w]]]
  <2>2. a \in Answers /\ a # None
    BY <2>1, ServiceAssumption DEF DbTypes, Answers, Statuses
  <2>3. answer' = [answer EXCEPT ![w] = a] /\ UNCHANGED <<dbVars, inserted, job>>
    BY <1>5 DEF ReadInsertId
  <2> HIDE DEF a
  <2> QED
    BY <2>2, <2>3 DEF dbVars, DbTypes, Pending, Creating
<1>6. ASSUME NEW w \in Workers, Throw(w) PROVE DbTypes' /\ Pending' \subseteq Pending
  <2>1. PICK s \in Statuses : answer' = [answer EXCEPT ![w] = Answer(s)]
    BY <1>6 DEF Throw, Statuses
  <2>2. Answer(s) \in Answers /\ Answer(s) # None
    BY ServiceAssumption DEF Answer, Answers
  <2> QED
    BY <1>6, <2>1, <2>2 DEF Throw, dbVars, DbTypes, Pending, Creating
<1>7. ASSUME NEW w \in Workers, Reply(w) PROVE DbTypes' /\ Pending' \subseteq Pending
    BY <1>7 DEF Reply, dbVars, DbTypes, Pending, Creating
<1> QED
    BY <1>1, <1>2, <1>3, <1>4, <1>5, <1>6, <1>7, NoMorePending

(* Every variable of service and database keeps its type: no id is handed  *)
(* out that no request could name, whatever statements fail.               *)
THEOREM ServiceTypeCorrect == Spec => []TypeOK
<1>1. Spec => []HandlerInv
    BY HandlerInitial, HandlerStep, ServiceKeepsPool, PTL DEF Spec
<1>2. /\ DbTypes /\ IdsSuffice /\ PoolInv /\ HandlerInv /\ [Next]_vars
      => DbTypes' /\ IdsSuffice'
    BY CreateTyped, StatementTyped, ReceiveTyped, OthersTyped DEF Next, Execute
<1>3. DbTypes /\ PoolInv => TypeOK
    BY DEF DbTypes, PoolInv, TypeOK
<1> QED
    BY <1>1, <1>2, <1>3, TypesInitial, ServiceKeepsPool, PTL DEF Spec
=============================================================================

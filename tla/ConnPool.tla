------------------------------ MODULE ConnPool ------------------------------
(***************************************************************************)
(* The connection pool of cpp-microservice/mysql_microservice_modular: a   *)
(* queue of MySQL connections guarded by the mutex mu_, on which the HTTP  *)
(* worker threads wait through the condition variable cv_.                 *)
(*                                                                         *)
(* A connection lives in exactly one unique_ptr: an element of the queue   *)
(* or the local variable `c` of a handler.  An exception between acquire() *)
(* and release() destroys that variable, and the connection with it.       *)
(*                                                                         *)
(* closed_ is set only by ~MySQLPool, which runs after Server::listen has  *)
(* joined the workers: no acquire() ever sees it TRUE, and the model has   *)
(* no step for it.                                                         *)
(***************************************************************************)
EXTENDS Naturals, Sequences, FiniteSets, Functions

CONSTANTS
    Workers,  \* the threads of the HTTP server that run handlers
    Conns,    \* the connections the constructor opened (Config::pool_size)
    None      \* no worker, no connection

ASSUME PoolAssumption ==
    /\ IsFiniteSet(Workers)
    /\ IsFiniteSet(Conns)
    /\ None \notin Workers
    /\ None \notin Conns

VARIABLES
    pool,    \* MySQLPool::pool_, the queue of connections at rest
    mu,      \* the worker inside mu_, or None
    stage,   \* where each worker is in acquire(), its handler, release()
    held,    \* the connection in the handler's local `c`, or None
    closed   \* connections whose MySQLConn was destroyed

connVars == <<pool, mu, stage, held, closed>>

(***************************************************************************)
(* "idle"    outside the pool and without a connection                     *)
(* "lock"    in acquire(), contending for mu_ (at entry or after a wakeup) *)
(* "test"    in acquire(), owns mu_, about to evaluate the wait predicate  *)
(* "take"    in acquire(), owns mu_, the predicate was true                *)
(* "wait"    blocked in cv_.wait, mu_ given up                             *)
(* "use"     acquire() has returned, the handler owns a connection         *)
(* "unlock"  in release(), contending for mu_                              *)
(* "push"    in release(), owns mu_                                        *)
(***************************************************************************)
Stages == {"idle", "lock", "test", "take", "wait", "use", "unlock", "push"}

Waiting == {w \in Workers : stage[w] = "wait"}

(* The constructor pushes pool_size connections, in some order.            *)
PoolInit ==
    /\ pool \in Bijection(1 .. Cardinality(Conns), Conns)
    /\ mu = None
    /\ stage = [w \in Workers |-> "idle"]
    /\ held = [w \in Workers |-> None]
    /\ closed = {}

CallAcquire(w) ==
    /\ stage[w] = "idle"
    /\ stage' = [stage EXCEPT ![w] = "lock"]
    /\ UNCHANGED <<pool, mu, held, closed>>

LockToAcquire(w) ==
    /\ stage[w] = "lock"
    /\ mu = None
    /\ mu' = w
    /\ stage' = [stage EXCEPT ![w] = "test"]
    /\ UNCHANGED <<pool, held, closed>>

(* The predicate is false: cv_.wait gives up mu_ and blocks in one step.   *)
Block(w) ==
    /\ stage[w] = "test"
    /\ pool = <<>>
    /\ stage' = [stage EXCEPT ![w] = "wait"]
    /\ mu' = None
    /\ UNCHANGED <<pool, held, closed>>

(* Mutant of SeeConn: mu_ is given up between the predicate and the pop.   *)
SeeConnUnlocked(w) ==
    /\ stage[w] = "test"
    /\ pool # <<>>
    /\ stage' = [stage EXCEPT ![w] = "take"]
    /\ mu' = None
    /\ UNCHANGED <<pool, held, closed>>

(* The predicate is true: wait returns, still owning mu_.                  *)
SeeConn(w) ==
    /\ stage[w] = "test"
    /\ pool # <<>>
    /\ stage' = [stage EXCEPT ![w] = "take"]
    /\ UNCHANGED <<pool, mu, held, closed>>

(* Mutant of TakeFront: the pop is forgotten.                              *)
TakeFrontWithoutPop(w) ==
    /\ stage[w] = "take"
    /\ held' = [held EXCEPT ![w] = Head(pool)]
    /\ stage' = [stage EXCEPT ![w] = "use"]
    /\ mu' = None
    /\ UNCHANGED <<pool, closed>>

TakeFront(w) ==
    /\ stage[w] = "take"
    /\ held' = [held EXCEPT ![w] = Head(pool)]
    /\ pool' = Tail(pool)
    /\ stage' = [stage EXCEPT ![w] = "use"]
    /\ mu' = None
    /\ UNCHANGED closed

(* cv_.wait may return without a notification; the predicate is then       *)
(* evaluated again, with mu_ owned.                                        *)
SpuriousWakeup(w) ==
    /\ stage[w] = "wait"
    /\ stage' = [stage EXCEPT ![w] = "lock"]
    /\ UNCHANGED <<pool, mu, held, closed>>

CallRelease(w) ==
    /\ stage[w] = "use"
    /\ stage' = [stage EXCEPT ![w] = "unlock"]
    /\ UNCHANGED <<pool, mu, held, closed>>

LockToRelease(w) ==
    /\ stage[w] = "unlock"
    /\ mu = None
    /\ mu' = w
    /\ stage' = [stage EXCEPT ![w] = "push"]
    /\ UNCHANGED <<pool, held, closed>>

(* Mutant of Push: notifies only when the queue was empty.                 *)
PushNotifiesIfEmpty(w) ==
    /\ stage[w] = "push"
    /\ pool' = Append(pool, held[w])
    /\ held' = [held EXCEPT ![w] = None]
    /\ mu' = None
    /\ IF pool = <<>> /\ Waiting # {}
       THEN \E v \in Waiting : stage' = [stage EXCEPT ![w] = "idle", ![v] = "lock"]
       ELSE stage' = [stage EXCEPT ![w] = "idle"]
    /\ UNCHANGED closed

(* Mutant of Push: notifies nobody.                                        *)
PushWithoutNotify(w) ==
    /\ stage[w] = "push"
    /\ pool' = Append(pool, held[w])
    /\ held' = [held EXCEPT ![w] = None]
    /\ mu' = None
    /\ stage' = [stage EXCEPT ![w] = "idle"]
    /\ UNCHANGED closed

(* push and notify_one, both under mu_; the woken thread has to lock mu_.  *)
Push(w) ==
    /\ stage[w] = "push"
    /\ pool' = Append(pool, held[w])
    /\ held' = [held EXCEPT ![w] = None]
    /\ mu' = None
    /\ \/ /\ Waiting = {}
          /\ stage' = [stage EXCEPT ![w] = "idle"]
       \/ \E v \in Waiting :
             stage' = [stage EXCEPT ![w] = "idle", ![v] = "lock"]
    /\ UNCHANGED closed

(* Mutant of Unwind: a catch block releases the connection once more.      *)
UnwindReleases(w) ==
    /\ stage[w] = "use"
    /\ closed' = closed \cup {held[w]}
    /\ held' = [held EXCEPT ![w] = None]
    /\ stage' = [stage EXCEPT ![w] = "unlock"]
    /\ UNCHANGED <<pool, mu>>

(* Mutant of Unwind: `c` is a plain pointer, and nothing closes it.        *)
UnwindLeaks(w) ==
    /\ stage[w] = "use"
    /\ held' = [held EXCEPT ![w] = None]
    /\ stage' = [stage EXCEPT ![w] = "idle"]
    /\ UNCHANGED <<pool, mu, closed>>

(* An exception leaves the handler between acquire() and release(): the    *)
(* unique_ptr `c` closes the connection, which never returns to the pool.  *)
Unwind(w) ==
    /\ stage[w] = "use"
    /\ closed' = closed \cup {held[w]}
    /\ held' = [held EXCEPT ![w] = None]
    /\ stage' = [stage EXCEPT ![w] = "idle"]
    /\ UNCHANGED <<pool, mu>>

PoolNext == \E w \in Workers :
    \/ CallAcquire(w) \/ LockToAcquire(w) \/ Block(w) \/ SpuriousWakeup(w)
    \/ SeeConn(w)     \/ TakeFront(w)
    \/ CallRelease(w) \/ LockToRelease(w) \/ Push(w)
    \/ Unwind(w)

(***************************************************************************)
(* A thread that can run does run, a handler finishes with its connection, *)
(* and a thread that finds mu_ free again and again is let in.  Requests,  *)
(* spurious wakeups and exceptions are not obliged to happen.              *)
(***************************************************************************)
PoolFairness == \A w \in Workers :
    /\ SF_connVars(LockToAcquire(w))
    /\ WF_connVars(Block(w))
    /\ WF_connVars(SeeConn(w))
    /\ WF_connVars(TakeFront(w))
    /\ WF_connVars(CallRelease(w))
    /\ SF_connVars(LockToRelease(w))
    /\ WF_connVars(Push(w))

PoolSpec == PoolInit /\ [][PoolNext]_connVars /\ PoolFairness
-----------------------------------------------------------------------------
PoolTypeOK ==
    /\ pool \in Seq(Conns)
    /\ mu \in Workers \cup {None}
    /\ stage \in [Workers -> Stages]
    /\ held \in [Workers -> Conns \cup {None}]
    /\ closed \in SUBSET Conns

(* A worker owns a connection exactly from the return of acquire() to the  *)
(* push in release(): no path out of a handler leaves one behind.          *)
HoldersInUse ==
    \A w \in Workers : held[w] # None <=> stage[w] \in {"use", "unlock", "push"}

(* A connection is in one place: one position of the queue, one worker, or *)
(* destroyed.  (MySQLPool::acquire moves it out, release moves it in.)     *)
ConnsExclusive ==
    /\ \A i, j \in DOMAIN pool : pool[i] = pool[j] => i = j
    /\ \A v, w \in Workers : held[v] = held[w] /\ held[v] # None => v = w
    /\ \A i \in DOMAIN pool, w \in Workers : pool[i] # held[w]
    /\ \A i \in DOMAIN pool : pool[i] \notin closed
    /\ \A w \in Workers : held[w] \notin closed

(* front() and pop() run on a queue that is not empty, although they come  *)
(* after the predicate: mu_ is owned throughout.                           *)
NeverPopsEmpty == \A w \in Workers : stage[w] = "take" => pool # <<>>

(* No connection disappears except by being closed.                        *)
ConnsConserved ==
    \A c \in Conns :
       \/ \E i \in DOMAIN pool : pool[i] = c
       \/ \E w \in Workers : held[w] = c
       \/ c \in closed

(* While a worker sleeps in cv_.wait, every connection in the queue has an *)
(* awake worker on its way to the predicate: the one notify_one per push   *)
(* is enough, whatever overtaking and spurious wakeups do.                 *)
Contending == {w \in Workers : stage[w] \in {"lock", "test", "take"}}

NoLostWakeup == Waiting # {} => Len(pool) <= Cardinality(Contending)
-----------------------------------------------------------------------------
Asked(w) == stage[w] \in {"lock", "test", "take", "wait"}

(* What the workers see of the pool.                                       *)
Asking == {w \in Workers : Asked(w)}

Free == {pool[i] : i \in DOMAIN pool}

Owner == [c \in Conns |->
            IF \E w \in Workers : held[w] = c
            THEN CHOOSE w \in Workers : held[w] = c
            ELSE None]

Abstract == INSTANCE ResourcePool WITH
    Users <- Workers, Resources <- Conns, Nobody <- None,
    asking <- Asking, free <- Free, owner <- Owner

(* The pool implements ResourcePool: a connection is granted to one worker *)
(* who asked, and none stays in the queue while workers ask.               *)
ImplementsResourcePool == Abstract!Spec

(* Once no new request arrives and no thread is woken for nothing, every   *)
(* worker that asked is served, unless every connection has been closed.   *)
(* (Under steady traffic a newcomer may overtake a notified worker for     *)
(* ever: cv_ does not queue its waiters.)                                  *)
Quiet == <>[][\A w \in Workers : ~CallAcquire(w) /\ ~SpuriousWakeup(w)]_connVars

EveryoneServed ==
    Quiet => \A w \in Workers : Asked(w) ~> (stage[w] = "use" \/ closed = Conns)
=============================================================================

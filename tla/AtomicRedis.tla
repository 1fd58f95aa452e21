---------------------------- MODULE AtomicRedis -----------------------------
(***************************************************************************)
(* What a route of redis_microservice promises as long as no two requests  *)
(* use Redis at once: its command runs once or not at all, in one step,    *)
(* and the answer is the answer to that command or a failure.  Once two    *)
(* requests have been in each other's way nothing is promised.             *)
(***************************************************************************)
EXTENDS RedisData

CONSTANT Threads

VARIABLES
    store,  \* the data of Redis
    job,    \* the request each thread serves, or None
    told,   \* what Redis has replied to its command, or None
    answer, \* the answer the thread has for its client, or None
    mixed   \* two requests have used Redis at once

avars == <<store, job, told, answer, mixed>>

Init ==
    /\ store = EmptyStore
    /\ job = [t \in Threads |-> None]
    /\ told = [t \in Threads |-> None]
    /\ answer = [t \in Threads |-> None]
    /\ mixed = FALSE

Begin(t, r) ==
    /\ job[t] = None
    /\ job' = [job EXCEPT ![t] = r]
    /\ UNCHANGED <<store, told, answer, mixed>>

Run(t) ==
    /\ job[t] # None
    /\ told[t] = None
    /\ answer[t] = None
    /\ told' = [told EXCEPT ![t] = ReplyTo(job[t], store)]
    /\ store' = StoreAfter(job[t], store)
    /\ UNCHANGED <<job, answer, mixed>>

Decide(t) ==
    /\ job[t] # None
    /\ answer[t] = None
    /\ \E a \in Answers :
         /\ \/ a = Failed
            \/ told[t] # None /\ a = AnswerOf(job[t], told[t])
         /\ answer' = [answer EXCEPT ![t] = a]
    /\ UNCHANGED <<store, job, told, mixed>>

End(t) ==
    /\ answer[t] # None
    /\ job' = [job EXCEPT ![t] = None]
    /\ told' = [told EXCEPT ![t] = None]
    /\ answer' = [answer EXCEPT ![t] = None]
    /\ UNCHANGED <<store, mixed>>

(* The process ends.                                                       *)
Crash ==
    /\ job' = [t \in Threads |-> None]
    /\ told' = [t \in Threads |-> None]
    /\ answer' = [t \in Threads |-> None]
    /\ UNCHANGED <<store, mixed>>

(* Redis expires a key, or comes back without its data.                    *)
Forget ==
    /\ \/ store' = EmptyStore
       \/ \E k \in Keys : store[k].expires /\ store' = [store EXCEPT ![k] = Absent]
    /\ UNCHANGED <<job, told, answer, mixed>>

Next ==
    \/ \E t \in Threads : Run(t) \/ Decide(t) \/ End(t) \/ \E r \in Requests : Begin(t, r)
    \/ Crash \/ Forget
    \/ mixed'

Spec == Init /\ [][Next]_avars
=============================================================================

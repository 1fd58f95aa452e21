----------------------------- MODULE RedisShare -----------------------------
(***************************************************************************)
(* cpp-microservice/redis_microservice: a detached thread per HTTP         *)
(* connection, and one RedisClient for all of them.  std::call_once        *)
(* guards its construction and nothing guards its use: a thread sends its  *)
(* command and takes the next reply that comes, and two threads that do so *)
(* at once share socket and buffer_.                                       *)
(*                                                                         *)
(* Redis and the sockets are external.  Redis runs whole commands in the   *)
(* order they arrive; its end of the connection may close or be reset at   *)
(* any time, and the process never connects again.  A send to an end that  *)
(* is closed succeeds and provokes a reset; on a reset connection it fails *)
(* or raises SIGPIPE, which ends the process.  send_all of a long command  *)
(* may leave a gap in which another thread sends (Tear).                   *)
(*                                                                         *)
(* timeout_ms is stored and never used: recv waits as long as the          *)
(* connection is up.  Left out: replies beyond 16 MB, and a bulk reply cut *)
(* off by the end of the connection whose rest reads like a reply: replies *)
(* arrive whole or not at all.                                             *)
(***************************************************************************)
EXTENDS RedisData, Sequences, FiniteSets

CONSTANTS
    Threads,  \* threads at a time
    Password, \* whether one is configured
    Follow    \* bound: whether requests are accepted once some have mixed

Auth == [op |-> "auth"]

ASSUME ShareAssumption ==
    /\ Password \in BOOLEAN /\ Follow \in BOOLEAN
    /\ None \notin Requests \cup {Auth} \cup Replies \cup Answers
    /\ Auth \notin Requests

VARIABLES
    alive,   \* the process
    once,    \* redis_once_: "new", "running" or "done"
    stage,   \* where the thread of a request is
    job,     \* the request it serves, or None
    cmd,     \* the RESP command it is about to send or has sent
    answer,  \* its answer, or None
    link,    \* the socket sfd_: "none", "up", "closed" (by Redis), "reset"
    buffer,  \* replies in buffer_
    rx, tx,  \* replies and (parts of) commands on their way
    store,   \* the data of Redis
    up,      \* Redis is running
    told,    \* history: what Redis replied to the thread's own command
    mixed    \* history: two threads have been inside the client at once

processVars == <<alive, once>>
threadVars == <<stage, job, cmd, answer>>
wireVars == <<link, buffer, rx, tx>>
redisVars == <<store, up>>
historyVars == <<told, mixed>>
vars == <<processVars, threadVars, wireVars, redisVars, historyVars>>

Stages == {"idle", "once", "connect", "send", "rest", "find", "recv", "reply"}

(* Inside RedisClient::command.                                            *)
Inside == {t \in Threads : stage[t] \in {"send", "rest", "find", "recv"}}

Nobody == [t \in Threads |-> None]

Init ==
    /\ alive = TRUE
    /\ once = "new"
    /\ stage = [t \in Threads |-> "idle"]
    /\ job = Nobody /\ cmd = Nobody /\ answer = Nobody /\ told = Nobody
    /\ link = "none"
    /\ buffer = <<>> /\ rx = <<>> /\ tx = <<>>
    /\ store = EmptyStore
    /\ up = TRUE
    /\ mixed = FALSE
-----------------------------------------------------------------------------
(* handle_client and ensure_redis.                                         *)

At(t, s) == alive /\ stage[t] = s

GoTo(t, s) == stage' = [stage EXCEPT ![t] = s]

(* The process ends, and its threads and its sockets with it.              *)
Dies ==
    /\ alive' = FALSE
    /\ stage' = [t \in Threads |-> "idle"]
    /\ job' = Nobody /\ cmd' = Nobody /\ answer' = Nobody /\ told' = Nobody
    /\ link' = "none"
    /\ buffer' = <<>> /\ rx' = <<>> /\ tx' = <<>>
    /\ UNCHANGED <<once, redisVars, mixed>>

(* parse_request has returned a request whose route uses Redis.            *)
Accept(t, r) ==
    /\ At(t, "idle")
    /\ mixed => Follow  \* bound
    /\ GoTo(t, "once")
    /\ job' = [job EXCEPT ![t] = r]
    /\ UNCHANGED <<processVars, cmd, answer, wireVars, redisVars, historyVars>>

(* std::stoul throws for a Content-Length that is no number, outside of    *)
(* the try block.                                                          *)
ParseThrows(t) == At(t, "idle") /\ Dies

(* The thread goes on to send c.                                           *)
Enters(t, c) ==
    /\ GoTo(t, "send")
    /\ cmd' = [cmd EXCEPT ![t] = c]
    /\ mixed' = (mixed \/ Inside \ {t} # {})
    /\ UNCHANGED <<job, answer, told>>

(* It has its answer; an exception inside call_once leaves the flag as it  *)
(* was before.                                                             *)
Leaves(t, a) ==
    /\ GoTo(t, "reply")
    /\ answer' = [answer EXCEPT ![t] = a]
    /\ cmd' = [cmd EXCEPT ![t] = None]
    /\ UNCHANGED <<job, historyVars>>

Throws(t) ==
    /\ Leaves(t, Failed)
    /\ once' = IF cmd[t] = Auth \/ stage[t] = "connect" THEN "new" ELSE once
    /\ UNCHANGED alive

(* Mutant of EnterOnce: a null check of redis_ in place of call_once.      *)
EnterUnguarded(t) ==
    /\ At(t, "once")
    /\ once # "done"
    /\ once' = "running"
    /\ GoTo(t, "connect")
    /\ link' = "none"
    /\ buffer' = <<>> /\ rx' = <<>> /\ tx' = <<>>
    /\ UNCHANGED <<alive, job, cmd, answer, redisVars, historyVars>>

(* make_unique replaces, and thereby closes, what an earlier attempt left. *)
EnterOnce(t) ==
    /\ At(t, "once")
    /\ once = "new"
    /\ once' = "running"
    /\ GoTo(t, "connect")
    /\ link' = "none"
    /\ buffer' = <<>> /\ rx' = <<>> /\ tx' = <<>>
    /\ UNCHANGED <<alive, job, cmd, answer, redisVars, historyVars>>

Connect(t) ==
    /\ At(t, "connect")
    /\ \/ /\ up
          /\ link' = "up"
          /\ once' = IF Password THEN once ELSE "done"
          /\ Enters(t, IF Password THEN Auth ELSE job[t])
          /\ UNCHANGED alive
       \/ UNCHANGED link /\ Throws(t)
    /\ UNCHANGED <<buffer, rx, tx, redisVars>>

PassOnce(t) ==
    /\ At(t, "once")
    /\ once = "done"
    /\ Enters(t, job[t])
    /\ UNCHANGED <<processVars, wireVars, redisVars>>

(* send to the HTTP client; its result is ignored, but if the client has   *)
(* reset the connection, SIGPIPE ends the process.                         *)
Reply(t) ==
    /\ At(t, "reply")
    /\ GoTo(t, "idle")
    /\ job' = [job EXCEPT ![t] = None]
    /\ answer' = [answer EXCEPT ![t] = None]
    /\ told' = [told EXCEPT ![t] = None]
    /\ UNCHANGED <<processVars, cmd, wireVars, redisVars, mixed>>

ReplyKills(t) == At(t, "reply") /\ Dies
-----------------------------------------------------------------------------
(* RedisClient::command                                                    *)

Part(t, last) == [by |-> t, cmd |-> cmd[t], last |-> last]

(* send_all has written something; only an open end reads it.              *)
Sends(t, last) ==
    /\ link \in {"up", "closed"}
    /\ tx' = IF link = "up" THEN Append(tx, Part(t, last)) ELSE tx
    /\ link' = IF link = "up" THEN link ELSE "reset"
    /\ GoTo(t, IF last THEN "find" ELSE "rest")
    /\ UNCHANGED <<processVars, job, cmd, answer, buffer, rx, redisVars, historyVars>>

Tear(t) == At(t, "send") /\ Sends(t, FALSE)

Send(t) == (At(t, "send") \/ At(t, "rest")) /\ Sends(t, TRUE)

SendFails(t) ==
    /\ At(t, "send") \/ At(t, "rest")
    /\ link = "reset"
    /\ Throws(t)
    /\ UNCHANGED <<wireVars, redisVars>>

SendKills(t) ==
    /\ At(t, "send") \/ At(t, "rest")
    /\ link = "reset"
    /\ Dies

(* parse_reply: recv is called only when buffer_ holds no reply.           *)
Await(t) ==
    /\ At(t, "find")
    /\ buffer = <<>>
    /\ GoTo(t, "recv")
    /\ UNCHANGED <<processVars, job, cmd, answer, wireVars, redisVars, historyVars>>

Recv(t) ==
    /\ At(t, "recv")
    /\ \E n \in 1 .. Len(rx) :
         /\ buffer' = buffer \o SubSeq(rx, 1, n)
         /\ rx' = SubSeq(rx, n + 1, Len(rx))
    /\ GoTo(t, "find")
    /\ UNCHANGED <<processVars, job, cmd, answer, link, tx, redisVars, historyVars>>

(* Mutant of RecvFails: timeout_ms is applied to the socket, and an answer *)
(* that comes too late stays there.                                        *)
RecvTimesOut(t) ==
    /\ At(t, "recv")
    /\ rx = <<>>
    /\ Throws(t)
    /\ UNCHANGED <<wireVars, redisVars>>

(* Mutant of RecvFails: a recv that returns 0 is called again.             *)
RecvInsists(t) ==
    /\ At(t, "recv")
    /\ rx = <<>>
    /\ link = "reset"
    /\ Throws(t)
    /\ UNCHANGED <<wireVars, redisVars>>

(* Mutant of RecvFails: connect again and send the command again.          *)
RecvRetries(t) ==
    /\ At(t, "recv")
    /\ rx = <<>>
    /\ link \in {"closed", "reset"}
    /\ up
    /\ link' = "up"
    /\ GoTo(t, "send")
    /\ UNCHANGED <<processVars, job, cmd, answer, buffer, rx, tx, redisVars, historyVars>>

RecvFails(t) ==
    /\ At(t, "recv")
    /\ rx = <<>>
    /\ link \in {"closed", "reset"}
    /\ Throws(t)
    /\ UNCHANGED <<wireVars, redisVars>>

Authenticated(reply) == reply.type \in {"simple", "bulk"}

TakeReply(t) ==
    /\ At(t, "find")
    /\ buffer # <<>>
    /\ buffer' = Tail(buffer)
    /\ IF cmd[t] # Auth
       THEN Leaves(t, AnswerOf(job[t], Head(buffer))) /\ UNCHANGED processVars
       ELSE IF Authenticated(Head(buffer))
            THEN Enters(t, job[t]) /\ once' = "done" /\ UNCHANGED alive
            ELSE Throws(t)
    /\ UNCHANGED <<link, rx, tx, redisVars>>

(* Two threads work on buffer_ at once, which is a data race: bytes are    *)
(* lost, or the process ends.                                              *)
Race(t) ==
    /\ At(t, "find")
    /\ \E u \in Threads \ {t} : stage[u] \in {"find", "recv"}
    /\ \/ /\ buffer' = <<>>
          /\ UNCHANGED <<processVars, threadVars, link, rx, tx, redisVars, historyVars>>
       \/ Dies
-----------------------------------------------------------------------------
(* Redis.                                                                  *)

Whole == IF tx = <<>> THEN 0 ELSE IF tx[1].last THEN 1 ELSE 2

(* The command at the head of tx is complete and in one piece.             *)
Arrived == tx # <<>> /\ Whole <= Len(tx) /\ tx[Whole].by = tx[1].by

Reads(n) == tx' = SubSeq(tx, n + 1, Len(tx))

Execute ==
    LET t == tx[1].by
        c == tx[1].cmd
    IN
    /\ link = "up"
    /\ Arrived
    /\ Reads(Whole)
    /\ IF c = Auth
       THEN /\ \E reply \in {Says("simple", Okay), Says("error", None)} : rx' = Append(rx, reply)
            /\ UNCHANGED <<store, told>>
       ELSE /\ rx' = Append(rx, ReplyTo(c, store))
            /\ told' = [told EXCEPT ![t] = IF cmd[t] = c THEN ReplyTo(c, store) ELSE @]
            /\ store' = StoreAfter(c, store)
    /\ UNCHANGED <<processVars, threadVars, link, buffer, up, mixed>>

(* The connection ends.  Replies under way may still arrive.               *)
Ends ==
    /\ link = "up"
    /\ link' \in {"closed", "reset"}
    /\ tx' = <<>>
    /\ rx' \in {rx, <<>>}
    /\ UNCHANGED buffer

HangUp ==
    /\ Ends
    /\ UNCHANGED <<processVars, threadVars, redisVars, historyVars>>

(* Two commands that have run into each other: the second is read as a     *)
(* part of the first one's value, then comes a protocol error.             *)
Garble ==
    /\ tx # <<>>
    /\ Whole <= Len(tx)
    /\ ~Arrived
    /\ Ends
    /\ store' = store \/ \E k \in Keys, v \in Values :
                            store' = [store EXCEPT ![k].value = v]
    /\ UNCHANGED <<processVars, threadVars, up, historyVars>>

StopRedis ==
    /\ up
    /\ up' = FALSE
    /\ IF link = "up" THEN Ends ELSE UNCHANGED wireVars
    /\ store' \in {store, EmptyStore}
    /\ UNCHANGED <<processVars, threadVars, historyVars>>

StartRedis ==
    /\ ~up
    /\ up' = TRUE
    /\ UNCHANGED <<processVars, threadVars, wireVars, store, historyVars>>

Expire(k) ==
    /\ store[k].expires
    /\ store' = [store EXCEPT ![k] = Absent]
    /\ UNCHANGED <<processVars, threadVars, wireVars, up, historyVars>>
-----------------------------------------------------------------------------
Step(t) ==
    \/ Connect(t) \/ Send(t) \/ SendFails(t) \/ Await(t)
    \/ Recv(t) \/ RecvFails(t) \/ TakeReply(t) \/ Reply(t)

Next ==
    \/ \E t \in Threads :
         \/ EnterOnce(t) \/ PassOnce(t) \/ Step(t) \/ Tear(t) \/ Race(t)
         \/ ParseThrows(t) \/ SendKills(t) \/ ReplyKills(t)
         \/ \E r \in Requests : Accept(t, r)
    \/ Execute \/ Garble \/ HangUp \/ StopRedis \/ StartRedis
    \/ \E k \in Keys : Expire(k)

(* Threads run, call_once lets in a thread that finds it free again and    *)
(* again, and Redis answers what has arrived.                              *)
Spec ==
    /\ Init /\ [][Next]_vars
    /\ \A t \in Threads : WF_vars(Step(t)) /\ SF_vars(EnterOnce(t) \/ PassOnce(t))
    /\ WF_vars(Execute)
-----------------------------------------------------------------------------
Commands == Requests \cup {Auth}

TypeOK ==
    /\ alive \in BOOLEAN
    /\ once \in {"new", "running", "done"}
    /\ stage \in [Threads -> Stages]
    /\ job \in [Threads -> Requests \cup {None}]
    /\ cmd \in [Threads -> Commands \cup {None}]
    /\ answer \in [Threads -> Answers \cup {None}]
    /\ link \in {"none", "up", "closed", "reset"}
    /\ buffer \in Seq(Replies)
    /\ rx \in Seq(Replies)
    /\ tx \in Seq([by : Threads, cmd : Commands, last : BOOLEAN])
    /\ store \in Stores
    /\ up \in BOOLEAN
    /\ told \in [Threads -> Replies \cup {None}]
    /\ mixed \in BOOLEAN

(* A reply is matched with a command by nothing but its place in the       *)
(* stream.  Until two threads have been inside the client at once, a       *)
(* request answered 200 is told what Redis replied to its own command,     *)
(* also after requests that failed half way, reconnections for AUTH and    *)
(* connections that were lost.                                             *)
AnswersOwnCommand ==
    mixed \/ \A t \in Threads :
        answer[t] # None /\ answer[t].status = "ok" =>
            told[t] # None /\ answer[t] = AnswerOf(job[t], told[t])

(* redis_ is replaced only while no other thread is inside it: until       *)
(* call_once is done nobody but the thread that runs it gets further.      *)
OnlyTheInitializer ==
    once # "done" => \A t, u \in Threads :
        {stage[t], stage[u]} \subseteq Stages \ {"idle", "once", "reply"} => t = u

(* The service looks like an atomic store to requests that do not overlap. *)
Atomic == INSTANCE AtomicRedis

ImplementsAtomicRedis == Atomic!Spec

(* If requests never overlap inside the client, each is answered, whatever *)
(* happens to the connection, or the process ends.                         *)
AnsweredInTurn ==
    []~mixed => \A t \in Threads : job[t] # None ~> job[t] = None
=============================================================================

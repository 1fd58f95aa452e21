-------------------------- MODULE RedisShare_proof --------------------------
(***************************************************************************)
(* Proofs about the shared Redis client, for any threads and any requests. *)
(***************************************************************************)
EXTENDS RedisShare, SequenceTheorems, TLAPS

Busy == {t \in Threads : stage[t] \in {"connect", "send", "rest", "find", "recv"}}

(* What a thread has, it has where it needs it.                            *)
Shape == \A t \in Threads :
    /\ stage[t] # "idle" => job[t] \in Requests
    /\ stage[t] = "idle" => job[t] = None
    /\ stage[t] = "reply" <=> answer[t] # None
    /\ t \in Inside <=> cmd[t] # None

(* call_once: who is past it while it runs runs it, and does nothing but   *)
(* AUTH; afterwards everyone is about a request.                           *)
Gate ==
    /\ once = "new" => Busy = {}
    /\ once = "running" => /\ \A t, u \in Busy : t = u
                           /\ \A t \in Busy : stage[t] # "connect" => cmd[t] = Auth
    /\ once = "done" => \A t \in Busy : stage[t] # "connect" /\ cmd[t] = job[t]

Silent == buffer = <<>> /\ rx = <<>> /\ tx = <<>>

(* The reply to t's command is to come, is there, or will never come.      *)
Waiting(t) ==
    \/ /\ tx \in {<<Part(t, TRUE)>>, <<Part(t, FALSE), Part(t, TRUE)>>}
       /\ rx = <<>> /\ buffer = <<>>
       /\ told[t] = None
    \/ /\ tx = <<>>
       /\ \E r \in Replies :
            /\ \/ rx = <<r>> /\ buffer = <<>>
               \/ rx = <<>> /\ buffer = <<r>> /\ stage[t] = "find"
            /\ told[t] = IF cmd[t] = Auth THEN None ELSE r
    \/ Silent /\ link # "up"

InStep(t) ==
    /\ tx # <<>> => link = "up"
    /\ stage[t] = "send" => Silent /\ told[t] = None
    /\ stage[t] = "rest" => /\ tx \in {<<>>, <<Part(t, FALSE)>>}
                            /\ rx = <<>> /\ buffer = <<>>
                            /\ told[t] = None
    /\ stage[t] \in {"find", "recv"} => Waiting(t)

(* Until requests mix, the stream holds nothing but what the one thread    *)
(* inside the client has sent or is to receive.                            *)
Alone == ~mixed =>
    /\ \A t, u \in Inside : t = u
    /\ Inside = {} => Silent
    /\ \A t \in Inside : InStep(t)
    /\ \A t \in Threads : stage[t] \in {"idle", "once", "connect"} => told[t] = None

ShareInv == TypeOK /\ Shape /\ Gate /\ Alone /\ AnswersOwnCommand
-----------------------------------------------------------------------------
(* What Redis does stays within the types.                                 *)
LEMMA DataTyped ==
    ASSUME NEW r \in Requests, NEW s \in Stores
    PROVE  ReplyTo(r, s) \in Replies /\ StoreAfter(r, s) \in Stores
<1>1. r.key \in Keys /\ s[r.key] \in [value : Values, expires : BOOLEAN]
    BY DEF Requests, Stores
<1>2. r.op \in {"get", "del", "exists", "incr", "set"}
    BY DEF Requests
<1>3. CASE Refused(r, s)
    BY <1>3 DEF ReplyTo, StoreAfter, Says, Replies
<1>4. CASE ~Refused(r, s)
  <2>1. CASE r.op = "set"
    <3>1. r.text \in Texts /\ (r.ttl > 0) \in BOOLEAN
        BY <2>1 DEF Requests
    <3> QED
        BY <1>1, <1>4, <2>1, <3>1 DEF ReplyTo, StoreAfter, Says, Replies, Stores, Values
  <2>2. CASE r.op = "incr"
    <3>1. s[r.key].value \notin Texts \cup {MaxCount}
        BY <1>4, <2>2 DEF Refused
    <3>2. Counted(r, s) \in 1 .. MaxCount
        BY <1>1, <3>1, DataAssumption DEF Counted, Missing, Values
    <3>3. Counted(r, s) \in Values /\ Counted(r, s) \in 0 .. MaxCount
        BY <3>2, DataAssumption DEF Values
    <3> QED
        BY <1>1, <1>4, <2>2, <3>3 DEF ReplyTo, StoreAfter, Says, Replies, Stores
  <2>3. CASE r.op \in {"del", "exists"}
    <3>1. Absent \in [value : Values, expires : BOOLEAN]
        BY DEF Absent, Values
    <3> QED
        BY <1>1, <1>4, <2>3, <3>1, DataAssumption
           DEF ReplyTo, StoreAfter, Says, Replies, Stores, Count, Missing
  <2>4. CASE r.op = "get"
    BY <1>1, <1>4, <2>4 DEF ReplyTo, StoreAfter, Says, Replies, Missing, Values
  <2> QED
    BY <1>2, <2>1, <2>2, <2>3, <2>4
<1> QED
    BY <1>3, <1>4

LEMMA AnswerTyped ==
    ASSUME NEW r \in Requests, NEW reply \in Replies
    PROVE  AnswerOf(r, reply) \in Answers
<1>1. {0, 1, None, Okay} \subseteq Values \cup {0, Okay}
    BY DataAssumption DEF Values
<1>2. reply.value \in Values \cup {0, Okay}
    BY DataAssumption DEF Replies, Values
<1>3. \A v \in Values \cup {0, Okay} : Ok(v) \in Answers
    BY DEF Answers, Ok
<1>4. Failed \in Answers
    BY DEF Answers, Failed
<1> HIDE DEF Ok, Failed, Answers
<1> QED
    BY <1>1, <1>2, <1>3, <1>4 DEF AnswerOf

(* Sequences of one or two elements.                                       *)
LEMMA Short ==
    ASSUME NEW p, NEW q
    PROVE  /\ Append(<<>>, p) = <<p>> /\ Append(<<p>>, q) = <<p, q>>
           /\ Head(<<p>>) = p /\ Tail(<<p>>) = <<>>
           /\ <<>> \o <<p>> = <<p>>
           /\ SubSeq(<<p>>, 1, 1) = <<p>> /\ SubSeq(<<p>>, 2, 1) = <<>>
           /\ SubSeq(<<p, q>>, 3, 2) = <<>>
           /\ Len(<<p>>) = 1 /\ Len(<<p, q>>) = 2
<1>1. Tail(<<p>>) \in Seq({p}) /\ Len(Tail(<<p>>)) = 0
    OBVIOUS
<1>2. SubSeq(<<p, q>>, 3, 2) \in Seq({p, q}) /\ Len(SubSeq(<<p, q>>, 3, 2)) = 0
    OBVIOUS
<1>3. Tail(<<p>>) = <<>> /\ SubSeq(<<p, q>>, 3, 2) = <<>>
    BY <1>1, <1>2, EmptySeq
<1>4. SubSeq(<<p>>, 1, 1) = <<p>>
  <2>1. <<p>> \in Seq({p}) /\ Len(<<p>>) = 1
    OBVIOUS
  <2> QED
    BY <2>1, SubSeqFull
<1>5. SubSeq(<<p>>, 2, 1) = <<>>
    OBVIOUS
<1>6. <<>> \o <<p>> = <<p>>
  <2>1. <<p>> \in Seq({p})
    OBVIOUS
  <2> QED
    BY <2>1, ConcatEmptySeq
<1>7. Append(<<>>, p) = <<p>>
    OBVIOUS
<1>8. Append(<<p>>, q) = <<p, q>>
  <2>1. /\ <<p>> \in Seq({p, q}) /\ Len(<<p>>) = 1
        /\ <<p, q>> \in Seq({p, q}) /\ Len(<<p, q>>) = 2
    OBVIOUS
  <2>2. /\ Append(<<p>>, q) \in Seq({p, q}) /\ Len(Append(<<p>>, q)) = 2
        /\ Append(<<p>>, q)[1] = p /\ Append(<<p>>, q)[2] = q
    BY <2>1
  <2>3. \A i \in 1 .. 2 : Append(<<p>>, q)[i] = <<p, q>>[i]
    BY <2>2
  <2> QED
    BY <2>1, <2>2, <2>3, SeqEqual
<1>9. Head(<<p>>) = p
    OBVIOUS
<1>10. Len(<<p>>) = 1
    OBVIOUS
<1>11. Len(<<p, q>>) = 2
    OBVIOUS
<1> QED
    BY <1>3, <1>4, <1>5, <1>6, <1>7, <1>8, <1>9, <1>10, <1>11, Zenon
LEMMA Piece ==
    ASSUME NEW S, NEW s \in Seq(S), s # <<>>, NEW m \in 1 .. Len(s)
    PROVE  s[1] \in S /\ SubSeq(s, m + 1, Len(s)) \in Seq(S)
    OBVIOUS
-----------------------------------------------------------------------------
(* Types, in three parts.                                                  *)
ThreadsOK ==
    /\ alive \in BOOLEAN
    /\ once \in {"new", "running", "done"}
    /\ stage \in [Threads -> Stages]
    /\ job \in [Threads -> Requests \cup {None}]
    /\ cmd \in [Threads -> Commands \cup {None}]
    /\ answer \in [Threads -> Answers \cup {None}]
    /\ mixed \in BOOLEAN

Parts == [by : Threads, cmd : Commands, last : BOOLEAN]

WireOK ==
    /\ link \in {"none", "up", "closed", "reset"}
    /\ buffer \in Seq(Replies)
    /\ rx \in Seq(Replies)
    /\ tx \in Seq(Parts)

RedisOK ==
    /\ store \in Stores
    /\ up \in BOOLEAN
    /\ told \in [Threads -> Replies \cup {None}]

LEMMA TypeParts == TypeOK <=> ThreadsOK /\ WireOK /\ RedisOK
    BY ZenonT(60) DEF TypeOK, ThreadsOK, WireOK, RedisOK, Parts

LEMMA Ended ==
    ASSUME TypeOK, Dies
    PROVE  TypeOK'
<1>1. ThreadsOK'
    BY DEF Dies, Nobody, Stages, redisVars, TypeOK, ThreadsOK
<1>2. WireOK'
    BY DEF Dies, WireOK
<1>3. RedisOK'
    BY DEF Dies, Nobody, redisVars, TypeOK, RedisOK
<1> QED
    BY <1>1, <1>2, <1>3 DEF TypeOK, ThreadsOK, WireOK, RedisOK, Parts

LEMMA LeavesTyped ==
    ASSUME ThreadsOK, RedisOK, NEW t \in Threads, NEW a \in Answers, Leaves(t, a)
    PROVE  /\ stage' \in [Threads -> Stages]
           /\ cmd' \in [Threads -> Commands \cup {None}]
           /\ answer' \in [Threads -> Answers \cup {None}]
           /\ UNCHANGED <<job, told, mixed>>
    BY DEF Leaves, GoTo, ThreadsOK, historyVars, Stages

LEMMA ThrowsTyped ==
    ASSUME ThreadsOK, RedisOK, NEW t \in Threads, Throws(t)
    PROVE  ThreadsOK' /\ UNCHANGED told
<1>1. Failed \in Answers
    BY DEF Failed, Answers
<1>2. once' \in {"new", "running", "done"} /\ alive' = alive
    BY DEF Throws, ThreadsOK
<1> QED
    BY <1>1, <1>2, LeavesTyped DEF Throws, ThreadsOK

LEMMA EntersTyped ==
    ASSUME ThreadsOK, NEW t \in Threads, NEW c \in Commands, Enters(t, c)
    PROVE  /\ stage' \in [Threads -> Stages]
           /\ cmd' \in [Threads -> Commands \cup {None}]
           /\ mixed' \in BOOLEAN
           /\ UNCHANGED <<job, answer, told>>
    BY DEF Enters, GoTo, ThreadsOK, Stages

LEMMA ThreadStepTyped ==
    ASSUME TypeOK, Shape, NEW t \in Threads,
           \/ \E r \in Requests : Accept(t, r)
           \/ EnterOnce(t) \/ Connect(t) \/ PassOnce(t) \/ Reply(t)
           \/ SendFails(t) \/ RecvFails(t) \/ Await(t)
    PROVE  TypeOK'
<1> USE DEF GoTo, At, Stages, ThreadsOK, WireOK, RedisOK
<1>a. ThreadsOK /\ WireOK /\ RedisOK
    BY TypeParts
<1>b. ThreadsOK' /\ WireOK' /\ RedisOK' => TypeOK'
    BY DEF TypeOK, ThreadsOK, WireOK, RedisOK, Parts
<1>1. ASSUME NEW r \in Requests, Accept(t, r) PROVE TypeOK'
    BY <1>a, <1>b, <1>1 DEF Accept, processVars, wireVars, redisVars, historyVars
<1>2. CASE EnterOnce(t)
    BY <1>a, <1>b, <1>2 DEF EnterOnce, redisVars, historyVars
<1>3. CASE Connect(t)
  <2>1. Auth \in Commands /\ job[t] \in Commands
    BY <1>3 DEF Connect, Commands, Shape
  <2>2. ThreadsOK' /\ told' = told
    <3>1. CASE Throws(t)
      BY <1>a, <3>1, ThrowsTyped
    <3>2. CASE ~Throws(t)
      BY <1>a, <1>3, <2>1, <3>2, EntersTyped DEF Connect
    <3> QED
      BY <3>1, <3>2
  <2> QED
    BY <1>a, <1>b, <1>3, <2>2 DEF Connect, redisVars
<1>4. CASE PassOnce(t)
    BY <1>a, <1>b, <1>4 DEF PassOnce, Enters, processVars, wireVars, redisVars, Commands, Shape
<1>5. CASE Reply(t)
    BY <1>a, <1>b, <1>5 DEF Reply, processVars, wireVars, redisVars
<1>6. CASE SendFails(t) \/ RecvFails(t)
  <2>1. ThreadsOK' /\ told' = told
    BY <1>a, <1>6, ThrowsTyped DEF SendFails, RecvFails
  <2> QED
    BY <1>a, <1>b, <1>6, <2>1 DEF SendFails, RecvFails, wireVars, redisVars
<1>7. CASE Await(t)
    BY <1>a, <1>b, <1>7 DEF Await, processVars, wireVars, redisVars, historyVars
<1> QED
    BY <1>1, <1>2, <1>3, <1>4, <1>5, <1>6, <1>7

LEMMA SendsTyped ==
    ASSUME TypeOK, Shape, NEW t \in Threads, At(t, "send") \/ At(t, "rest"),
           NEW last \in BOOLEAN, Sends(t, last)
    PROVE  TypeOK'
<1>1. cmd[t] \in Commands
    BY DEF Shape, Inside, At, TypeOK
<1>2. Part(t, last) \in Parts
    BY <1>1 DEF Part, Parts
<1>3. WireOK'
  <2>1. tx \in Seq(Parts) /\ tx' \in {tx, Append(tx, Part(t, last))}
    BY TypeParts DEF Sends, WireOK
  <2>2. tx' \in Seq(Parts)
    BY <1>2, <2>1
  <2>3. link' \in {"none", "up", "closed", "reset"} /\ UNCHANGED <<buffer, rx>>
    BY DEF Sends
  <2> QED
    BY <2>2, <2>3 DEF TypeOK, WireOK
<1>4. ThreadsOK'
    BY DEF Sends, GoTo, processVars, historyVars, TypeOK, ThreadsOK, Stages
<1>5. RedisOK'
    BY DEF Sends, redisVars, historyVars, TypeOK, RedisOK
<1> QED
    BY <1>3, <1>4, <1>5 DEF TypeOK, ThreadsOK, WireOK, RedisOK, Parts

LEMMA RecvTyped ==
    ASSUME TypeOK, NEW t \in Threads, Recv(t)
    PROVE  TypeOK'
<1>1. PICK n \in 1 .. Len(rx) : /\ buffer' = buffer \o SubSeq(rx, 1, n)
                                /\ rx' = SubSeq(rx, n + 1, Len(rx))
    BY DEF Recv
<1>2. buffer \in Seq(Replies) /\ rx \in Seq(Replies)
    BY DEF TypeOK
<1>3. SubSeq(rx, 1, n) \in Seq(Replies) /\ SubSeq(rx, n + 1, Len(rx)) \in Seq(Replies)
    BY <1>2
<1>4. WireOK'
  <2>1. buffer' \in Seq(Replies)
    BY <1>1, <1>2, <1>3
  <2> QED
    BY <1>1, <1>3, <2>1, TypeParts DEF Recv, WireOK
<1>5. ThreadsOK' /\ RedisOK'
    BY DEF Recv, GoTo, processVars, redisVars, historyVars, TypeOK, ThreadsOK, RedisOK, Stages
<1> QED
    BY <1>4, <1>5 DEF TypeOK, ThreadsOK, WireOK, RedisOK, Parts

LEMMA TakeReplyTyped ==
    ASSUME TypeOK, Shape, NEW t \in Threads, TakeReply(t)
    PROVE  TypeOK'
<1>1. ThreadsOK /\ RedisOK /\ job[t] \in Requests
    BY TypeParts DEF TakeReply, At, Shape
<1>2. Head(buffer) \in Replies /\ Tail(buffer) \in Seq(Replies)
    BY DEF TakeReply, TypeOK
<1>3. AnswerOf(job[t], Head(buffer)) \in Answers /\ job[t] \in Commands
    BY <1>1, <1>2, AnswerTyped DEF Commands
<1>4. ThreadsOK' /\ told' = told
  <2>1. CASE Throws(t)
    BY <1>1, <2>1, ThrowsTyped
  <2>2. CASE Leaves(t, AnswerOf(job[t], Head(buffer))) /\ UNCHANGED processVars
    BY <1>1, <1>3, <2>2, LeavesTyped DEF processVars, ThreadsOK
  <2>3. CASE Enters(t, job[t]) /\ once' = "done" /\ UNCHANGED alive
    BY <1>1, <1>3, <2>3, EntersTyped DEF ThreadsOK
  <2> QED
    BY <2>1, <2>2, <2>3 DEF TakeReply
<1>5. WireOK'
    BY <1>2, TypeParts DEF TakeReply, WireOK
<1>6. RedisOK'
    BY <1>4 DEF TakeReply, redisVars, TypeOK, RedisOK
<1> QED
    BY <1>4, <1>5, <1>6 DEF TypeOK, ThreadsOK, WireOK, RedisOK, Parts

LEMMA ExecuteTyped ==
    ASSUME TypeOK, Execute
    PROVE  TypeOK'
<1> DEFINE t == tx[1].by
           c == tx[1].cmd
<1>1. tx \in Seq(Parts) /\ rx \in Seq(Replies)
    BY TypeParts DEF WireOK
<1>2. tx # <<>> /\ Whole \in 1 .. Len(tx) /\ tx' = SubSeq(tx, Whole + 1, Len(tx))
  <2>1. tx # <<>> /\ Whole <= Len(tx) /\ tx' = SubSeq(tx, Whole + 1, Len(tx))
    BY DEF Execute, Arrived, Reads
  <2>2. Whole \in {1, 2}
    BY <2>1 DEF Whole
  <2> QED
    BY <1>1, <2>1, <2>2
<1>3. tx' \in Seq(Parts) /\ t \in Threads /\ c \in Commands
  <2>1. tx[1] \in Parts /\ tx' \in Seq(Parts)
    BY <1>1, <1>2, Piece
  <2> QED
    BY <2>1 DEF Parts
<1>4. rx' \in Seq(Replies) /\ RedisOK'
  <2>1. CASE c = Auth
    <3>1. Says("simple", Okay) \in Replies /\ Says("error", None) \in Replies
      BY DEF Says, Replies
    <3>2. \E reply \in Replies : rx' = Append(rx, reply)
      BY <2>1, <3>1 DEF Execute
    <3>3. RedisOK'
      BY <2>1, TypeParts DEF Execute, RedisOK
    <3> QED
      BY <1>1, <3>2, <3>3
  <2>2. CASE c # Auth
    <3>1. ReplyTo(c, store) \in Replies /\ StoreAfter(c, store) \in Stores
      BY <1>3, <2>2, TypeParts, DataTyped DEF Commands, RedisOK
    <3>2. rx' = Append(rx, ReplyTo(c, store))
      BY <2>2 DEF Execute
    <3>3. RedisOK'
      BY <1>3, <2>2, <3>1, TypeParts DEF Execute, RedisOK
    <3> QED
      BY <1>1, <3>1, <3>2, <3>3
  <2> QED
    BY <2>1, <2>2
<1>5. WireOK'
    BY <1>1, <1>3, <1>4, TypeParts DEF Execute, WireOK
<1>6. ThreadsOK'
    BY DEF Execute, processVars, threadVars, TypeOK, ThreadsOK
<1> QED
    BY <1>4, <1>5, <1>6 DEF TypeOK, ThreadsOK, WireOK, RedisOK, Parts

LEMMA LinkStepTyped ==
    ASSUME TypeOK, HangUp \/ Garble \/ StopRedis \/ StartRedis \/ \E k \in Keys : Expire(k)
    PROVE  TypeOK'
<1>1. ThreadsOK' /\ UNCHANGED told
    BY DEF HangUp, Garble, StopRedis, StartRedis, Expire, processVars, threadVars, historyVars,
           TypeOK, ThreadsOK
<1>2. WireOK'
  <2>1. CASE Ends
    <3>1. UNCHANGED buffer /\ rx' \in {rx, <<>>} /\ tx' = <<>> /\ link' \in {"closed", "reset"}
      BY <2>1 DEF Ends
    <3>2. rx \in Seq(Replies) /\ buffer \in Seq(Replies)
      BY TypeParts DEF WireOK
    <3>3. rx' = rx \/ rx' = <<>>
      BY <3>1
    <3>4. <<>> \in Seq(Replies) /\ <<>> \in Seq(Parts)
      OBVIOUS
    <3>5. rx' \in Seq(Replies) /\ tx' \in Seq(Parts) /\ buffer' \in Seq(Replies)
      BY <3>1, <3>2, <3>3, <3>4, Zenon
    <3> QED
      BY <3>1, <3>5, Zenon DEF WireOK
  <2>2. CASE UNCHANGED wireVars
    BY <2>2, TypeParts DEF wireVars, WireOK
  <2> QED
    BY <2>1, <2>2 DEF HangUp, Garble, StopRedis, StartRedis, Expire
<1>3. store' \in Stores /\ up' \in BOOLEAN
  <2>1. Absent \in [value : Values, expires : BOOLEAN]
    BY DEF Absent, Values
  <2>2. EmptyStore \in Stores
    BY <2>1 DEF EmptyStore, Stores
  <2>3. ASSUME NEW k \in Keys, NEW v \in Values
        PROVE  /\ [store EXCEPT ![k].value = v] \in Stores
               /\ [store EXCEPT ![k] = Absent] \in Stores
    BY <2>1 DEF TypeOK, Stores
  <2>4. store \in Stores /\ up \in BOOLEAN
    BY TypeParts DEF RedisOK
  <2>5. store' \in Stores
    <3>1. \/ store' \in {store, EmptyStore}
          \/ \E k \in Keys, v \in Values : \/ store' = [store EXCEPT ![k].value = v]
                                         \/ store' = [store EXCEPT ![k] = Absent]
      BY <2>2 DEF HangUp, Garble, StopRedis, StartRedis, Expire, redisVars, Values
    <3> QED
      BY <2>2, <2>3, <2>4, <3>1
  <2>6. up' \in BOOLEAN
    BY <2>4 DEF HangUp, Garble, StopRedis, StartRedis, Expire, redisVars
  <2> QED
    BY <2>5, <2>6
<1> QED
    BY <1>1, <1>2, <1>3 DEF TypeOK, ThreadsOK, WireOK, RedisOK, Parts

LEMMA TypeStep ==
    ASSUME TypeOK, Shape, [Next]_vars
    PROVE  TypeOK'
<1>1. CASE Dies
    BY <1>1, Ended
<1>2. ASSUME NEW t \in Threads, Race(t), ~Dies
      PROVE  TypeOK'
  <2>1. ThreadsOK' /\ RedisOK'
    BY <1>2 DEF Race, processVars, threadVars, redisVars, historyVars, TypeOK, ThreadsOK, RedisOK
  <2>2. WireOK'
    <3>1. UNCHANGED <<link, rx, tx>> /\ buffer' = <<>>
      BY <1>2 DEF Race
    <3> QED
      BY <3>1, TypeParts DEF WireOK
  <2> QED
    BY <2>1, <2>2 DEF TypeOK, ThreadsOK, WireOK, RedisOK, Parts
<1>3. ASSUME NEW t \in Threads, Tear(t) \/ Send(t)
      PROVE  TypeOK'
    BY <1>3, SendsTyped DEF Tear, Send
<1>4. CASE UNCHANGED vars
    BY <1>4 DEF vars, processVars, threadVars, wireVars, redisVars, historyVars, TypeOK
<1> QED
    BY <1>1, <1>2, <1>3, <1>4, ThreadStepTyped, RecvTyped, TakeReplyTyped, ExecuteTyped, LinkStepTyped
       DEF Next, Step, ParseThrows, ReplyKills, SendKills
-----------------------------------------------------------------------------
(* Shape and Gate: a step of a thread, seen from it and from the others.   *)
LEMMA ShapeGateStep ==
    ASSUME TypeOK, Shape, Gate, [Next]_vars
    PROVE  Shape' /\ Gate'
<1> DEFINE Same == UNCHANGED <<stage, job, answer, cmd, once>>
<1> USE DEF At, GoTo, Inside, Busy
<1>a. ThreadsOK /\ None \notin Requests /\ Auth # None /\ Failed # None
    BY TypeParts, ShareAssumption DEF ThreadsOK, Answers, Failed
<1>b. CASE Same
    BY <1>b DEF Shape, Gate
<1>c. CASE Dies
    BY <1>c, <1>a DEF Dies, Nobody, Shape, Gate, ThreadsOK
<1>1. ASSUME NEW t \in Threads, NEW r \in Requests, Accept(t, r)
      PROVE  Shape' /\ Gate'
    BY <1>1, <1>a DEF Accept, processVars, Shape, Gate, ThreadsOK
<1>2. ASSUME NEW t \in Threads, EnterOnce(t)
      PROVE  Shape' /\ Gate'
    BY <1>2, <1>a DEF EnterOnce, Shape, Gate, ThreadsOK
<1>3. ASSUME NEW t \in Threads, Connect(t), ~Throws(t)
      PROVE  Shape' /\ Gate'
  <2>1. once = "running" /\ Busy = {t}
    BY <1>3, <1>a DEF Connect, Gate, ThreadsOK
  <2>2. PICK c \in {Auth, job[t]} : Enters(t, c) /\ once' = IF c = Auth THEN "running" ELSE "done"
    <3>1. job[t] # Auth
      BY <1>3, ShareAssumption DEF Connect, Shape
    <3>2. /\ Enters(t, IF Password THEN Auth ELSE job[t])
          /\ once' = IF Password THEN once ELSE "done"
      BY <1>3 DEF Connect
    <3>3. CASE Password
      BY <2>1, <3>2, <3>3
    <3>4. CASE ~Password
      BY <3>1, <3>2, <3>4
    <3> QED
      BY <3>3, <3>4
  <2>3. c # None /\ job[t] \in Requests
    BY <1>3, <1>a DEF Connect, Shape
  <2>4. /\ stage[t] = "connect"
        /\ stage' = [stage EXCEPT ![t] = "send"] /\ cmd' = [cmd EXCEPT ![t] = c]
        /\ UNCHANGED <<job, answer>>
    <3>1. stage[t] = "connect"
      BY <1>3 DEF Connect
    <3>2. stage' = [stage EXCEPT ![t] = "send"] /\ cmd' = [cmd EXCEPT ![t] = c]
      BY <2>2 DEF Enters
    <3>3. UNCHANGED <<job, answer>>
      BY <2>2 DEF Enters
    <3> QED
      BY <3>1, <3>2, <3>3
  <2>5. Shape'
    BY <2>3, <2>4, <1>a DEF Shape, ThreadsOK
  <2>6. \A u \in Threads : stage'[u] = IF u = t THEN "send" ELSE stage[u]
    BY <2>4, <1>a DEF ThreadsOK
  <2>7. Busy' = {t} /\ stage'[t] = "send"
    BY <2>1, <2>6
  <2>8. cmd'[t] = c /\ job'[t] = job[t]
    BY <2>4, <1>a DEF ThreadsOK
  <2>9. Gate'
    <3>1. once' \in {"running", "done"} /\ (once' = "running" => cmd'[t] = Auth) /\ (once' = "done" => cmd'[t] = job'[t])
      BY <2>2, <2>8
    <3> QED
      BY <2>7, <3>1 DEF Gate
  <2> QED
    BY <2>5, <2>9
<1>4. ASSUME NEW t \in Threads, PassOnce(t)
      PROVE  Shape' /\ Gate'
    BY <1>4, <1>a DEF PassOnce, Enters, processVars, Shape, Gate, ThreadsOK
<1>5. ASSUME NEW t \in Threads, Reply(t)
      PROVE  Shape' /\ Gate'
    BY <1>5, <1>a DEF Reply, processVars, Shape, Gate, ThreadsOK
<1>6. ASSUME NEW t \in Threads, NEW last \in BOOLEAN, At(t, "send") \/ At(t, "rest"), Sends(t, last)
      PROVE  Shape' /\ Gate'
    BY <1>6, <1>a DEF Sends, processVars, Shape, Gate, ThreadsOK
<1>7. ASSUME NEW t \in Threads, Await(t) \/ Recv(t)
      PROVE  Shape' /\ Gate'
    BY <1>7, <1>a DEF Await, Recv, processVars, Shape, Gate, ThreadsOK
<1>8. ASSUME NEW t \in Threads, t \in Busy, Throws(t)
      PROVE  Shape' /\ Gate'
  <2>1. Shape'
    BY <1>8, <1>a DEF Throws, Leaves, Shape, ThreadsOK
  <2>2. Busy' = Busy \ {t} /\ \A u \in Busy \ {t} : stage'[u] = stage[u] /\ cmd'[u] = cmd[u]
    BY <1>8, <1>a DEF Throws, Leaves, ThreadsOK
  <2>3. CASE once = "running"
    <3>1. Busy' = {}
      BY <1>8, <2>2, <2>3 DEF Gate
    <3> QED
      BY <2>1, <3>1, <1>a, <1>8, <2>3 DEF Gate, Throws
  <2>4. CASE once = "done"
    <3>1. stage[t] # "connect" /\ cmd[t] = job[t] /\ job[t] \in Requests
      BY <1>8, <2>4, <1>a DEF Gate, Shape
    <3>2. cmd[t] # Auth
      BY <3>1, ShareAssumption
    <3>3. once' = "done" /\ UNCHANGED job
      BY <1>8, <2>4, <3>1, <3>2 DEF Throws, Leaves, historyVars
    <3> QED
      BY <2>1, <2>2, <2>4, <3>3, <1>a DEF Gate
  <2> QED
    BY <1>8, <2>3, <2>4, <1>a DEF Gate, ThreadsOK
<1>9. ASSUME NEW t \in Threads, TakeReply(t), ~Throws(t)
      PROVE  Shape' /\ Gate'
  <2>0. stage[t] = "find" /\ job[t] \in Requests /\ t \in Busy
    BY <1>9 DEF TakeReply, Shape
  <2>1. CASE cmd[t] # Auth
    <3>0. AnswerOf(job[t], Head(buffer)) # None
      BY <2>0, <1>9, AnswerTyped, TypeParts, ShareAssumption DEF TakeReply, WireOK
    <3>1. PICK a : a # None /\ Leaves(t, a) /\ UNCHANGED once
      BY <1>9, <2>1, <3>0 DEF TakeReply, processVars
    <3>2. Shape'
      BY <2>0, <3>1, <1>a DEF Leaves, Shape, ThreadsOK
    <3>3. Busy' = Busy \ {t} /\ \A u \in Busy \ {t} : stage'[u] = stage[u] /\ cmd'[u] = cmd[u]
      BY <2>0, <3>1, <1>a DEF Leaves, ThreadsOK
    <3>4. UNCHANGED <<job, once>>
      BY <3>1 DEF Leaves
    <3> QED
      BY <2>0, <3>2, <3>3, <3>4 DEF Gate
  <2>2. CASE cmd[t] = Auth
    <3>1. Enters(t, job[t]) /\ once' = "done"
      BY <1>9, <2>2 DEF TakeReply
    <3>2. /\ stage' = [stage EXCEPT ![t] = "send"] /\ cmd' = [cmd EXCEPT ![t] = job[t]]
          /\ UNCHANGED <<job, answer>>
      BY <3>1 DEF Enters
    <3>3. once = "running" /\ Busy = {t}
      BY <2>0, <2>2, <1>a, ShareAssumption DEF Gate, ThreadsOK
    <3>4. Shape'
      BY <2>0, <3>2, <1>a DEF Shape, ThreadsOK
    <3>5. \A u \in Threads : stage'[u] = IF u = t THEN "send" ELSE stage[u]
      BY <3>2, <1>a DEF ThreadsOK
    <3>6. Busy' = {t} /\ stage'[t] = "send"
      BY <3>3, <3>5
    <3>7. cmd'[t] = job'[t]
      BY <3>2, <1>a DEF ThreadsOK
    <3> QED
      BY <3>1, <3>4, <3>6, <3>7 DEF Gate
  <2> QED
    BY <2>1, <2>2
<1>10. ASSUME NEW t \in Threads, Race(t)
       PROVE  Same \/ Dies
    BY <1>10 DEF Race, processVars, threadVars
<1>11. CASE Execute \/ Garble \/ HangUp \/ StopRedis \/ StartRedis \/ \E k \in Keys : Expire(k)
    BY <1>b, <1>11 DEF Execute, Garble, HangUp, StopRedis, StartRedis, Expire, processVars, threadVars
<1>12. CASE UNCHANGED vars
    BY <1>b, <1>12 DEF vars, processVars, threadVars
<1>13. ASSUME NEW t \in Threads, Step(t)
       PROVE  Shape' /\ Gate'
  <2>1. CASE Connect(t) \/ SendFails(t) \/ RecvFails(t) \/ TakeReply(t)
    <3>1. t \in Busy
      BY <2>1 DEF Connect, SendFails, RecvFails, TakeReply
    <3> QED
      BY <2>1, <3>1, <1>3, <1>8, <1>9 DEF SendFails, RecvFails
  <2>2. CASE Send(t)
    BY <2>2, <1>6 DEF Send
  <2> QED
    BY <1>13, <1>5, <1>7, <2>1, <2>2 DEF Step
<1>14. ASSUME NEW t \in Threads, Tear(t)
       PROVE  Shape' /\ Gate'
    BY <1>14, <1>6 DEF Tear
<1>15. ASSUME NEW t \in Threads, SendKills(t) \/ ParseThrows(t) \/ ReplyKills(t)
       PROVE  Shape' /\ Gate'
    BY <1>15, <1>c DEF SendKills, ParseThrows, ReplyKills
<1> HIDE DEF Same
<1> QED
    BY <1>b, <1>c, <1>1, <1>2, <1>4, <1>10, <1>11, <1>12, <1>13, <1>14, <1>15 DEF Next
-----------------------------------------------------------------------------
(* Alone and AnswersOwnCommand: while nothing has mixed, the stream is     *)
(* that of one thread.                                                     *)

(* Who is inside follows from the stages.                                  *)
LEMMA OthersStay ==
    ASSUME ThreadsOK, NEW t \in Threads, NEW s \in Stages, stage' = [stage EXCEPT ![t] = s]
    PROVE  /\ stage'[t] = s
           /\ \A u \in Threads \ {t} : stage'[u] = stage[u]
           /\ Inside' \ {t} = Inside \ {t}
           /\ t \in Inside' <=> s \in {"send", "rest", "find", "recv"}
    BY DEF ThreadsOK, Inside

(* A thread that enters, alone, finds the stream silent.                   *)
LEMMA EntersAlone ==
    ASSUME TypeOK, Shape, Alone, NEW t \in Threads, NEW c \in Commands, Enters(t, c),
           Inside \ {t} = {} => Silent' /\ told[t] = None
    PROVE  Alone'
<1> SUFFICES ASSUME ~mixed' PROVE Alone'
    BY DEF Alone
<1>1. ThreadsOK
    BY TypeParts
<1>2. mixed = FALSE /\ Inside \ {t} = {}
    BY <1>1 DEF Enters, ThreadsOK
<1>3. stage' = [stage EXCEPT ![t] = "send"] /\ told' = told
    BY DEF Enters, GoTo
<1>4. Inside' \ {t} = {} /\ t \in Inside' /\ stage'[t] = "send" /\ \A u \in Threads \ {t} : stage'[u] = stage[u]
    BY <1>1, <1>2, <1>3, OthersStay DEF Stages
<1>5. Silent' /\ told'[t] = None
    BY <1>2, <1>3
<1>6. InStep(t)'
    BY <1>4, <1>5 DEF InStep, Silent
<1>7. \A u \in Threads : stage'[u] \in {"idle", "once", "connect"} => told'[u] = None
    BY <1>2, <1>3, <1>4 DEF Alone
<1> QED
    BY <1>4, <1>6, <1>7 DEF Alone

(* A thread that leaves must leave the stream silent.                      *)
LEMMA LeavesAlone ==
    ASSUME TypeOK, Alone, NEW t \in Threads, NEW a, Leaves(t, a),
           ~mixed => Inside \subseteq {t} /\ Silent'
    PROVE  Alone'
<1> SUFFICES ASSUME ~mixed' PROVE Alone'
    BY DEF Alone
<1>1. ThreadsOK
    BY TypeParts
<1>2. ~mixed /\ told' = told /\ stage' = [stage EXCEPT ![t] = "reply"]
    BY DEF Leaves, GoTo, historyVars
<1>3. stage'[t] = "reply" /\ Inside' \subseteq Inside \ {t} /\ \A u \in Threads \ {t} : stage'[u] = stage[u]
  <2>1. Inside' \ {t} = Inside \ {t} /\ t \notin Inside'
    BY <1>1, <1>2, OthersStay DEF Stages
  <2> QED
    BY <1>1, <1>2, <2>1, OthersStay DEF Stages
<1> QED
    BY <1>2, <1>3 DEF Alone

(* Steps outside of the client.                                            *)
LEMMA OutsideAlone ==
    ASSUME TypeOK, Shape, Gate, Alone, NEW t \in Threads,
           \/ \E r \in Requests : Accept(t, r)
           \/ EnterOnce(t) \/ Reply(t)
    PROVE  Alone'
<1> SUFFICES ASSUME ~mixed' PROVE Alone'
    BY DEF Alone
<1>1. ThreadsOK /\ RedisOK
    BY TypeParts
<1>2. ~mixed /\ UNCHANGED cmd /\ t \notin Inside
    BY DEF Accept, EnterOnce, Reply, At, historyVars, Inside
<1>3. PICK s \in {"once", "connect", "idle"} :
          /\ stage' = [stage EXCEPT ![t] = s]
          /\ told'[t] = None
          /\ \A u \in Threads \ {t} : told'[u] = told[u]
  <2>1. CASE Reply(t)
    BY <1>1, <2>1 DEF Reply, GoTo, RedisOK
  <2>2. ASSUME NEW r \in Requests, Accept(t, r)
        PROVE  stage' = [stage EXCEPT ![t] = "once"] /\ told' = told /\ stage[t] = "idle"
    BY <2>2 DEF Accept, GoTo, At, historyVars
  <2>3. CASE EnterOnce(t)
    <3>1. stage' = [stage EXCEPT ![t] = "connect"] /\ told' = told /\ stage[t] = "once"
      BY <2>3 DEF EnterOnce, GoTo, At, historyVars
    <3> QED
      BY <1>2, <3>1 DEF Alone
  <2> QED
    BY <1>2, <2>1, <2>2, <2>3 DEF Alone
<1>4. Inside' \ {t} = Inside \ {t} /\ t \notin Inside'
    BY <1>1, <1>3, OthersStay DEF Stages
<1>5. Inside' = Inside /\ stage'[t] \in {"once", "connect", "idle"}
      /\ \A u \in Threads \ {t} : stage'[u] = stage[u]
  <2>1. Inside' = Inside
    BY <1>2, <1>4
  <2>2. stage'[t] \in {"once", "connect", "idle"} /\ \A u \in Threads \ {t} : stage'[u] = stage[u]
    BY <1>1, <1>3 DEF ThreadsOK
  <2> QED
    BY <2>1, <2>2
<1>6. CASE Inside = {}
  <2>1. Silent'
    <3>1. Silent
      BY <1>2, <1>6 DEF Alone
    <3>2. CASE EnterOnce(t)
      BY <3>2 DEF EnterOnce, Silent
    <3>3. CASE UNCHANGED wireVars
      BY <3>1, <3>3 DEF wireVars, Silent
    <3> QED
      BY <3>2, <3>3 DEF Accept, Reply
  <2> QED
    BY <1>2, <1>3, <1>5, <1>6, <2>1 DEF Alone
<1>7. CASE Inside # {}
  <2>1. UNCHANGED wireVars
    <3>1. Inside \subseteq Busy
      BY DEF Inside, Busy
    <3>2. Busy # {}
      BY <1>7, <3>1
    <3>3. ~EnterOnce(t)
      BY <3>2 DEF EnterOnce, Gate
    <3> QED
      BY <3>3 DEF Accept, Reply
  <2>2. ASSUME NEW u \in Inside
        PROVE  InStep(u)'
    <3>1. u # t /\ stage'[u] = stage[u] /\ told'[u] = told[u] /\ cmd'[u] = cmd[u]
      BY <1>2, <1>3, <1>5 DEF Inside
    <3>2. InStep(u)
      BY <1>2 DEF Alone
    <3> QED
      BY <2>1, <3>1, <3>2 DEF InStep, Waiting, Silent, Part, wireVars
  <2> QED
    BY <1>2, <1>3, <1>5, <1>7, <2>2 DEF Alone
<1> QED
    BY <1>6, <1>7

LEMMA EnteringAlone ==
    ASSUME TypeOK, Shape, Gate, Alone, NEW t \in Threads, Connect(t) \/ PassOnce(t)
    PROVE  Alone'
<1>1. ThreadsOK /\ job[t] \in Requests /\ t \notin Inside /\ (~mixed => told[t] = None)
    BY TypeParts DEF Connect, PassOnce, At, Shape, Inside, Alone
<1>2. Auth \in Commands /\ job[t] \in Commands
    BY <1>1 DEF Commands
<1>3. UNCHANGED <<buffer, rx, tx>>
    BY DEF Connect, PassOnce, wireVars
<1>4. Connect(t) => Inside = {}
    BY <1>1 DEF Connect, At, Gate, Busy, Inside, ThreadsOK
<1>5. ASSUME NEW c \in Commands, Enters(t, c)
      PROVE  Alone'
  <2>1. CASE mixed
    BY <2>1, <1>5 DEF Enters, Alone
  <2>2. CASE ~mixed
    <3>1. Inside \ {t} = {} => Silent' /\ told[t] = None
      BY <1>1, <1>3, <2>2 DEF Alone, Silent
    <3> QED
      BY <1>5, <3>1, EntersAlone
  <2> QED
    BY <2>1, <2>2
<1>6. CASE Connect(t) /\ Throws(t)
  <2>1. ~mixed => Inside \subseteq {t} /\ Silent'
    BY <1>3, <1>4, <1>6 DEF Alone, Silent
  <2> QED
    BY <1>6, <2>1, LeavesAlone DEF Throws
<1> QED
    BY <1>2, <1>5, <1>6 DEF Connect, PassOnce

(* Facts about a thread that is inside alone.                              *)
LEMMA InsideAlone ==
    ASSUME TypeOK, Alone, ~mixed, NEW t \in Inside
    PROVE  Inside = {t} /\ InStep(t)
    BY DEF Alone

(* A step of the thread inside that keeps it there.                        *)
LEMMA StaysAlone ==
    ASSUME TypeOK, Alone, ~mixed, NEW t \in Inside, NEW s \in {"rest", "find", "recv"},
           stage' = [stage EXCEPT ![t] = s], InStep(t)',
           \A u \in Threads \ {t} : told'[u] = told[u]
    PROVE  Alone'
<1>1. ThreadsOK /\ t \in Threads /\ Inside = {t}
    BY TypeParts, InsideAlone DEF Inside
<1>2. Inside' \ {t} = {} /\ t \in Inside' /\ stage'[t] = s
    BY <1>1, OthersStay DEF Stages
<1>3. \A u \in Threads \ {t} : stage'[u] = stage[u]
    BY <1>1, OthersStay DEF Stages
<1>4. Inside' = {t}
    BY <1>2
<1> QED
    BY <1>2, <1>3, <1>4 DEF Alone

LEMMA SendsAlone ==
    ASSUME TypeOK, Alone, NEW t \in Threads, NEW last \in BOOLEAN, Sends(t, last),
           At(t, "send") \/ (At(t, "rest") /\ last)
    PROVE  Alone'
<1> SUFFICES ASSUME ~mixed' PROVE Alone'
    BY DEF Alone
<1>1. ThreadsOK /\ ~mixed /\ t \in Inside
    BY TypeParts DEF Sends, historyVars, Inside, At
<1>2. InStep(t)
    BY <1>1, InsideAlone
<1>3. UNCHANGED <<told, cmd, buffer, rx>> /\ stage' = [stage EXCEPT ![t] = IF last THEN "find" ELSE "rest"]
    BY DEF Sends, historyVars, GoTo
<1>4. stage'[t] = IF last THEN "find" ELSE "rest"
    BY <1>1, <1>3 DEF ThreadsOK
<1>5. rx = <<>> /\ buffer = <<>> /\ told[t] = None
    BY <1>2 DEF InStep, Silent, At
<1>6. tx \in {<<>>, <<Part(t, FALSE)>>} /\ (At(t, "send") => tx = <<>>)
    BY <1>2 DEF InStep, Silent, At
<1>7. Part(t, last)' = Part(t, last) /\ Part(t, FALSE)' = Part(t, FALSE) /\ Part(t, TRUE)' = Part(t, TRUE)
    BY <1>3 DEF Part
<1>8. InStep(t)'
  <2>1. CASE link = "up"
    <3>1. tx' = Append(tx, Part(t, last)) /\ link' = "up"
      BY <2>1 DEF Sends
    <3>2. tx' = <<Part(t, last)>> \/ (last /\ tx' = <<Part(t, FALSE), Part(t, TRUE)>>)
      BY <1>6, <3>1, Short DEF At
    <3>3. rx' = <<>> /\ buffer' = <<>> /\ told'[t] = None
      BY <1>3, <1>5
    <3>4. CASE last
      <4>1. tx' = <<Part(t, TRUE)>> \/ tx' = <<Part(t, FALSE), Part(t, TRUE)>>
        BY <3>2, <3>4
      <4>2. tx' \in {<<Part(t, TRUE)>>, <<Part(t, FALSE), Part(t, TRUE)>>}'
        BY <1>7, <4>1
      <4>3. Waiting(t)' /\ stage'[t] = "find"
        BY <1>4, <3>3, <3>4, <4>2 DEF Waiting
      <4> QED
        BY <3>1, <4>3 DEF InStep
    <3>5. CASE ~last
      <4>1. tx' = <<Part(t, FALSE)>>' /\ stage'[t] = "rest"
        BY <1>4, <1>7, <3>2, <3>5
      <4> QED
        BY <3>1, <3>3, <4>1 DEF InStep
    <3> QED
      BY <3>4, <3>5
  <2>2. CASE link # "up"
    <3>1. tx = <<>> /\ tx' = <<>> /\ link' = "reset"
      BY <1>2, <2>2 DEF InStep, Sends
    <3>2. Silent'
      BY <1>3, <1>5, <3>1 DEF Silent
    <3> QED
      BY <1>3, <1>4, <1>5, <3>1, <3>2 DEF InStep, Waiting, Silent
  <2> QED
    BY <2>1, <2>2
<1>9. (IF last THEN "find" ELSE "rest") \in {"rest", "find", "recv"}
    OBVIOUS
<1> QED
    BY <1>1, <1>3, <1>8, <1>9, StaysAlone

(* What a failed send or recv leaves behind is nothing.                    *)
LEMMA FailsAlone ==
    ASSUME TypeOK, Alone, NEW t \in Threads, SendFails(t) \/ RecvFails(t)
    PROVE  Alone'
<1>1. Throws(t) /\ UNCHANGED wireVars /\ t \in Inside
    BY DEF SendFails, RecvFails, Inside, At
<1>2. ASSUME ~mixed
      PROVE  Inside = {t} /\ Silent
  <2>1. Inside = {t} /\ InStep(t)
    BY <1>1, <1>2, InsideAlone
  <2>2. CASE SendFails(t)
    BY <2>1, <2>2 DEF SendFails, At, InStep, Silent
  <2>3. CASE RecvFails(t)
    <3>1. stage[t] = "recv" /\ rx = <<>> /\ link # "up"
      BY <2>3 DEF RecvFails, At
    <3>2. tx = <<>> /\ Waiting(t)
      BY <2>1, <3>1 DEF InStep
    <3> QED
      BY <2>1, <3>1, <3>2, Short DEF Waiting, Silent
  <2> QED
    BY <2>1, <2>2, <2>3
<1>3. ~mixed => Inside \subseteq {t} /\ Silent'
    BY <1>1, <1>2 DEF Silent, wireVars
<1> QED
    BY <1>1, <1>3, LeavesAlone DEF Throws

LEMMA AwaitAlone ==
    ASSUME TypeOK, Alone, NEW t \in Threads, Await(t)
    PROVE  Alone'
<1> SUFFICES ASSUME ~mixed' PROVE Alone'
    BY DEF Alone
<1>1. ThreadsOK /\ ~mixed /\ t \in Inside /\ buffer = <<>> /\ stage[t] = "find"
    BY TypeParts DEF Await, historyVars, Inside, At
<1>2. UNCHANGED <<told, cmd, link, buffer, rx, tx>> /\ stage' = [stage EXCEPT ![t] = "recv"]
    BY DEF Await, historyVars, wireVars, GoTo
<1>3. InStep(t)
    BY <1>1, InsideAlone
<1>4. stage'[t] = "recv"
    BY <1>1, <1>2 DEF ThreadsOK
<1>5. Waiting(t)'
    BY <1>1, <1>2, <1>3, Short DEF InStep, Waiting, Silent, Part
<1>6. InStep(t)'
    BY <1>2, <1>3, <1>4, <1>5 DEF InStep
<1> QED
    BY <1>1, <1>2, <1>6, StaysAlone

LEMMA RecvAlone ==
    ASSUME TypeOK, Alone, NEW t \in Threads, Recv(t)
    PROVE  Alone'
<1> SUFFICES ASSUME ~mixed' PROVE Alone'
    BY DEF Alone
<1>1. ThreadsOK /\ ~mixed /\ t \in Inside /\ stage[t] = "recv"
    BY TypeParts DEF Recv, historyVars, Inside, At
<1>2. UNCHANGED <<told, cmd, link, tx>> /\ stage' = [stage EXCEPT ![t] = "find"]
    BY DEF Recv, historyVars, GoTo
<1>3. InStep(t)
    BY <1>1, InsideAlone
<1>4. stage'[t] = "find"
    BY <1>1, <1>2 DEF ThreadsOK
<1>5. PICK n \in 1 .. Len(rx) : /\ buffer' = buffer \o SubSeq(rx, 1, n)
                                /\ rx' = SubSeq(rx, n + 1, Len(rx))
    BY DEF Recv
<1>6. PICK r \in Replies : /\ rx = <<r>> /\ buffer = <<>> /\ tx = <<>>
                           /\ told[t] = IF cmd[t] = Auth THEN None ELSE r
  <2>1. rx # <<>>
    BY <1>5
  <2> QED
    BY <1>1, <1>3, <2>1 DEF InStep, Waiting, Silent
<1>7. n = 1 /\ buffer' = <<r>> /\ rx' = <<>>
  <2>1. n = 1 /\ Len(rx) = 1
    BY <1>5, <1>6, Short
  <2> QED
    BY <1>5, <1>6, <2>1, Short
<1>8. Waiting(t)'
    BY <1>2, <1>4, <1>6, <1>7 DEF Waiting
<1>9. InStep(t)'
    BY <1>2, <1>4, <1>6, <1>8 DEF InStep
<1> QED
    BY <1>1, <1>2, <1>9, StaysAlone

(* The reply that a thread takes is the only one there is, and its own.    *)
LEMMA ReplyIsOwn ==
    ASSUME TypeOK, Alone, ~mixed, NEW t \in Threads, TakeReply(t)
    PROVE  /\ Inside = {t} /\ rx = <<>> /\ tx = <<>> /\ Tail(buffer) = <<>>
           /\ told[t] = IF cmd[t] = Auth THEN None ELSE Head(buffer)
           /\ Head(buffer) \in Replies
<1>1. t \in Inside /\ buffer # <<>> /\ stage[t] = "find"
    BY DEF TakeReply, Inside, At
<1>2. Inside = {t} /\ Waiting(t)
    BY <1>1, InsideAlone DEF InStep
<1>3. PICK r \in Replies : /\ buffer = <<r>> /\ rx = <<>> /\ tx = <<>>
                           /\ told[t] = IF cmd[t] = Auth THEN None ELSE r
    BY <1>1, <1>2 DEF Waiting, Silent
<1> QED
    BY <1>2, <1>3, Short

LEMMA TakeReplyAlone ==
    ASSUME TypeOK, Shape, Alone, NEW t \in Threads, TakeReply(t)
    PROVE  Alone'
<1>1. buffer' = Tail(buffer) /\ UNCHANGED <<rx, tx>> /\ job[t] \in Commands /\ UNCHANGED told
    BY DEF TakeReply, At, Shape, Commands, Leaves, Enters, Throws, historyVars
<1>2. ~mixed => Inside = {t} /\ Silent' /\ (cmd[t] = Auth => told[t] = None)
    BY <1>1, ReplyIsOwn DEF Silent
<1>3. ASSUME NEW a, Leaves(t, a)
      PROVE  Alone'
    BY <1>2, <1>3, LeavesAlone
<1>4. CASE Enters(t, job[t]) /\ cmd[t] = Auth
  <2>1. CASE mixed
    BY <1>4, <2>1 DEF Enters, Alone
  <2>2. CASE ~mixed
    BY <1>1, <1>2, <1>4, <2>2, EntersAlone
  <2> QED
    BY <2>1, <2>2
<1> QED
    BY <1>3, <1>4 DEF TakeReply, Throws

LEMMA RaceAlone ==
    ASSUME TypeOK, Alone, NEW t \in Threads, Race(t), ~Dies
    PROVE  Alone'
<1>1. PICK u \in Threads \ {t} : t \in Inside /\ u \in Inside
    BY DEF Race, Inside, At
<1>2. mixed
    BY <1>1 DEF Alone
<1> QED
    BY <1>2 DEF Race, historyVars, Alone

(* When a command runs, it is that of the one thread inside.               *)
LEMMA RunsOwn ==
    ASSUME TypeOK, Alone, ~mixed, Execute
    PROVE  LET t == tx[1].by IN
           /\ Inside = {t} /\ stage[t] \in {"find", "recv"}
           /\ tx[1].cmd = cmd[t] /\ told[t] = None
           /\ rx = <<>> /\ buffer = <<>> /\ tx' = <<>>
<1>1. tx # <<>> /\ tx[1].by \in Threads /\ Arrived /\ tx' = SubSeq(tx, Whole + 1, Len(tx))
  <2>1. tx # <<>> /\ Arrived /\ tx' = SubSeq(tx, Whole + 1, Len(tx))
    BY DEF Execute, Arrived, Reads
  <2>2. tx \in Seq(Parts)
    BY TypeParts DEF WireOK
  <2>3. Len(tx) >= 1 /\ tx[1] \in Parts
    BY <2>1, <2>2
  <2> QED
    BY <2>1, <2>3 DEF Parts
<1>2. PICK t \in Inside : Inside = {t} /\ InStep(t)
    BY <1>1, InsideAlone DEF Alone, Silent
<1>3. t \in Threads /\ stage[t] \in {"send", "rest", "find", "recv"}
    BY <1>2 DEF Inside
<1>4. ~(stage[t] = "send")
    BY <1>1, <1>2 DEF InStep, Silent
<1>5. tx # <<Part(t, FALSE)>>
  <2>1. SUFFICES ASSUME tx = <<Part(t, FALSE)>> PROVE FALSE
    OBVIOUS
  <2>2. Whole = 2 /\ Len(tx) = 1
    BY <2>1, Short DEF Whole, Part
  <2> QED
    BY <1>1, <2>2 DEF Arrived
<1>6. stage[t] \in {"find", "recv"} /\ Waiting(t)
    BY <1>1, <1>2, <1>3, <1>4, <1>5 DEF InStep
<1>7. /\ tx \in {<<Part(t, TRUE)>>, <<Part(t, FALSE), Part(t, TRUE)>>}
      /\ rx = <<>> /\ buffer = <<>> /\ told[t] = None
    BY <1>1, <1>6 DEF Waiting, Silent
<1>8. CASE tx = <<Part(t, TRUE)>>
  <2>1. Whole = 1 /\ Len(tx) = 1 /\ tx[1] = Part(t, TRUE)
    BY <1>8, Short DEF Whole, Part
  <2>2. tx' = <<>>
    BY <1>1, <1>8, <2>1, Short
  <2> QED
    BY <1>2, <1>6, <1>7, <2>1, <2>2 DEF Part
<1>9. CASE tx = <<Part(t, FALSE), Part(t, TRUE)>>
  <2>1. Whole = 2 /\ Len(tx) = 2 /\ tx[1] = Part(t, FALSE)
    BY <1>9, Short DEF Whole, Part
  <2>2. tx' = <<>>
    BY <1>1, <1>9, <2>1, Short
  <2> QED
    BY <1>2, <1>6, <1>7, <2>1, <2>2 DEF Part
<1> QED
    BY <1>7, <1>8, <1>9

(* A stream of one thread never garbles.                                   *)
LEMMA AloneArrives ==
    ASSUME TypeOK, Alone, ~mixed, tx # <<>>, Whole <= Len(tx)
    PROVE  Arrived
<1>1. PICK t \in Inside : InStep(t)
    BY DEF Alone, Silent
<1>2. \/ tx = <<Part(t, FALSE)>> \/ tx = <<Part(t, TRUE)>>
      \/ tx = <<Part(t, FALSE), Part(t, TRUE)>>
    BY <1>1 DEF InStep, Waiting, Silent, Inside
<1>3. CASE tx = <<Part(t, FALSE)>>
    BY <1>3, Short DEF Whole, Part
<1>4. CASE tx = <<Part(t, TRUE)>>
    BY <1>4, Short DEF Whole, Part, Arrived
<1>5. CASE tx = <<Part(t, FALSE), Part(t, TRUE)>>
    BY <1>5, Short DEF Whole, Part, Arrived
<1> QED
    BY <1>2, <1>3, <1>4, <1>5

LEMMA ExecuteAlone ==
    ASSUME TypeOK, Shape, Alone, Execute
    PROVE  Alone'
<1> SUFFICES ASSUME ~mixed' PROVE Alone'
    BY DEF Alone
<1>1. ~mixed /\ UNCHANGED <<stage, cmd, link, buffer>> /\ link = "up"
    BY DEF Execute, threadVars
<1> PICK t : t = tx[1].by
    OBVIOUS
<1>2. /\ Inside = {t} /\ stage[t] \in {"find", "recv"}
      /\ tx[1].cmd = cmd[t] /\ told[t] = None
      /\ rx = <<>> /\ buffer = <<>> /\ tx' = <<>>
    BY <1>1, RunsOwn
<1>3. cmd[t] \in Commands /\ t \in Threads
    BY <1>2, TypeParts DEF Inside, Shape, ThreadsOK
<1>4. PICK r \in Replies : /\ rx' = <<r>>
                           /\ told'[t] = IF cmd[t] = Auth THEN None ELSE r
                           /\ \A u \in Threads \ {t} : told'[u] = told[u]
  <2>1. CASE cmd[t] = Auth
    <3>1. Says("simple", Okay) \in Replies /\ Says("error", None) \in Replies
      BY DEF Says, Replies
    <3>2. \E r \in Replies : rx' = Append(rx, r)
      BY <1>2, <2>1, <3>1 DEF Execute
    <3>3. told' = told
      BY <1>2, <2>1 DEF Execute
    <3> QED
      BY <1>2, <2>1, <3>2, <3>3, Short
  <2>2. CASE cmd[t] # Auth
    <3>1. ReplyTo(cmd[t], store) \in Replies
      BY <1>3, <2>2, DataTyped, TypeParts DEF Commands, RedisOK
    <3>2. rx' = Append(rx, ReplyTo(cmd[t], store))
      BY <1>2, <2>2 DEF Execute
    <3>3. told' = [told EXCEPT ![t] = ReplyTo(cmd[t], store)]
      BY <1>2, <2>2 DEF Execute
    <3>4. told'[t] = ReplyTo(cmd[t], store) /\ \A u \in Threads \ {t} : told'[u] = told[u]
      BY <1>3, <3>3, TypeParts DEF RedisOK
    <3> QED
      BY <1>2, <2>2, <3>1, <3>2, <3>4, Short
  <2> QED
    BY <2>1, <2>2
<1>5. Inside' = Inside /\ stage'[t] \in {"find", "recv"}
    BY <1>1, <1>2 DEF Inside
<1>6. InStep(t)'
  <2>1. (rx = <<r>> /\ buffer = <<>>)'
    BY <1>1, <1>2, <1>4
  <2>2. Waiting(t)'
    BY <1>1, <1>2, <1>4, <2>1 DEF Waiting
  <2> QED
    BY <1>2, <1>5, <2>2 DEF InStep
<1>7. \A u \in Threads : stage'[u] \in {"idle", "once", "connect"} => told'[u] = None
    BY <1>1, <1>2, <1>4 DEF Alone
<1>8. Inside' = {t}
    BY <1>2, <1>5
<1> QED
    BY <1>6, <1>7, <1>8 DEF Alone

(* The connection may be lost at any time.                                 *)
LEMMA LinkAlone ==
    ASSUME TypeOK, Alone, HangUp \/ Garble \/ StopRedis \/ StartRedis \/ \E k \in Keys : Expire(k)
    PROVE  Alone'
<1> SUFFICES ASSUME ~mixed' PROVE Alone'
    BY DEF Alone
<1>1. ~mixed /\ UNCHANGED <<stage, cmd, told>> /\ Inside' = Inside
    BY DEF HangUp, Garble, StopRedis, StartRedis, Expire, threadVars, historyVars, Inside
<1>2. CASE UNCHANGED wireVars
    BY <1>1, <1>2 DEF wireVars, Alone, InStep, Waiting, Silent, Part
<1>3. CASE Ends
  <2>1. tx' = <<>> /\ rx' \in {rx, <<>>} /\ buffer' = buffer /\ link' # "up"
    BY <1>3 DEF Ends
  <2>2. Inside = {} => Silent'
    BY <1>1, <2>1 DEF Alone, Silent
  <2>3. ASSUME NEW t \in Inside
        PROVE  InStep(t)'
    <3>1. InStep(t)
      BY <1>1 DEF Alone
    <3>2. CASE stage[t] = "send" \/ stage[t] = "rest"
      BY <1>1, <2>1, <3>1, <3>2 DEF InStep, Silent
    <3>3. CASE stage[t] \in {"find", "recv"}
      <4>1. Waiting(t)
        BY <3>1, <3>3 DEF InStep
      <4>2. Waiting(t)'
        <5>1. CASE rx' = <<>> /\ buffer = <<>>
          BY <2>1, <5>1 DEF Waiting, Silent
        <5>2. CASE ~(rx' = <<>> /\ buffer = <<>>)
          <6>1. PICK r \in Replies :
                   /\ \/ rx = <<r>> /\ buffer = <<>>
                      \/ rx = <<>> /\ buffer = <<r>> /\ stage[t] = "find"
                   /\ told[t] = IF cmd[t] = Auth THEN None ELSE r
            BY <2>1, <4>1, <5>2 DEF Waiting, Silent
          <6>2. rx' = rx
            BY <2>1, <5>2, <6>1
          <6> QED
            BY <1>1, <2>1, <6>1, <6>2 DEF Waiting
        <5> QED
          BY <5>1, <5>2
      <4> QED
        BY <1>1, <2>1, <3>3, <4>2 DEF InStep
    <3> QED
      BY <3>2, <3>3 DEF Inside
  <2> QED
    BY <1>1, <2>2, <2>3 DEF Alone
<1> QED
    BY <1>2, <1>3 DEF HangUp, Garble, StopRedis, StartRedis, Expire

LEMMA AloneStep ==
    ASSUME TypeOK, Shape, Gate, Alone, [Next]_vars
    PROVE  Alone'
<1>1. CASE Dies
  <2>1. Silent' /\ Inside' = {}
    BY <1>1 DEF Dies, Silent, Inside
  <2>2. \A u \in Threads : told'[u] = None
    BY <1>1 DEF Dies, Nobody
  <2> QED
    BY <2>1, <2>2 DEF Alone
<1>2. ASSUME NEW t \in Threads, Tear(t) \/ Send(t)
      PROVE  Alone'
    BY <1>2, SendsAlone DEF Tear, Send
<1>3. CASE UNCHANGED vars
    BY <1>3 DEF vars, threadVars, wireVars, historyVars, Alone, InStep, Waiting, Silent, Part, Inside
<1> QED
    BY <1>1, <1>2, <1>3, OutsideAlone, EnteringAlone, FailsAlone, AwaitAlone, RecvAlone,
       TakeReplyAlone, RaceAlone, ExecuteAlone, LinkAlone
       DEF Next, Step, ParseThrows, ReplyKills, SendKills
-----------------------------------------------------------------------------
(* What a thread that leaves answers.                                      *)
LEMMA LeavesWith ==
    ASSUME TypeOK, Shape, Alone, NEW t \in Threads, NEW a, Leaves(t, a),
           Connect(t) \/ SendFails(t) \/ RecvFails(t) \/ TakeReply(t)
    PROVE  /\ answer[t] = None /\ job[t] \in Requests /\ a \in Answers
           /\ ~mixed => \/ a = Failed
                        \/ told[t] \in Replies /\ a = AnswerOf(job[t], told[t])
<1>1. stage[t] \in {"connect", "send", "rest", "find", "recv"}
    BY DEF Connect, SendFails, RecvFails, TakeReply, At
<1>2. answer[t] = None /\ job[t] \in Requests
    BY <1>1 DEF Shape
<1>3. answer'[t] = a
    BY TypeParts DEF Leaves, ThreadsOK
<1>4. Failed \in Answers
    BY DEF Failed, Answers
<1>5. CASE Throws(t)
  <2>1. answer' = [answer EXCEPT ![t] = Failed]
    BY <1>5 DEF Throws, Leaves
  <2>2. answer'[t] = Failed
    BY <2>1, TypeParts DEF ThreadsOK
  <2> QED
    BY <1>2, <1>3, <1>4, <2>2
<1>6. CASE TakeReply(t) /\ ~Throws(t)
  <2>1. stage'[t] = "reply"
    BY TypeParts DEF Leaves, GoTo, ThreadsOK
  <2>2. cmd[t] # Auth /\ Leaves(t, AnswerOf(job[t], Head(buffer)))
    <3>1. ~Enters(t, job[t])
      BY <2>1, TypeParts DEF Enters, GoTo, ThreadsOK
    <3> QED
      BY <1>6, <3>1 DEF TakeReply
  <2>3. a = AnswerOf(job[t], Head(buffer))
    BY <1>3, <2>2, TypeParts DEF Leaves, ThreadsOK
  <2>4. Head(buffer) \in Replies
    BY <1>6, TypeParts DEF TakeReply, WireOK
  <2> QED
    BY <1>2, <1>6, <2>2, <2>3, <2>4, ReplyIsOwn, AnswerTyped
<1>7. CASE Connect(t) /\ ~Throws(t)
    BY <1>7, TypeParts DEF Connect, Enters, Leaves, GoTo, ThreadsOK
<1> QED
    BY <1>2, <1>5, <1>6, <1>7 DEF SendFails, RecvFails

LEMMA AnswersStep ==
    ASSUME TypeOK, Shape, Alone, AnswersOwnCommand, [Next]_vars
    PROVE  AnswersOwnCommand'
<1> DEFINE Told == UNCHANGED <<mixed, answer, told>>
           Own(t) == answer[t] # None /\ answer[t].status = "ok" =>
                         told[t] # None /\ answer[t] = AnswerOf(job[t], told[t])
<1>a. ThreadsOK /\ RedisOK
    BY TypeParts
<1>b. ASSUME ~mixed, NEW t \in Threads
      PROVE  Own(t)
    BY <1>b DEF AnswersOwnCommand
<1>c. CASE Told /\ UNCHANGED job
    BY <1>c DEF AnswersOwnCommand
<1>1. CASE Dies
    BY <1>1 DEF Dies, Nobody, AnswersOwnCommand
<1>2. ASSUME NEW t \in Threads, NEW r \in Requests, Accept(t, r)
      PROVE  AnswersOwnCommand'
  <2>1. answer[t] = None /\ Told /\ \A u \in Threads \ {t} : job'[u] = job[u]
    BY <1>a, <1>2 DEF Accept, At, Shape, historyVars, ThreadsOK
  <2> QED
    BY <1>b, <2>1 DEF AnswersOwnCommand
<1>3. ASSUME NEW t \in Threads, NEW a, Leaves(t, a),
             Connect(t) \/ SendFails(t) \/ RecvFails(t) \/ TakeReply(t)
      PROVE  AnswersOwnCommand'
  <2>1. UNCHANGED <<mixed, told, job>> /\ answer'[t] = a
        /\ \A u \in Threads \ {t} : answer'[u] = answer[u]
    BY <1>a, <1>3 DEF Leaves, historyVars, ThreadsOK
  <2>2. ~mixed => \/ a = Failed
                  \/ told[t] \in Replies /\ a = AnswerOf(job[t], told[t])
    BY <1>3, LeavesWith
  <2>3. Failed.status = "failed" /\ None \notin Replies
    BY ShareAssumption DEF Failed
  <2>4. ~mixed => Own(t)'
    BY <2>1, <2>2, <2>3
  <2> QED
    BY <1>b, <2>1, <2>4 DEF AnswersOwnCommand
<1>4. ASSUME NEW t \in Threads, NEW c, Enters(t, c)
      PROVE  AnswersOwnCommand'
  <2>1. UNCHANGED <<answer, told, job>> /\ (mixed => mixed')
    BY <1>a, <1>4 DEF Enters, ThreadsOK
  <2> QED
    BY <2>1 DEF AnswersOwnCommand
<1>5. ASSUME NEW t \in Threads, Reply(t)
      PROVE  AnswersOwnCommand'
  <2>1. answer'[t] = None /\ UNCHANGED mixed
        /\ \A u \in Threads \ {t} : answer'[u] = answer[u] /\ told'[u] = told[u] /\ job'[u] = job[u]
    BY <1>a, <1>5 DEF Reply, ThreadsOK, RedisOK
  <2> QED
    BY <1>b, <2>1 DEF AnswersOwnCommand
<1>6. CASE Execute
  <2>1. UNCHANGED <<mixed, answer, job>>
    BY <1>6 DEF Execute, threadVars
  <2>2. CASE ~mixed
    <3>1. PICK t : t = tx[1].by
      OBVIOUS
    <3>2. t \in Inside
      BY <1>6, <2>2, <3>1, RunsOwn
    <3>3. answer[t] = None
      BY <3>2 DEF Inside, Shape
    <3>4. \A u \in Threads \ {t} : told'[u] = told[u]
      BY <1>a, <1>6, <3>1 DEF Execute, RedisOK
    <3> QED
      BY <1>b, <2>1, <2>2, <3>3, <3>4 DEF AnswersOwnCommand
  <2> QED
    BY <2>1, <2>2 DEF AnswersOwnCommand
<1>7. ASSUME NEW t \in Threads,
             EnterOnce(t) \/ Await(t) \/ Recv(t) \/ Send(t) \/ Tear(t) \/ (Race(t) /\ ~Dies)
      PROVE  Told /\ UNCHANGED job
    BY <1>7 DEF EnterOnce, Await, Recv, Send, Tear, Sends, Race, threadVars, historyVars
<1>8. CASE HangUp \/ Garble \/ StopRedis \/ StartRedis \/ \E k \in Keys : Expire(k)
    BY <1>8, <1>c DEF HangUp, Garble, StopRedis, StartRedis, Expire, threadVars, historyVars
<1>9. CASE UNCHANGED vars
    BY <1>9, <1>c DEF vars, threadVars, historyVars
<1>10. ASSUME NEW t \in Threads,
              Connect(t) \/ PassOnce(t) \/ SendFails(t) \/ RecvFails(t) \/ TakeReply(t)
       PROVE  AnswersOwnCommand'
    BY <1>3, <1>4, <1>10 DEF Connect, PassOnce, SendFails, RecvFails, TakeReply, Throws
<1> HIDE DEF Told
<1> QED
    BY <1>c, <1>1, <1>2, <1>5, <1>6, <1>7, <1>8, <1>9, <1>10
       DEF Next, Step, ParseThrows, ReplyKills, SendKills
-----------------------------------------------------------------------------
LEMMA ShareStarts == Init => ShareInv
<1> SUFFICES ASSUME Init PROVE ShareInv
    OBVIOUS
<1>1. EmptyStore \in Stores
    BY DEF EmptyStore, Stores, Absent, Values
<1>2. ThreadsOK /\ WireOK /\ RedisOK
  <2>1. <<>> \in Seq(Replies) /\ <<>> \in Seq(Parts)
    OBVIOUS
  <2>2. WireOK
    BY <2>1 DEF Init, WireOK
  <2>3. ThreadsOK
    BY DEF Init, Nobody, ThreadsOK, Stages
  <2>4. RedisOK
    BY <1>1 DEF Init, Nobody, RedisOK
  <2> QED
    BY <2>2, <2>3, <2>4
<1>3. Inside = {} /\ Busy = {} /\ Silent
    BY DEF Init, Inside, Busy, Silent
<1>4. Shape /\ Gate /\ Alone
    BY <1>3 DEF Init, Nobody, Shape, Gate, Alone
<1> QED
    BY <1>2, <1>4, TypeParts DEF Init, Nobody, ShareInv, AnswersOwnCommand

LEMMA ShareStep == ShareInv /\ [Next]_vars => ShareInv'
    BY TypeStep, ShapeGateStep, AloneStep, AnswersStep DEF ShareInv

THEOREM ShareInvariant == Spec => []ShareInv
    BY ShareStarts, ShareStep, PTL DEF Spec

(* Type correctness of the shared client, its threads and its connection.  *)
THEOREM RedisTypeCorrect == Spec => []TypeOK
<1>1. ShareInv => TypeOK
    BY DEF ShareInv
<1> QED
    BY <1>1, ShareInvariant, PTL

(* As long as no two requests have been inside the client at once, an      *)
(* answer of 200 is what Redis replied to that request's own command.      *)
THEOREM AnswersTruly == Spec => []AnswersOwnCommand
<1>1. ShareInv => AnswersOwnCommand
    BY DEF ShareInv
<1> QED
    BY <1>1, ShareInvariant, PTL

(* call_once lets nobody but the initializing thread touch the client.     *)
THEOREM OneInitializer == Spec => []OnlyTheInitializer
<1>1. ShareInv => OnlyTheInitializer
  <2>1. ASSUME ShareInv, once # "done"
        PROVE  \A t, u \in Busy : t = u
    BY <2>1 DEF ShareInv, Gate, TypeOK
  <2>2. ASSUME TypeOK, NEW t \in Threads, stage[t] \in Stages \ {"idle", "once", "reply"}
        PROVE  t \in Busy
    BY <2>2 DEF Busy, Stages
  <2> QED
    BY <2>1, <2>2 DEF OnlyTheInitializer, ShareInv
<1> QED
    BY <1>1, ShareInvariant, PTL
-----------------------------------------------------------------------------
(* The abstract store is about the same data.                              *)
LEMMA SameData ==
    /\ Atomic!Requests = Requests /\ Atomic!Answers = Answers /\ Atomic!Failed = Failed
    /\ Atomic!EmptyStore = EmptyStore /\ Atomic!Absent = Absent
    /\ \A r, s : /\ Atomic!ReplyTo(r, s) = ReplyTo(r, s)
                 /\ Atomic!StoreAfter(r, s) = StoreAfter(r, s)
    /\ \A r, reply : Atomic!AnswerOf(r, reply) = AnswerOf(r, reply)
<1>1. Atomic!Requests = Requests
    BY DEF Atomic!Requests, Requests
<1>2. Atomic!Answers = Answers /\ Atomic!Failed = Failed
    BY DEF Atomic!Answers, Answers, Atomic!Values, Values, Atomic!Failed, Failed
<1>3. Atomic!EmptyStore = EmptyStore /\ Atomic!Absent = Absent
    BY DEF Atomic!EmptyStore, EmptyStore, Atomic!Absent, Absent
<1>4. ASSUME NEW r, NEW s
      PROVE  /\ Atomic!ReplyTo(r, s) = ReplyTo(r, s)
             /\ Atomic!StoreAfter(r, s) = StoreAfter(r, s)
    BY DEF Atomic!ReplyTo, ReplyTo, Atomic!StoreAfter, StoreAfter, Atomic!Refused, Refused,
           Atomic!Says, Says, Atomic!Missing, Missing, Atomic!Counted, Counted, Atomic!Count, Count,
           Atomic!ToInt, ToInt, Atomic!Absent, Absent
<1>5. ASSUME NEW r, NEW reply
      PROVE  Atomic!AnswerOf(r, reply) = AnswerOf(r, reply)
    BY DEF Atomic!AnswerOf, AnswerOf, Atomic!Ok, Ok, Atomic!Failed, Failed
<1> QED
    BY <1>1, <1>2, <1>3, <1>4, <1>5

(* Every step is one of the atomic store, or none.                         *)
LEMMA StepRefines == ShareInv /\ [Next]_vars => [Atomic!Next]_(Atomic!avars)
<1> SUFFICES ASSUME ShareInv, [Next]_vars
             PROVE  Atomic!Next \/ UNCHANGED Atomic!avars
    OBVIOUS
<1> DEFINE Same == UNCHANGED <<store, job, told, answer, mixed>>
<1> USE DEF Atomic!Next, Atomic!avars
<1>a. TypeOK /\ Shape /\ Gate /\ Alone /\ ThreadsOK /\ RedisOK
    BY TypeParts DEF ShareInv
<1>b. Same => UNCHANGED Atomic!avars
    OBVIOUS
<1>c. Dies => Atomic!Crash
    BY DEF Dies, Nobody, redisVars, Atomic!Crash
<1>1. ASSUME NEW t \in Threads, NEW r \in Requests, Accept(t, r)
      PROVE  Atomic!Begin(t, r)
    BY <1>1, <1>a DEF Accept, At, Shape, redisVars, historyVars, Atomic!Begin
<1>2. ASSUME NEW t \in Threads, NEW a, Leaves(t, a), UNCHANGED store,
             Connect(t) \/ SendFails(t) \/ RecvFails(t) \/ TakeReply(t)
      PROVE  Atomic!Decide(t) \/ mixed'
  <2>1. UNCHANGED <<store, job, told, mixed>> /\ answer' = [answer EXCEPT ![t] = a]
    BY <1>2 DEF Leaves, historyVars
  <2>2. /\ answer[t] = None /\ job[t] # None /\ a \in Answers
        /\ ~mixed => a = Failed \/ (told[t] # None /\ a = AnswerOf(job[t], told[t]))
    BY <1>2, <1>a, LeavesWith, ShareAssumption
  <2> QED
    BY <2>1, <2>2, SameData DEF Atomic!Decide
<1>3. ASSUME NEW t \in Threads, NEW c, Enters(t, c), UNCHANGED store
      PROVE  Same \/ mixed'
  <2>1. mixed' \/ mixed' = mixed
    BY <1>3, <1>a DEF Enters, ThreadsOK
  <2> QED
    BY <1>3, <2>1 DEF Enters
<1>4. ASSUME NEW t \in Threads,
             Connect(t) \/ PassOnce(t) \/ SendFails(t) \/ RecvFails(t) \/ TakeReply(t)
      PROVE  Same \/ Atomic!Decide(t) \/ mixed'
    BY <1>2, <1>3, <1>4
       DEF Connect, PassOnce, SendFails, RecvFails, TakeReply, Throws, redisVars
<1>5. ASSUME NEW t \in Threads, Reply(t)
      PROVE  Atomic!End(t)
    BY <1>5, <1>a DEF Reply, At, Shape, redisVars, Atomic!End
<1>6. ASSUME NEW t \in Threads,
             EnterOnce(t) \/ Await(t) \/ Recv(t) \/ Send(t) \/ Tear(t) \/ (Race(t) /\ ~Dies)
      PROVE  Same
    BY <1>6 DEF EnterOnce, Await, Recv, Send, Tear, Sends, Race, threadVars, redisVars, historyVars
<1>7. CASE Execute
  <2>1. UNCHANGED <<mixed, answer, job>>
    BY <1>7 DEF Execute, threadVars
  <2>2. CASE mixed
    BY <2>1, <2>2
  <2>3. CASE ~mixed
    <3>1. PICK t : t = tx[1].by
      OBVIOUS
    <3>2. /\ t \in Inside /\ t \in Threads /\ stage[t] \in {"find", "recv"}
          /\ tx[1].cmd = cmd[t] /\ told[t] = None
      BY <1>7, <1>a, <2>3, <3>1, RunsOwn DEF Inside
    <3>3. job[t] \in Requests /\ answer[t] = None
      BY <1>a, <3>2 DEF Shape
    <3>4. CASE cmd[t] = Auth
      BY <1>7, <2>1, <3>1, <3>2, <3>4 DEF Execute
    <3>5. CASE cmd[t] # Auth
      <4>1. t \in Busy /\ stage[t] # "connect"
        BY <3>2 DEF Busy
      <4>2. cmd[t] = job[t]
        BY <1>a, <3>5, <4>1 DEF Gate, ThreadsOK
      <4>3. /\ told' = [told EXCEPT ![t] = ReplyTo(job[t], store)]
            /\ store' = StoreAfter(job[t], store)
        BY <1>7, <3>1, <3>2, <3>5, <4>2 DEF Execute
      <4>4. Atomic!Run(t)
        BY <2>1, <3>2, <3>3, <4>3, SameData, ShareAssumption DEF Atomic!Run
      <4> QED
        BY <3>2, <4>4
    <3> QED
      BY <3>4, <3>5
  <2> QED
    BY <2>2, <2>3
<1>8. CASE HangUp \/ StartRedis \/ UNCHANGED vars
    BY <1>8 DEF HangUp, StartRedis, vars, threadVars, redisVars, historyVars
<1>9. CASE StopRedis \/ \E k \in Keys : Expire(k)
  <2>1. UNCHANGED <<job, told, answer, mixed>>
    BY <1>9 DEF StopRedis, Expire, threadVars, historyVars
  <2>2. \/ store' = store \/ store' = EmptyStore
        \/ \E k \in Keys : store[k].expires /\ store' = [store EXCEPT ![k] = Absent]
    BY <1>9 DEF StopRedis, Expire
  <2> QED
    BY <2>1, <2>2, SameData DEF Atomic!Forget
<1>10. CASE Garble
  <2>1. tx # <<>> /\ ~Arrived /\ Whole <= Len(tx) /\ mixed' = mixed
    BY <1>10 DEF Garble, historyVars
  <2>2. mixed
    BY <1>a, <2>1, AloneArrives
  <2> QED
    BY <2>1, <2>2
<1> HIDE DEF Same
<1> QED
    BY <1>b, <1>c, <1>1, <1>4, <1>5, <1>6, <1>7, <1>8, <1>9, <1>10, SameData
       DEF Next, Step, ParseThrows, ReplyKills, SendKills

(* Until requests mix, the service is an atomic store: each request runs   *)
(* once or not at all, and is told so or that it failed.                   *)
THEOREM RedisLooksAtomic == Spec => ImplementsAtomicRedis
<1>1. Init => Atomic!Init
    BY SameData DEF Init, Atomic!Init, Nobody
<1> QED
    BY <1>1, StepRefines, ShareInvariant, PTL DEF Spec, ImplementsAtomicRedis, Atomic!Spec
=============================================================================

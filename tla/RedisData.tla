------------------------------ MODULE RedisData -----------------------------
(***************************************************************************)
(* The requests of cpp-microservice/redis_microservice that reach Redis,   *)
(* what Redis (external) does with the command each of them becomes, and   *)
(* what the routes make of its reply.  A request is named after its route; *)
(* requests answered before ensure_redis (/ping, 400, 404, 413) reach      *)
(* nothing and are not in the set.                                         *)
(*                                                                         *)
(* Left out: incr with a step other than 1, its default, and values that   *)
(* are digits, which Redis could count with.                               *)
(***************************************************************************)
EXTENDS Integers

CONSTANTS
    Keys,
    Texts,     \* values a client sets
    Ttls,      \* the ttl of a set; 0 stands for none given
    IntBits,   \* bits of an int, which a ttl is cast to
    MaxCount,  \* the largest number Redis counts to
    Okay,      \* the text of a simple string
    None

ASSUME DataAssumption ==
    /\ Ttls \subseteq Nat
    /\ IntBits \in Nat \ {0}
    /\ MaxCount \in Nat \ {0}
    /\ Texts \cap Int = {}
    /\ None \notin Texts \cup Int

Requests ==
    [op : {"get", "del", "exists", "incr"}, key : Keys]
      \cup [op : {"set"}, key : Keys, text : Texts, ttl : Ttls]

Values == Texts \cup (1 .. MaxCount) \cup {None}

(* Redis: a value for every key, and whether it will expire.               *)
Stores == [Keys -> [value : Values, expires : BOOLEAN]]

Absent == [value |-> None, expires |-> FALSE]

EmptyStore == [k \in Keys |-> Absent]

(* static_cast<int> of a long long.                                        *)
ToInt(n) ==
    LET m == 2 ^ IntBits
        low == n % m
    IN  IF 2 * low < m THEN low ELSE low - m

(* The replies of RESP: +OK, -ERR, :n, $n and $-1.                         *)
Replies ==
    [type : {"error", "null"}, value : {None}] \cup [type : {"simple"}, value : {Okay}]
      \cup [type : {"integer"}, value : 0 .. MaxCount]
      \cup [type : {"bulk"}, value : Texts \cup (1 .. MaxCount)]

Says(t, v) == [type |-> t, value |-> v]

Missing(r, s) == s[r.key].value = None

(* SETEX wants a positive ttl, INCRBY a number below the limit.            *)
Refused(r, s) ==
    \/ r.op = "set" /\ r.ttl > 0 /\ ToInt(r.ttl) <= 0
    \/ r.op = "incr" /\ s[r.key].value \in Texts \cup {MaxCount}

Counted(r, s) == IF Missing(r, s) THEN 1 ELSE s[r.key].value + 1

Count(r, s) == IF Missing(r, s) THEN 0 ELSE 1

ReplyTo(r, s) ==
    IF Refused(r, s) THEN Says("error", None)
    ELSE IF r.op = "set" THEN Says("simple", Okay)
    ELSE IF r.op = "incr" THEN Says("integer", Counted(r, s))
    ELSE IF r.op \in {"del", "exists"} THEN Says("integer", Count(r, s))
    ELSE IF Missing(r, s) THEN Says("null", None)
    ELSE Says("bulk", s[r.key].value)

StoreAfter(r, s) ==
    IF Refused(r, s) THEN s
    ELSE IF r.op = "set"
         THEN [s EXCEPT ![r.key] = [value |-> r.text, expires |-> r.ttl > 0]]
    ELSE IF r.op = "incr" THEN [s EXCEPT ![r.key].value = Counted(r, s)]
    ELSE IF r.op = "del" THEN [s EXCEPT ![r.key] = Absent]
    ELSE s

(* 200 with what the body says, or 500.                                    *)
Answers == [status : {"ok"}, value : Values \cup {0, Okay}] \cup [status : {"failed"}, value : {None}]

Failed == [status |-> "failed", value |-> None]

Ok(v) == [status |-> "ok", value |-> v]

(* Mutant of AnswerOf: an error reply is answered as the number -1.        *)
AnswerOfMinusOne(r, reply) ==
    IF reply.type = "error" THEN Ok(-1)
    ELSE IF r.op = "get" THEN Ok(reply.value)
    ELSE IF reply.type = "integer" THEN Ok(reply.value) ELSE Ok(1)

(* What RedisClient::get, set, setex, del, exists and incrby, and the      *)
(* routes over them, answer when they are given reply.                     *)
AnswerOf(r, reply) ==
    IF reply.type = "error" THEN Failed
    ELSE IF r.op = "get"
         THEN Ok(IF reply.type = "integer" THEN None ELSE reply.value)
    ELSE IF r.op = "set"
         THEN Ok(IF reply.type = "simple" \/ (reply.type = "bulk" /\ r.ttl = 0)
                 THEN 1 ELSE 0)
    ELSE IF reply.type # "integer" THEN Failed
    ELSE Ok(IF r.op = "exists" /\ reply.value > 0 THEN 1 ELSE reply.value)
=============================================================================

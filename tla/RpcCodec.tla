------------------------------ MODULE RpcCodec ------------------------------
(***************************************************************************)
(* The encodings of RPC/src/protocol.cpp and RPC/src/frame.cpp: values,    *)
(* request and response payloads, and the frame around them.               *)
(*                                                                         *)
(* A byte has Base values (256 in the code); every field has the number of *)
(* bytes it has in the code, and integers wrap accordingly.  What throws   *)
(* in the code is the empty set here, what returns v is {v}.               *)
(***************************************************************************)
EXTENDS Integers, SequencesExt

CONSTANTS Base, Magic, Version

ASSUME CodecAssumption ==
    /\ Base \in Nat /\ Base > 2
    /\ Magic \in [1 .. 4 -> 0 .. Base - 1]
    /\ Version \in 0 .. Base - 1

Byte == 0 .. Base - 1

INT == 1
STR == 2
REQUEST == 1
RESPONSE == 2

Throws == {}
-----------------------------------------------------------------------------
(* How many numbers two, four and eight bytes hold.                        *)
Base2 == Base * Base
Base4 == Base2 * Base2
Base8 == Base4 * Base4

(* put_u16_be, put_u32_be, put_i64_be: what is above the field's bytes is  *)
(* cut off; a negative v is put as its complement.                         *)
PutU16(v) == <<(v \div Base) % Base, v % Base>>
PutU32(v) == PutU16(v \div Base2) \o PutU16(v)
PutI64(v) == PutU32(v \div Base4) \o PutU32(v)

(* get_u16_be, get_u32_be, get_i64_be of the bytes of b from at on.        *)
GetU16(b, at) == b[at] * Base + b[at + 1]
GetU32(b, at) == GetU16(b, at) * Base2 + GetU16(b, at + 2)
GetU64(b, at) == GetU32(b, at) * Base4 + GetU32(b, at + 4)

Signed(u) == IF u < Base8 \div 2 THEN u ELSE u - Base8

(* Mutant of GetI64: the cast to int64_t is forgotten.                     *)
GetUnsigned(b, at) == GetU64(b, at)

GetI64(b, at) == Signed(GetU64(b, at))

Skip(b, n) == SubSeq(b, n + 1, Len(b))
-----------------------------------------------------------------------------
MakeInt(n) == [type |-> INT, i64 |-> n, str |-> <<>>]

MakeStr(s) == [type |-> STR, i64 |-> 0, str |-> s]

(* The values and messages of the code: every field within its type.  A    *)
(* response has an error text only with an error status, and no other      *)
(* result than a default one when it has none.                             *)
Int64 == (Base8 \div 2) - Base8 .. (Base8 \div 2) - 1

Value ==
    [type : {INT}, i64 : Int64, str : {<<>>}] \cup [type : {STR}, i64 : {0}, str : Seq(Byte)]

Requests ==
    [type : {REQUEST}, req_id : 0 .. Base4 - 1, method : Seq(Byte), args : Seq(Value)]

Responses ==
    {r \in [type : {RESPONSE}, req_id : 0 .. Base4 - 1, status : 0 .. Base2 - 1,
            err_msg : Seq(Byte), has_result : BOOLEAN, result : Value] :
        /\ r.status = 0 => r.err_msg = <<>>
        /\ ~r.has_result => r.result = MakeInt(0)}

EncodeValue(v) ==
    <<v.type>> \o (IF v.type = INT THEN PutI64(v.i64) ELSE PutU32(Len(v.str)) \o v.str)

(* The first value of p, and the number of bytes it takes.                 *)
DecodeValue(p) ==
    CASE Len(p) >= 9 /\ p[1] = INT ->
           {[val |-> MakeInt(GetI64(p, 2)), used |-> 9]}
      [] Len(p) >= 5 /\ p[1] = STR /\ Len(p) >= 5 + GetU32(p, 2) ->
           LET used == 5 + GetU32(p, 2)
           IN  {[val |-> MakeStr(SubSeq(p, 6, used)), used |-> used]}
      [] OTHER -> Throws
-----------------------------------------------------------------------------
(* The values one after the other: encoded[n] is the first n of them.      *)
EncodeArgs(args) ==
    LET encoded[n \in 0 .. Len(args)] ==
          IF n = 0 THEN <<>> ELSE encoded[n - 1] \o EncodeValue(args[n])
    IN  encoded[Len(args)]

EncodeRequest(r) == PutU32(Len(r.args)) \o EncodeArgs(r.args)

(* One round of the loop over argc values, after f has been decoded.       *)
DecodeNext(f) ==
    {[args |-> Append(f.args, d.val), rest |-> Skip(f.rest, d.used)] :
        d \in DecodeValue(f.rest)}

(* decoded[n]: the first n values, and what remains of p.                  *)
DecodeArgs(argc, p) ==
    LET decoded[n \in 0 .. argc] ==
          IF n = 0 THEN {[args |-> <<>>, rest |-> p]}
          ELSE UNION {DecodeNext(f) : f \in decoded[n - 1]}
    IN  decoded[argc]

(* Mutant of ParseRequest: bytes after the last argument are ignored.      *)
ParseRequestLoosely(f) ==
    IF Len(f.payload) < 4 THEN Throws
    ELSE {[type |-> REQUEST, req_id |-> f.req_id, method |-> f.method, args |-> a.args] :
             a \in DecodeArgs(GetU32(f.payload, 1), Skip(f.payload, 4))}

ParseRequest(f) ==
    IF Len(f.payload) < 4 THEN Throws
    ELSE {[type |-> REQUEST, req_id |-> f.req_id, method |-> f.method, args |-> a.args] :
             a \in {d \in DecodeArgs(GetU32(f.payload, 1), Skip(f.payload, 4)) :
                       d.rest = <<>>}}

(* An error text is sent only with an error status.                        *)
EncodeResponse(r) ==
    PutU16(r.status)
      \o (IF r.status # 0 THEN PutU32(Len(r.err_msg)) \o r.err_msg ELSE PutU32(0))
      \o (IF r.has_result THEN <<1>> \o EncodeValue(r.result) ELSE <<0>>)

(* The part of a response after the error text: has_result and the result. *)
DecodeResult(p) ==
    CASE p = <<0>> -> {[has |-> FALSE, val |-> MakeInt(0)]}
      [] Len(p) > 1 /\ p[1] # 0 ->
           {[has |-> TRUE, val |-> d.val] :
               d \in {v \in DecodeValue(Tail(p)) : v.used = Len(p) - 1}}
      [] OTHER -> Throws

(* When the error text takes all the payload has left, has_result is read  *)
(* behind its end, and the count of the bytes left wraps around: whatever  *)
(* is read there, if it can be read, the test for extra bytes throws.      *)
ParseResponse(f) ==
    LET pl == f.payload
        len == GetU32(pl, 3)
    IN  IF Len(pl) < 7 \/ Len(pl) < 6 + len THEN Throws
        ELSE {[type |-> RESPONSE, req_id |-> f.req_id, status |-> GetU16(pl, 1),
               err_msg |-> SubSeq(pl, 7, 6 + len),
               has_result |-> r.has, result |-> r.val] : r \in DecodeResult(Skip(pl, 6 + len))}
-----------------------------------------------------------------------------
Body(type, id, method, payload) ==
    Magic \o <<Version, type>> \o PutU32(id) \o PutU32(Len(method))
      \o PutU32(Len(payload)) \o method \o payload

Frame(type, id, method, payload) ==
    PutU32(Len(Body(type, id, method, payload))) \o Body(type, id, method, payload)

(* build_request_frame and build_response_frame                            *)
Build(m) ==
    IF m.type = REQUEST THEN Frame(REQUEST, m.req_id, m.method, EncodeRequest(m))
    ELSE Frame(RESPONSE, m.req_id, <<>>, EncodeResponse(m))

HeaderLen == 18

ParseBody(b) ==
    IF \/ Len(b) < HeaderLen
       \/ SubSeq(b, 1, 5) # Append(Magic, Version)
       \/ HeaderLen + GetU32(b, 11) + GetU32(b, 15) # Len(b)
    THEN Throws
    ELSE {[type |-> b[6], req_id |-> GetU32(b, 7),
           method |-> SubSeq(b, HeaderLen + 1, HeaderLen + GetU32(b, 11)),
           payload |-> Skip(b, HeaderLen + GetU32(b, 11))]}

(* What the receiver makes of a frame: the server parses requests, the     *)
(* client responses; both pass over frames of other types.                 *)
Parse(f) ==
    CASE f.type = REQUEST -> ParseRequest(f)
      [] f.type = RESPONSE -> ParseResponse(f)
      [] OTHER -> Throws
=============================================================================

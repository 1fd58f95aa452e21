--------------------------- MODULE RpcWire_proof ----------------------------
(***************************************************************************)
(* Proofs about the bytes of RPC connections, for every base, magic and    *)
(* version, every set of messages and every number of frames.              *)
(*                                                                         *)
(* First the codec: numbers, values, arguments, payloads and frames are    *)
(* decoded from what they are encoded to, and (requests) only from that.   *)
(* Then the wire: the bytes read, on their way and unwritten are the rest  *)
(* of one stream, which the frames sent cut into pieces.                   *)
(* Last, each step of the wire is one of FrameChannel or changes nothing   *)
(* there.                                                                  *)
(*                                                                         *)
(* What the loops over arguments and frames compute is shown by induction  *)
(* in the form of NatSetInduction: a set of numbers that has 0, and with   *)
(* each number the next one, has them all.                                 *)
(***************************************************************************)
EXTENDS RpcWire, SequenceTheorems, WellFoundedInduction, TLAPS

-----------------------------------------------------------------------------
(* Numbers: a remainder and a quotient determine each other.               *)

LEMMA DivMod ==
    ASSUME NEW m \in Nat, m > 0, NEW v \in Int
    PROVE  /\ v = m * (v \div m) + (v % m)
           /\ v % m \in 0 .. m - 1
           /\ v \div m \in Int
  OBVIOUS

LEMMA DivModUnique ==
    ASSUME NEW m \in Nat, m > 0, NEW q \in Int, NEW r \in 0 .. m - 1
    PROVE  (m * q + r) % m = r /\ (m * q + r) \div m = q
  OBVIOUS

(* Two digits: the lower one counts to m, the upper one to n.              *)
LEMMA TwoDigits ==
    ASSUME NEW m \in Nat, m > 0, NEW n \in Nat, n > 0, NEW v \in Int, NEW w, w = m * n
    PROVE  ((v \div m) % n) * m + (v % m) = v % w
<1> DEFINE q == v \div m
           r == v % m
           h == q % n
           p == q \div n
<1>1. v = m * q + r /\ r \in 0 .. m - 1 /\ q \in Int
  BY DivMod
<1>2. q = n * p + h /\ h \in 0 .. n - 1 /\ p \in Int
  BY <1>1, DivMod
<1>3. m * n \in Nat /\ m * n > 0
  OBVIOUS
<1>4. h * m + r \in 0 .. m * n - 1
  <2> HIDE DEF h, r, q, p
  <2>1. h * m \in Nat /\ h * m <= (n - 1) * m
    BY <1>2
  <2>2. (n - 1) * m = m * n - m
    OBVIOUS
  <2> QED BY <2>1, <2>2, <1>1, <1>3
<1>5. v = (m * n) * p + (h * m + r)
  <2> HIDE DEF h, r, q, p
  <2>1. m * q = (m * n) * p + h * m
    BY <1>2
  <2> QED BY <2>1, <1>1, <1>2, <1>3, <1>4
<1>6. v % (m * n) = h * m + r
  <2> HIDE DEF h, r, q, p
  <2> QED BY <1>2, <1>3, <1>4, <1>5, DivModUnique
<1> QED BY <1>6

LEMMA SmallMod ==
    ASSUME NEW m \in Nat, NEW n \in 0 .. m - 1
    PROVE  n % m = n
<1>1. n = m * 0 + n /\ m > 0
  OBVIOUS
<1> QED BY <1>1, DivModUnique

LEMMA Digits ==
    ASSUME NEW m \in Nat, m > 0, NEW n \in Nat, n > 0,
           NEW h \in 0 .. n - 1, NEW r \in 0 .. m - 1
    PROVE  /\ h * m + r \in 0 .. m * n - 1
           /\ (h * m + r) \div m = h
           /\ (h * m + r) % m = r
<1>1. h * m \in Nat /\ h * m <= (n - 1) * m
  OBVIOUS
<1>2. (n - 1) * m = m * n - m /\ m * n \in Nat
  OBVIOUS
<1>3. h * m + r = m * h + r
  OBVIOUS
<1> QED BY <1>1, <1>2, <1>3, DivModUnique

LEMMA Bases ==
    /\ Base \in Nat /\ Base > 0 /\ Base > 2
    /\ Base2 \in Nat /\ Base2 > 0
    /\ Base4 \in Nat /\ Base4 > 0
    /\ Base8 \in Nat /\ Base8 > 0
<1>1. Base \in Nat /\ Base > 2
  BY CodecAssumption
<1>2. Base2 \in Nat /\ Base2 > 2
  BY <1>1 DEF Base2
<1>3. Base4 \in Nat /\ Base4 > 2
  BY <1>2 DEF Base4
<1>4. Base8 \in Nat /\ Base8 > 2
  BY <1>3 DEF Base8
<1> QED BY <1>1, <1>2, <1>3, <1>4

LEMMA Base2Is == Base2 = Base * Base
  BY DEF Base2

LEMMA Base4Is == Base4 = Base2 * Base2
  BY DEF Base4

LEMMA Base8Is == Base8 = Base4 * Base4
  BY DEF Base8
-----------------------------------------------------------------------------
(* The bytes s stand in b from at on.                                      *)
At(b, at, s) == \A i \in 1 .. Len(s) : b[at + i - 1] = s[i]

LEMMA AtCat ==
    ASSUME NEW S, NEW s \in Seq(S), NEW t \in Seq(S), NEW b, NEW at \in Nat
    PROVE  At(b, at, s \o t) <=> At(b, at, s) /\ At(b, at + Len(s), t)
<1> DEFINE st == s \o t
<1>1. /\ Len(s) \in Nat /\ Len(t) \in Nat /\ Len(st) = Len(s) + Len(t)
      /\ \A i \in 1 .. Len(s) + Len(t) : st[i] = IF i <= Len(s) THEN s[i] ELSE t[i - Len(s)]
  BY ConcatProperties, LenProperties
<1> HIDE DEF st
<1>2. ASSUME At(b, at, st) PROVE At(b, at, s)
  <2> SUFFICES ASSUME NEW i \in 1 .. Len(s) PROVE b[at + i - 1] = s[i]
    BY DEF At
  <2> QED BY <1>1, <1>2 DEF At
<1>3. ASSUME At(b, at, st) PROVE At(b, at + Len(s), t)
  <2> SUFFICES ASSUME NEW i \in 1 .. Len(t) PROVE b[at + Len(s) + i - 1] = t[i]
    BY DEF At
  <2>1. /\ Len(s) + i \in 1 .. Len(st)
        /\ st[Len(s) + i] = t[i]
        /\ at + (Len(s) + i) - 1 = at + Len(s) + i - 1
    BY <1>1
  <2> QED BY <2>1, <1>3 DEF At
<1>4. ASSUME At(b, at, s), At(b, at + Len(s), t) PROVE At(b, at, st)
  <2> SUFFICES ASSUME NEW i \in 1 .. Len(st) PROVE b[at + i - 1] = st[i]
    BY DEF At
  <2>1. CASE i <= Len(s)
    BY <2>1, <1>1, <1>4 DEF At
  <2>2. CASE i > Len(s)
    <3>1. /\ i - Len(s) \in 1 .. Len(t)
          /\ (at + Len(s)) + (i - Len(s)) - 1 = at + i - 1
          /\ st[i] = t[i - Len(s)]
      BY <1>1, <2>2
    <3>2. b[(at + Len(s)) + (i - Len(s)) - 1] = t[i - Len(s)]
      BY <3>1, <1>4 DEF At
    <3> QED BY <3>1, <3>2
  <2> QED BY <2>1, <2>2, <1>1
<1> QED BY <1>2, <1>3, <1>4 DEF st

LEMMA AtWhole ==
    ASSUME NEW S, NEW b \in Seq(S), NEW s \in Seq(S), Len(b) = Len(s)
    PROVE  At(b, 1, s) <=> b = s
<1>1. \A i \in 1 .. Len(s) : 1 + i - 1 = i
  BY LenProperties
<1> QED BY <1>1, SeqEqual DEF At

LEMMA AtSubSeq ==
    ASSUME NEW S, NEW b \in Seq(S), NEW s \in Seq(S), NEW at \in Nat \ {0},
           at + Len(s) - 1 <= Len(b)
    PROVE  At(b, at, s) <=> SubSeq(b, at, at + Len(s) - 1) = s
<1> DEFINE u == SubSeq(b, at, at + Len(s) - 1)
<1>1. Len(s) \in Nat /\ at + Len(s) - 1 \in Int /\ Len(b) \in Nat
  BY LenProperties
<1>2. \A i \in at .. at + Len(s) - 1 : b[i] \in S
  BY <1>1, ElementOfSeq
<1>3. /\ u \in Seq(S) /\ Len(u) = Len(s)
      /\ \A i \in 1 .. Len(s) : u[i] = b[at + i - 1]
  <2> HIDE DEF u
  <2>1. /\ u \in Seq(S)
        /\ Len(u) = IF at <= at + Len(s) - 1 THEN at + Len(s) - 1 - at + 1 ELSE 0
        /\ \A i \in 1 .. at + Len(s) - 1 - at + 1 : u[i] = b[at + i - 1]
    BY <1>1, <1>2, SubSeqProperties DEF u
  <2>2. at + Len(s) - 1 - at + 1 = Len(s)
    BY <1>1
  <2> QED BY <2>1, <2>2, <1>1
<1> HIDE DEF u
<1>4. At(b, at, s) <=> u = s
  BY <1>3, SeqEqual DEF At
<1> QED BY <1>4 DEF u
-----------------------------------------------------------------------------
(* Numbers as bytes.                                                       *)

LEMMA PutU16Bytes ==
    ASSUME NEW v \in Int
    PROVE  PutU16(v) \in Seq(Byte) /\ Len(PutU16(v)) = 2
<1>1. (v \div Base) % Base \in Byte /\ v % Base \in Byte
  BY Bases, DivMod DEF Byte
<1> QED BY <1>1 DEF PutU16

LEMMA PutU32Bytes ==
    ASSUME NEW v \in Int
    PROVE  PutU32(v) \in Seq(Byte) /\ Len(PutU32(v)) = 4
<1>1. v \div Base2 \in Int
  BY Bases, DivMod
<1>2. /\ PutU16(v \div Base2) \in Seq(Byte) /\ Len(PutU16(v \div Base2)) = 2
      /\ PutU16(v) \in Seq(Byte) /\ Len(PutU16(v)) = 2
  BY <1>1, PutU16Bytes
<1>3. ASSUME NEW s \in Seq(Byte), NEW t \in Seq(Byte), Len(s) = 2, Len(t) = 2
      PROVE  s \o t \in Seq(Byte) /\ Len(s \o t) = 4
  <2>1. s \o t \in Seq(Byte) /\ Len(s \o t) = Len(s) + Len(t)
    BY ConcatProperties
  <2> QED BY <2>1, <1>3
<1> QED BY <1>2, <1>3 DEF PutU32

LEMMA PutI64Bytes ==
    ASSUME NEW v \in Int
    PROVE  PutI64(v) \in Seq(Byte) /\ Len(PutI64(v)) = 8
<1>1. v \div Base4 \in Int
  BY Bases, DivMod
<1>2. /\ PutU32(v \div Base4) \in Seq(Byte) /\ Len(PutU32(v \div Base4)) = 4
      /\ PutU32(v) \in Seq(Byte) /\ Len(PutU32(v)) = 4
  BY <1>1, PutU32Bytes
<1> QED BY <1>2, ConcatProperties DEF PutI64

(* What does not fit into the bytes is cut off.                            *)
LEMMA PutU16Cut ==
    ASSUME NEW k \in Int, NEW r \in 0 .. Base2 - 1
    PROVE  PutU16(k * Base2 + r) = PutU16(r)
<1> DEFINE v == k * Base2 + r
           c == r \div Base
           d == r % Base
<1>1. /\ r \in Int /\ r = c * Base + d /\ d \in 0 .. Base - 1 /\ c \in Int
  BY Bases, DivMod
<1>2. v = (k * Base + c) * Base + d /\ k * Base + c \in Int
  <2> HIDE DEF c, d
  <2>1. k * Base2 = (k * Base) * Base /\ k * Base \in Int
    BY Bases, Base2Is
  <2>2. (k * Base + c) * Base = (k * Base) * Base + c * Base
    BY <1>1, <2>1, Bases
  <2> QED BY <1>1, <2>1, <2>2, Bases
<1>3. v \div Base = k * Base + c /\ v % Base = d
  <2> HIDE DEF c, d, v
  <2>1. v = Base * (k * Base + c) + d
    BY <1>1, <1>2, Bases
  <2> QED BY <1>1, <1>2, <2>1, Bases, DivModUnique
<1>4. c \in 0 .. Base - 1
  <2> HIDE DEF c, d, v
  <2>1. ~(c >= Base)
    <3> SUFFICES ASSUME c >= Base PROVE FALSE
      OBVIOUS
    <3>1. c * Base >= Base * Base
      BY <1>1, Bases
    <3> QED BY <3>1, <1>1, Bases, Base2Is
  <2>2. ~(c <= -1)
    <3> SUFFICES ASSUME c <= -1 PROVE FALSE
      OBVIOUS
    <3>1. c * Base <= -Base
      BY <1>1, Bases
    <3> QED BY <3>1, <1>1, Bases, Base2Is
  <2> QED BY <2>1, <2>2, <1>1, Bases
<1>5. (k * Base + c) % Base = c /\ c % Base = c
  <2> HIDE DEF c, d, v
  <2>1. k * Base + c = Base * k + c /\ c = Base * 0 + c
    BY <1>4, Bases
  <2> QED BY <1>4, <2>1, Bases, DivModUnique
<1> QED BY <1>3, <1>5 DEF PutU16

LEMMA PutU32Cut ==
    ASSUME NEW k \in Int, NEW r \in 0 .. Base4 - 1
    PROVE  PutU32(k * Base4 + r) = PutU32(r)
<1> DEFINE v == k * Base4 + r
           h == r \div Base2
           l == r % Base2
<1>1. r \in Int /\ r = h * Base2 + l /\ l \in 0 .. Base2 - 1 /\ h \in Int
  BY Bases, DivMod
<1>2. h \in 0 .. Base2 - 1
  <2> HIDE DEF h, l
  <2>1. ~(h >= Base2)
    <3> SUFFICES ASSUME h >= Base2 PROVE FALSE
      OBVIOUS
    <3>1. h * Base2 >= Base2 * Base2
      BY <1>1, Bases
    <3> QED BY <3>1, <1>1, Bases, Base4Is
  <2>2. ~(h <= -1)
    <3> SUFFICES ASSUME h <= -1 PROVE FALSE
      OBVIOUS
    <3>1. h * Base2 <= -Base2
      BY <1>1, Bases
    <3> QED BY <3>1, <1>1, Bases, Base4Is
  <2> QED BY <2>1, <2>2, <1>1, Bases
<1>3. v = (k * Base2 + h) * Base2 + l /\ k * Base2 + h \in Int
  <2> HIDE DEF h, l
  <2>1. k * Base4 = (k * Base2) * Base2 /\ k * Base2 \in Int
    BY Bases, Base4Is
  <2>2. (k * Base2 + h) * Base2 = (k * Base2) * Base2 + h * Base2
    BY <1>1, <2>1, Bases
  <2> QED BY <1>1, <2>1, <2>2, Bases
<1>4. v \div Base2 = k * Base2 + h
  <2> HIDE DEF h, l, v
  <2>1. v = Base2 * (k * Base2 + h) + l
    BY <1>1, <1>3, Bases
  <2> QED BY <1>1, <1>3, <2>1, Bases, DivModUnique
<1>5. PutU16(v) = PutU16(l) /\ PutU16(r) = PutU16(l) /\ PutU16(v \div Base2) = PutU16(h)
  <2> HIDE DEF h, l, v
  <2> QED BY <1>1, <1>2, <1>3, <1>4, PutU16Cut
<1> QED BY <1>5 DEF PutU32

(* Reading what was put gives the value back, as far as the bytes go ...   *)
LEMMA GetPutU16 ==
    ASSUME NEW v \in Int, NEW b, NEW at \in Nat, At(b, at, PutU16(v))
    PROVE  GetU16(b, at) = v % Base2
<1>1. /\ b[at + 1 - 1] = PutU16(v)[1] /\ b[at + 2 - 1] = PutU16(v)[2]
  BY PutU16Bytes DEF At
<1>2. b[at] = (v \div Base) % Base /\ b[at + 1] = v % Base
  <2>1. at + 1 - 1 = at /\ at + 2 - 1 = at + 1
    OBVIOUS
  <2> QED BY <1>1, <2>1 DEF PutU16
<1>3. ((v \div Base) % Base) * Base + (v % Base) = v % Base2
  <2>1. Base \in Nat /\ Base > 0 /\ Base2 = Base * Base
    BY Bases, Base2Is
  <2> QED BY <2>1, TwoDigits
<1> QED BY <1>2, <1>3 DEF GetU16

LEMMA GetPutU32 ==
    ASSUME NEW v \in Int, NEW b, NEW at \in Nat, At(b, at, PutU32(v))
    PROVE  GetU32(b, at) = v % Base4
<1>1. v \div Base2 \in Int
  BY Bases, DivMod
<1>2. At(b, at, PutU16(v \div Base2)) /\ At(b, at + 2, PutU16(v))
  BY <1>1, PutU16Bytes, AtCat DEF PutU32
<1>3. GetU16(b, at) = (v \div Base2) % Base2 /\ GetU16(b, at + 2) = v % Base2
  BY <1>1, <1>2, GetPutU16
<1>4. ((v \div Base2) % Base2) * Base2 + (v % Base2) = v % Base4
  <2>1. Base2 \in Nat /\ Base2 > 0 /\ Base4 = Base2 * Base2
    BY Bases, Base4Is
  <2> QED BY <2>1, TwoDigits
<1> QED BY <1>3, <1>4 DEF GetU32

LEMMA GetPutI64 ==
    ASSUME NEW v \in Int64, NEW b, NEW at \in Nat, At(b, at, PutI64(v))
    PROVE  GetI64(b, at) = v
<1> DEFINE half == Base8 \div 2
<1>1. half \in Int /\ half >= 0 /\ 2 * half <= Base8 /\ Base8 <= 2 * half + 1
  BY Bases
<1> HIDE DEF half
<1>2. v \in Int /\ half - Base8 <= v /\ v < half
  BY <1>1, Bases DEF Int64, half
<1>3. v \div Base4 \in Int
  BY <1>2, Bases, DivMod
<1>4. At(b, at, PutU32(v \div Base4)) /\ At(b, at + 4, PutU32(v))
  BY <1>2, <1>3, PutU32Bytes, AtCat DEF PutI64
<1>5. GetU32(b, at) = (v \div Base4) % Base4 /\ GetU32(b, at + 4) = v % Base4
  BY <1>2, <1>3, <1>4, GetPutU32
<1>6. GetU64(b, at) = v % Base8
  <2>1. ((v \div Base4) % Base4) * Base4 + (v % Base4) = v % Base8
    <3>1. Base4 \in Nat /\ Base4 > 0 /\ Base8 = Base4 * Base4
      BY Bases, Base8Is
    <3> QED BY <1>2, <3>1, TwoDigits
  <2> QED BY <1>5, <2>1 DEF GetU64
<1>7. CASE v >= 0
  <2>1. v % Base8 = v
    <3>1. v = Base8 * 0 + v /\ v \in 0 .. Base8 - 1
      BY <1>1, <1>2, <1>7, Bases
    <3> QED BY <3>1, Bases, DivModUnique
  <2> QED BY <2>1, <1>2, <1>6 DEF GetI64, Signed, half
<1>8. CASE v < 0
  <2>1. v % Base8 = v + Base8
    <3>1. v = Base8 * (-1) + (v + Base8) /\ v + Base8 \in 0 .. Base8 - 1
      BY <1>1, <1>2, <1>8, Bases
    <3> QED BY <3>1, Bases, DivModUnique
  <2>2. ~(v + Base8 < half)
    BY <1>1, <1>2, Bases
  <2> QED BY <2>1, <2>2, <1>2, <1>6, Bases DEF GetI64, Signed, half
<1> QED BY <1>2, <1>7, <1>8

(* ... and what is read is what the bytes are put for.                     *)
LEMMA PutGetU16 ==
    ASSUME NEW b, NEW at \in Nat, b[at] \in Byte, b[at + 1] \in Byte
    PROVE  GetU16(b, at) \in 0 .. Base2 - 1 /\ At(b, at, PutU16(GetU16(b, at)))
<1> DEFINE u == GetU16(b, at)
<1>1. /\ u \in 0 .. Base2 - 1 /\ u \div Base = b[at] /\ u % Base = b[at + 1]
  <2> DEFINE h == b[at]
             l == b[at + 1]
  <2>1. h \in 0 .. Base - 1 /\ l \in 0 .. Base - 1 /\ u = h * Base + l
    BY DEF GetU16, Byte
  <2> HIDE DEF h, l, u
  <2>2. u \in 0 .. Base * Base - 1 /\ u \div Base = h /\ u % Base = l
    BY <2>1, Bases, Digits
  <2> QED BY <2>2 DEF h, l, Base2
<1>2. b[at] % Base = b[at]
  BY Bases DEF Byte
<1>3. PutU16(u) = <<b[at], b[at + 1]>>
  BY <1>1, <1>2 DEF PutU16
<1>4. At(b, at, <<b[at], b[at + 1]>>)
  <2>1. at + 1 - 1 = at /\ at + 2 - 1 = at + 1
    OBVIOUS
  <2> QED BY <2>1 DEF At
<1> QED BY <1>1, <1>3, <1>4

LEMMA PutGetU32 ==
    ASSUME NEW b, NEW at \in Nat, \A i \in at .. at + 3 : b[i] \in Byte
    PROVE  GetU32(b, at) \in 0 .. Base4 - 1 /\ At(b, at, PutU32(GetU32(b, at)))
<1> DEFINE u == GetU32(b, at)
           h == GetU16(b, at)
           l == GetU16(b, at + 2)
<1>1. b[at] \in Byte /\ b[at + 1] \in Byte /\ b[at + 2] \in Byte /\ b[(at + 2) + 1] \in Byte
  <2>1. (at + 2) + 1 = at + 3
    OBVIOUS
  <2> QED BY <2>1
<1>2. /\ h \in 0 .. Base2 - 1 /\ At(b, at, PutU16(h))
      /\ l \in 0 .. Base2 - 1 /\ At(b, at + 2, PutU16(l))
  BY <1>1, PutGetU16
<1>3. u = h * Base2 + l
  BY DEF GetU32
<1> HIDE DEF u, h, l
<1>4. u \in 0 .. Base4 - 1 /\ u \div Base2 = h
  BY <1>2, <1>3, Bases, Base4Is, Digits
<1>5. PutU16(u) = PutU16(l)
  BY <1>2, <1>3, PutU16Cut
<1>6. At(b, at, PutU16(h) \o PutU16(l))
  <2>1. /\ PutU16(h) \in Seq(Byte) /\ Len(PutU16(h)) = 2
        /\ PutU16(l) \in Seq(Byte)
    BY <1>2, PutU16Bytes, Bases
  <2> QED BY <1>2, <2>1, AtCat
<1> QED BY <1>4, <1>5, <1>6 DEF PutU32, u

LEMMA PutGetI64 ==
    ASSUME NEW b, NEW at \in Nat, \A i \in at .. at + 7 : b[i] \in Byte
    PROVE  GetI64(b, at) \in Int64 /\ At(b, at, PutI64(GetI64(b, at)))
<1> DEFINE u == GetU64(b, at)
           h == GetU32(b, at)
           l == GetU32(b, at + 4)
           half == Base8 \div 2
<1>1. /\ h \in 0 .. Base4 - 1 /\ At(b, at, PutU32(h))
      /\ l \in 0 .. Base4 - 1 /\ At(b, at + 4, PutU32(l))
  <2>1. \A i \in at .. at + 3 : b[i] \in Byte
    OBVIOUS
  <2>2. \A i \in at + 4 .. (at + 4) + 3 : b[i] \in Byte
    OBVIOUS
  <2> QED BY <2>1, <2>2, PutGetU32
<1>2. u = h * Base4 + l
  BY DEF GetU64
<1>3. half \in Int /\ half >= 0 /\ 2 * half <= Base8 /\ Base8 <= 2 * half + 1
  BY Bases
<1>4. GetI64(b, at) = IF u < half THEN u ELSE u - Base8
  BY DEF GetI64, Signed
<1> HIDE DEF u, h, l, half
<1>5. u \in 0 .. Base8 - 1 /\ u \div Base4 = h
  BY <1>1, <1>2, Bases, Base8Is, Digits
<1>6. At(b, at, PutU32(h) \o PutU32(l))
  <2>1. /\ PutU32(h) \in Seq(Byte) /\ Len(PutU32(h)) = 4
        /\ PutU32(l) \in Seq(Byte)
    BY <1>1, PutU32Bytes, Bases
  <2> QED BY <1>1, <2>1, AtCat
<1>7. CASE u < half
  <2>1. PutU32(u) = PutU32(l)
    BY <1>1, <1>2, PutU32Cut
  <2>2. u \in Int64
    BY <1>3, <1>5, <1>7, Bases DEF Int64, half
  <2> QED BY <2>1, <2>2, <1>4, <1>5, <1>6, <1>7 DEF PutI64
<1>8. CASE ~(u < half)
  <2> DEFINE v == u - Base8
  <2>1. v \in Int64
    BY <1>3, <1>5, <1>8, Bases DEF Int64, half
  <2>2. v = (h - Base4) * Base4 + l /\ h - Base4 \in Int
    <3>1. (h - Base4) * Base4 = h * Base4 - Base8
      BY <1>1, Bases, Base8Is
    <3> QED BY <3>1, <1>1, <1>2, Bases
  <2>3. v \div Base4 = h - Base4
    <3> HIDE DEF v
    <3>1. v = Base4 * (h - Base4) + l
      BY <2>2, <1>1, Bases
    <3> QED BY <3>1, <2>2, <1>1, Bases, DivModUnique
  <2>4. PutU32(v) = PutU32(l)
    <3> HIDE DEF v
    <3> QED BY <1>1, <2>2, PutU32Cut
  <2>5. PutU32(h - Base4) = PutU32(h)
    <3>1. h - Base4 = (-1) * Base4 + h
      BY <1>1, Bases
    <3> QED BY <3>1, <1>1, PutU32Cut
  <2> QED BY <2>1, <2>3, <2>4, <2>5, <1>4, <1>6, <1>8 DEF PutI64
<1> QED BY <1>7, <1>8
-----------------------------------------------------------------------------
(* Cutting and joining byte strings.                                       *)

LEMMA SkipBytes ==
    ASSUME NEW S, NEW b \in Seq(S), NEW n \in 0 .. Len(b)
    PROVE  /\ Skip(b, n) \in Seq(S)
           /\ Len(Skip(b, n)) = Len(b) - n
           /\ \A i \in 1 .. Len(b) - n : Skip(b, n)[i] = b[n + i]
<1>1. Len(b) \in Nat /\ n \in Int /\ n + 1 \in Int
  BY LenProperties
<1>2. \A i \in n + 1 .. Len(b) : b[i] \in S
  BY <1>1, ElementOfSeq
<1> DEFINE t == SubSeq(b, n + 1, Len(b))
<1>3. /\ t \in Seq(S)
      /\ Len(t) = IF n + 1 <= Len(b) THEN Len(b) - (n + 1) + 1 ELSE 0
      /\ \A i \in 1 .. Len(b) - (n + 1) + 1 : t[i] = b[n + 1 + i - 1]
  BY <1>1, <1>2, SubSeqProperties
<1> HIDE DEF t
<1>4. Len(t) = Len(b) - n
  BY <1>1, <1>3
<1>5. \A i \in 1 .. Len(b) - n : t[i] = b[n + i]
  <2> SUFFICES ASSUME NEW i \in 1 .. Len(b) - n PROVE t[i] = b[n + i]
    OBVIOUS
  <2>1. i \in 1 .. Len(b) - (n + 1) + 1 /\ n + 1 + i - 1 = n + i
    BY <1>1
  <2> QED BY <2>1, <1>3
<1> QED BY <1>3, <1>4, <1>5 DEF t, Skip

LEMMA SkipCat ==
    ASSUME NEW S, NEW s \in Seq(S), NEW t \in Seq(S)
    PROVE  Skip(s \o t, Len(s)) = t
<1> DEFINE b == s \o t
<1>1. /\ b \in Seq(S) /\ Len(b) = Len(s) + Len(t) /\ Len(s) \in Nat /\ Len(t) \in Nat
      /\ \A i \in 1 .. Len(s) + Len(t) : b[i] = IF i <= Len(s) THEN s[i] ELSE t[i - Len(s)]
  BY ConcatProperties, LenProperties
<1> HIDE DEF b
<1>2. Len(s) \in 0 .. Len(b)
  BY <1>1
<1> DEFINE u == Skip(b, Len(s))
<1>3. /\ u \in Seq(S) /\ Len(u) = Len(b) - Len(s)
      /\ \A i \in 1 .. Len(b) - Len(s) : u[i] = b[Len(s) + i]
  BY <1>1, <1>2, SkipBytes
<1> HIDE DEF u
<1>4. Len(u) = Len(t)
  BY <1>1, <1>3
<1>5. ASSUME NEW i \in 1 .. Len(t) PROVE u[i] = t[i]
  <2>1. /\ i \in 1 .. Len(b) - Len(s) /\ Len(s) + i \in 1 .. Len(s) + Len(t)
        /\ ~(Len(s) + i <= Len(s)) /\ (Len(s) + i) - Len(s) = i
    BY <1>1
  <2>2. u[i] = b[Len(s) + i]
    BY <2>1, <1>3
  <2>3. b[Len(s) + i] = t[(Len(s) + i) - Len(s)]
    BY <2>1, <1>1
  <2> QED BY <2>1, <2>2, <2>3
<1>6. u = t
  BY <1>3, <1>4, <1>5, SeqEqual
<1> QED BY <1>6 DEF u, b

LEMMA CatBytes ==
    ASSUME NEW s \in Seq(Byte), NEW t \in Seq(Byte)
    PROVE  /\ s \o t \in Seq(Byte) /\ Len(s \o t) = Len(s) + Len(t)
           /\ Len(s) \in Nat /\ Len(t) \in Nat
  BY ConcatProperties, LenProperties

(* What stands at the front of b, and what follows it.                     *)
LEMMA AtFront ==
    ASSUME NEW S, NEW b \in Seq(S), NEW s \in Seq(S), Len(s) <= Len(b), At(b, 1, s)
    PROVE  b = s \o Skip(b, Len(s))
<1> DEFINE t == Skip(b, Len(s))
<1>1. Len(s) \in 0 .. Len(b) /\ Len(b) \in Nat
  BY LenProperties
<1>2. /\ t \in Seq(S) /\ Len(t) = Len(b) - Len(s)
      /\ \A i \in 1 .. Len(b) - Len(s) : t[i] = b[Len(s) + i]
  BY <1>1, SkipBytes
<1> HIDE DEF t
<1>3. /\ s \o t \in Seq(S) /\ Len(s \o t) = Len(b)
      /\ \A i \in 1 .. Len(s) + Len(t) :
            (s \o t)[i] = IF i <= Len(s) THEN s[i] ELSE t[i - Len(s)]
  BY <1>1, <1>2, ConcatProperties
<1>4. ASSUME NEW i \in 1 .. Len(b) PROVE (s \o t)[i] = b[i]
  <2>1. CASE i <= Len(s)
    <3>1. b[1 + i - 1] = s[i] /\ 1 + i - 1 = i
      BY <2>1, <1>1 DEF At
    <3> QED BY <3>1, <2>1, <1>1, <1>2, <1>3
  <2>2. CASE i > Len(s)
    <3>1. i - Len(s) \in 1 .. Len(b) - Len(s) /\ Len(s) + (i - Len(s)) = i
      BY <2>2, <1>1
    <3>2. t[i - Len(s)] = b[i]
      BY <3>1, <1>2
    <3>3. i \in 1 .. Len(s) + Len(t) /\ ~(i <= Len(s))
      BY <2>2, <1>1, <1>2
    <3>4. (s \o t)[i] = t[i - Len(s)]
      BY <3>3, <1>3
    <3> QED BY <3>2, <3>4
  <2>3. i <= Len(s) \/ i > Len(s)
    BY <1>1
  <2> QED BY <2>1, <2>2, <2>3
<1>5. s \o t = b
  BY <1>3, <1>4, SeqEqual
<1> QED BY <1>5 DEF t

LEMMA FrontAt ==
    ASSUME NEW S, NEW s \in Seq(S), NEW t \in Seq(S)
    PROVE  At(s \o t, 1, s) /\ At(s \o t, 1 + Len(s), t)
<1>1. s \o t \in Seq(S)
  BY ConcatProperties
<1>2. At(s \o t, 1, s \o t)
  BY <1>1, AtWhole
<1> QED BY <1>2, AtCat
-----------------------------------------------------------------------------
(* Values.                                                                 *)

LEMMA ValueTyped ==
    ASSUME NEW v \in Value
    PROVE  /\ v.type = INT => v.i64 \in Int64 /\ v.i64 \in Int /\ v = MakeInt(v.i64)
           /\ v.type # INT => v.type = STR /\ v.str \in Seq(Byte) /\ v = MakeStr(v.str)
<1>1. CASE v \in [type : {INT}, i64 : Int64, str : {<<>>}]
  <2>1. v.type = INT /\ v.i64 \in Int64 /\ v = [type |-> INT, i64 |-> v.i64, str |-> <<>>]
    BY <1>1
  <2>2. v.i64 \in Int
    BY <2>1, Bases DEF Int64
  <2> QED BY <2>1, <2>2 DEF MakeInt
<1>2. CASE v \in [type : {STR}, i64 : {0}, str : Seq(Byte)]
  <2>1. v.type = STR /\ v.str \in Seq(Byte) /\ v = [type |-> STR, i64 |-> 0, str |-> v.str]
    BY <1>2
  <2> QED BY <2>1 DEF MakeStr, INT, STR
<1> QED BY <1>1, <1>2 DEF Value

LEMMA MadeValues ==
    /\ \A n \in Int64 : MakeInt(n) \in Value /\ MakeInt(n).type = INT /\ MakeInt(n).i64 = n
    /\ \A s \in Seq(Byte) : MakeStr(s) \in Value /\ MakeStr(s).type = STR /\ MakeStr(s).str = s
  BY DEF MakeInt, MakeStr, Value

LEMMA EncodeValueBytes ==
    ASSUME NEW v \in Value
    PROVE  /\ EncodeValue(v) \in Seq(Byte)
           /\ v.type = INT => Len(EncodeValue(v)) = 9
           /\ v.type # INT => Len(EncodeValue(v)) = 5 + Len(v.str)
           /\ Len(EncodeValue(v)) >= 5
<1> DEFINE tag == <<v.type>>
           num == PutI64(v.i64)
           len == PutU32(Len(v.str))
<1>1. tag \in Seq(Byte) /\ Len(tag) = 1
  <2>1. v.type \in Byte
    BY ValueTyped, Bases DEF Byte, INT, STR
  <2> QED BY <2>1
<1>2. CASE v.type = INT
  <2>1. num \in Seq(Byte) /\ Len(num) = 8
    BY <1>2, ValueTyped, PutI64Bytes
  <2>2. EncodeValue(v) = tag \o num
    BY <1>2 DEF EncodeValue
  <2> HIDE DEF tag, num
  <2>3. tag \o num \in Seq(Byte) /\ Len(tag \o num) = Len(tag) + Len(num)
    BY <2>1, <1>1, CatBytes
  <2>4. Len(tag \o num) = 9
    BY <2>1, <2>3, <1>1
  <2> QED BY <2>2, <2>3, <2>4, <1>2
<1>3. CASE v.type # INT
  <2>1. v.str \in Seq(Byte) /\ Len(v.str) \in Nat
    BY <1>3, ValueTyped, LenProperties
  <2>2. len \in Seq(Byte) /\ Len(len) = 4
    BY <2>1, PutU32Bytes
  <2>3. EncodeValue(v) = tag \o (len \o v.str)
    BY <1>3 DEF EncodeValue
  <2> HIDE DEF tag, len
  <2>4. len \o v.str \in Seq(Byte) /\ Len(len \o v.str) = 4 + Len(v.str)
    BY <2>1, <2>2, CatBytes
  <2>5. /\ tag \o (len \o v.str) \in Seq(Byte)
        /\ Len(tag \o (len \o v.str)) = 1 + (4 + Len(v.str))
    BY <2>4, <1>1, CatBytes
  <2> QED BY <2>1, <2>3, <2>5, <1>3
<1> QED BY <1>2, <1>3

(* A value is decoded from its encoding, whatever follows.                 *)
LEMMA DecodeEncoded ==
    ASSUME NEW v \in Value, Len(EncodeValue(v)) < Base4, NEW x \in Seq(Byte)
    PROVE  DecodeValue(EncodeValue(v) \o x) = {[val |-> v, used |-> Len(EncodeValue(v))]}
<1> DEFINE e == EncodeValue(v)
           tag == <<v.type>>
           p == e \o x
<1>1. e \in Seq(Byte) /\ Len(e) \in Nat /\ Len(x) \in Nat
  BY EncodeValueBytes, LenProperties
<1>2. p \in Seq(Byte) /\ Len(p) = Len(e) + Len(x) /\ At(p, 1, e)
  BY <1>1, ConcatProperties, FrontAt
<1>3. tag \in Seq(Byte) /\ Len(tag) = 1
  <2>1. v.type \in Byte
    BY ValueTyped, Bases DEF Byte, INT, STR
  <2> QED BY <2>1
<1>4. At(p, 1, tag) => p[1] = v.type
  <2> HIDE DEF p
  <2> QED BY <1>3 DEF At
<1> HIDE DEF tag
<1>5. CASE v.type = INT
  <2>1. PutI64(v.i64) \in Seq(Byte) /\ Len(e) = 9 /\ v.i64 \in Int64
    BY <1>5, ValueTyped, PutI64Bytes, EncodeValueBytes
  <2>2. e = tag \o PutI64(v.i64)
    BY <1>5 DEF EncodeValue, tag
  <2> HIDE DEF p, e
  <2>3. At(p, 1, tag) /\ At(p, 1 + 1, PutI64(v.i64))
    BY <1>2, <1>3, <2>1, <2>2, AtCat
  <2>4. GetI64(p, 2) = v.i64
    BY <2>1, <2>3, GetPutI64
  <2>5. Len(p) >= 9 /\ p[1] = INT
    BY <1>1, <1>2, <1>4, <1>5, <2>1, <2>3
  <2>6. DecodeValue(p) = {[val |-> MakeInt(GetI64(p, 2)), used |-> 9]}
    BY <2>5 DEF DecodeValue, INT, STR
  <2> QED BY <2>1, <2>4, <2>6, <1>5, ValueTyped DEF p, e
<1>6. CASE v.type # INT
  <2> DEFINE n == Len(v.str)
  <2>1. /\ v.str \in Seq(Byte) /\ n \in Nat /\ v.type = STR /\ v = MakeStr(v.str)
        /\ Len(e) = 5 + n
    BY <1>6, ValueTyped, LenProperties, EncodeValueBytes
  <2>2. PutU32(n) \in Seq(Byte) /\ Len(PutU32(n)) = 4
    BY <2>1, PutU32Bytes
  <2>3. e = tag \o (PutU32(n) \o v.str)
    BY <1>6 DEF EncodeValue, tag
  <2>4. PutU32(n) \o v.str \in Seq(Byte)
    BY <2>1, <2>2, ConcatProperties
  <2>5. Len(e) < Base4
    OBVIOUS
  <2> HIDE DEF p, e
  <2>6. At(p, 1, tag) /\ At(p, 1 + 1, PutU32(n) \o v.str)
    <3>1. At(p, 1, tag \o (PutU32(n) \o v.str))
      BY <1>2, <2>3
    <3> HIDE DEF n
    <3> QED BY <3>1, <1>3, <2>4, AtCat
  <2>7. At(p, 2, PutU32(n)) /\ At(p, 6, v.str)
    <3>1. At(p, 2, PutU32(n) \o v.str)
      BY <2>6
    <3>2. At(p, 2, PutU32(n)) /\ At(p, 2 + Len(PutU32(n)), v.str)
      BY <3>1, <2>1, <2>2, AtCat
    <3> QED BY <3>2, <2>2
  <2>8. GetU32(p, 2) = n
    <3>1. GetU32(p, 2) = n % Base4
      BY <2>1, <2>7, GetPutU32
    <3>2. n \in 0 .. Base4 - 1
      BY <2>1, <2>5, Bases
    <3>3. n % Base4 = n
      BY <3>2, Bases, SmallMod
    <3> QED BY <3>1, <3>3
  <2>9. Len(p) >= 5 + n /\ p[1] = STR
    BY <1>1, <1>2, <1>4, <2>1, <2>6
  <2>10. SubSeq(p, 6, 5 + n) = v.str
    <3>1. 6 + Len(v.str) - 1 <= Len(p) /\ 6 + Len(v.str) - 1 = 5 + n
      BY <2>1, <2>9, <1>1, <1>2
    <3>2. SubSeq(p, 6, 6 + Len(v.str) - 1) = v.str
      <4>1. 6 \in Nat \ {0}
        OBVIOUS
      <4> DEFINE y == v.str
      <4>2. y \in Seq(Byte) /\ p \in Seq(Byte) /\ 6 + Len(y) - 1 <= Len(p) /\ At(p, 6, y)
        BY <3>1, <2>1, <2>7, <1>2
      <4> HIDE DEF y
      <4>3. SubSeq(p, 6, 6 + Len(y) - 1) = y
        BY <4>1, <4>2, AtSubSeq, Zenon
      <4> QED BY <4>3 DEF y
    <3> QED BY <3>1, <3>2
  <2>11. DecodeValue(p) = {[val |-> MakeStr(SubSeq(p, 6, 5 + n)), used |-> 5 + n]}
    <3>1. Len(p) >= 5 /\ ~(Len(p) >= 9 /\ p[1] = INT)
      BY <2>9, <2>1, <1>2, <1>1 DEF INT, STR
    <3> HIDE DEF n
    <3> QED BY <3>1, <2>8, <2>9 DEF DecodeValue
  <2> QED BY <2>1, <2>10, <2>11 DEF p, e
<1> QED BY <1>5, <1>6
(* What is decoded is what the bytes at the front are the encoding of.     *)
LEMMA EncodeDecoded ==
    ASSUME NEW p \in Seq(Byte), NEW d \in DecodeValue(p)
    PROVE  /\ d.val \in Value /\ d.used \in 5 .. Len(p)
           /\ d.used = Len(EncodeValue(d.val))
           /\ At(p, 1, EncodeValue(d.val))
<1>1. Len(p) \in Nat /\ \A i \in 1 .. Len(p) : p[i] \in Byte
  BY LenProperties, ElementOfSeq
<1>2. CASE Len(p) >= 9 /\ p[1] = INT
  <2> DEFINE n == GetI64(p, 2)
             tag == <<INT>>
  <2>1. n \in Int64 /\ At(p, 2, PutI64(n))
    <3>1. \A i \in 2 .. 2 + 7 : p[i] \in Byte
      BY <1>1, <1>2
    <3> QED BY <3>1, PutGetI64
  <2>2. d.val = MakeInt(n) /\ d.used = 9
    <3>1. DecodeValue(p) = {[val |-> MakeInt(n), used |-> 9]}
      BY <1>2 DEF DecodeValue, INT, STR
    <3> HIDE DEF n
    <3> QED BY <3>1
  <2>3. /\ MakeInt(n) \in Value /\ MakeInt(n).type = INT /\ MakeInt(n).i64 = n
    BY <2>1, MadeValues
  <2>4. Len(EncodeValue(MakeInt(n))) = 9
    BY <2>3, EncodeValueBytes
  <2>5. EncodeValue(MakeInt(n)) = tag \o PutI64(n)
    BY <2>3 DEF EncodeValue
  <2>6. tag \in Seq(Byte) /\ Len(tag) = 1
    BY Bases DEF Byte, INT
  <2>7. At(p, 1, tag)
    BY <1>2, <2>6 DEF At
  <2>8. PutI64(n) \in Seq(Byte)
    BY <2>1, Bases, PutI64Bytes DEF Int64
  <2> HIDE DEF n, tag
  <2>9. At(p, 1, tag \o PutI64(n))
    <3>1. 1 + Len(tag) = 2 /\ 1 \in Nat
      BY <2>6
    <3> QED BY <2>1, <2>6, <2>7, <2>8, <3>1, AtCat
  <2>10. At(p, 1, EncodeValue(d.val))
    BY <2>2, <2>5, <2>9
  <2>11. d.used \in 5 .. Len(p)
    BY <1>1, <1>2, <2>2
  <2> QED BY <2>2, <2>3, <2>4, <2>10, <2>11
<1>3. CASE /\ ~(Len(p) >= 9 /\ p[1] = INT)
           /\ Len(p) >= 5 /\ p[1] = STR /\ Len(p) >= 5 + GetU32(p, 2)
  <2> DEFINE n == GetU32(p, 2)
             s == SubSeq(p, 6, 5 + n)
             tag == <<STR>>
             len == PutU32(n)
  <2>1. n \in 0 .. Base4 - 1 /\ At(p, 2, len)
    <3>1. \A i \in 2 .. 2 + 3 : p[i] \in Byte
      BY <1>1, <1>3
    <3> QED BY <3>1, PutGetU32
  <2>2. d.val = MakeStr(s) /\ d.used = 5 + n
    <3>1. DecodeValue(p) = {[val |-> MakeStr(s), used |-> 5 + n]}
      BY <1>3 DEF DecodeValue
    <3> HIDE DEF n, s
    <3> QED BY <3>1
  <2>3. n \in Nat /\ 5 + n <= Len(p)
    BY <2>1, <1>3, Bases
  <2> HIDE DEF n
  <2>4. s \in Seq(Byte) /\ Len(s) = n
    <3>1. /\ s \in Seq(Byte)
          /\ Len(s) = IF 6 <= 5 + n THEN 5 + n - 6 + 1 ELSE 0
      <4>1. \A i \in 6 .. 5 + n : p[i] \in Byte
        BY <1>1, <2>3
      <4> QED BY <4>1, <2>3, SubSeqProperties
    <3> HIDE DEF s
    <3> QED BY <3>1, <2>3
  <2>5. At(p, 6, s)
    <3>1. 6 + Len(s) - 1 = 5 + n /\ 6 + Len(s) - 1 <= Len(p) /\ 6 \in Nat \ {0}
      BY <2>3, <2>4
    <3>2. SubSeq(p, 6, 6 + Len(s) - 1) = s
      BY <3>1
    <3> HIDE DEF s
    <3> QED BY <3>1, <3>2, <2>4, AtSubSeq
  <2> HIDE DEF s
  <2>6. MakeStr(s) \in Value /\ MakeStr(s).type = STR /\ MakeStr(s).str = s
    BY <2>4, MadeValues
  <2>7. Len(EncodeValue(MakeStr(s))) = 5 + n
    <3> DEFINE v == MakeStr(s)
    <3>1. v \in Value /\ v.type # INT /\ v.str = s
      BY <2>6 DEF INT, STR
    <3> HIDE DEF v
    <3>2. Len(EncodeValue(v)) = 5 + Len(v.str)
      BY <3>1, EncodeValueBytes
    <3> QED BY <3>1, <3>2, <2>4 DEF v
  <2>8. EncodeValue(MakeStr(s)) = tag \o (len \o s)
    BY <2>4, <2>6, SMTT(30) DEF EncodeValue, INT, STR
  <2>9. tag \in Seq(Byte) /\ Len(tag) = 1
    BY Bases DEF Byte, STR
  <2>10. At(p, 1, tag)
    BY <1>3, <2>9 DEF At
  <2>11. len \in Seq(Byte) /\ Len(len) = 4
    BY <2>3, PutU32Bytes
  <2> HIDE DEF tag, len
  <2>12. len \o s \in Seq(Byte)
    BY <2>4, <2>11, CatBytes
  <2>13. At(p, 2, len \o s)
    <3>1. 2 + Len(len) = 6 /\ 2 \in Nat
      BY <2>11
    <3> QED BY <3>1, <2>1, <2>4, <2>5, <2>11, AtCat
  <2>14. At(p, 1, tag \o (len \o s))
    <3>1. 1 + Len(tag) = 2 /\ 1 \in Nat
      BY <2>9
    <3> QED BY <3>1, <2>9, <2>10, <2>12, <2>13, AtCat
  <2>15. At(p, 1, EncodeValue(d.val))
    BY <2>2, <2>8, <2>14
  <2>16. d.used \in 5 .. Len(p)
    BY <1>1, <2>2, <2>3
  <2> QED BY <2>2, <2>6, <2>7, <2>15, <2>16
<1>4. QED
  <2>1. DecodeValue(p) # {}
    OBVIOUS
  <2>2. \/ Len(p) >= 9 /\ p[1] = INT
        \/ /\ ~(Len(p) >= 9 /\ p[1] = INT)
           /\ Len(p) >= 5 /\ p[1] = STR /\ Len(p) >= 5 + GetU32(p, 2)
    BY <2>1 DEF DecodeValue, Throws
  <2> QED BY <2>2, <1>2, <1>3
-----------------------------------------------------------------------------
(* The loops over the arguments.                                           *)

LEMMA NatSetInduction ==
    ASSUME NEW I, 0 \in I, \A n \in Nat : n \in I => n + 1 \in I
    PROVE  Nat \subseteq I
<1> DEFINE less == {ss \in Nat \X Nat : ss[1] < ss[2]}
           J == Nat \ I
<1> SUFFICES ASSUME J # {} PROVE FALSE
  OBVIOUS
<1>1. IsWellFoundedOn(less, Nat)
  BY NatLessThanWellFounded DEF OpToRel
<1>2. PICK i \in J : \A j \in J : ~(<<j, i>> \in less)
  <2>1. J \subseteq Nat
    OBVIOUS
  <2> HIDE DEF less, J
  <2> QED BY <1>1, <2>1, WFMin
<1>3. i # 0 /\ i \in Nat
  OBVIOUS
<1>4. i - 1 \in Nat /\ i - 1 < i /\ (i - 1) + 1 = i
  BY <1>3
<1>5. <<i - 1, i>> \in less
  BY <1>3, <1>4
<1>6. i - 1 \in I
  BY <1>2, <1>4, <1>5
<1> QED BY <1>3, <1>4, <1>6

Encoded(args) ==
    CHOOSE e : e = [n \in 0 .. Len(args) |->
                      IF n = 0 THEN <<>> ELSE e[n - 1] \o EncodeValue(args[n])]

LEMMA EncodedIs ==
    ASSUME NEW args, Len(args) \in Nat
    PROVE  /\ EncodeArgs(args) = Encoded(args)[Len(args)]
           /\ Encoded(args)[0] = <<>>
           /\ \A n \in 1 .. Len(args) :
                 Encoded(args)[n] = Encoded(args)[n - 1] \o EncodeValue(args[n])
<1> DEFINE Def(e, k) ==
             e = [n \in 0 .. k |-> IF n = 0 THEN <<>> ELSE e[n - 1] \o EncodeValue(args[n])]
           I == {k \in Nat : \E e : Def(e, k)}
<1>1. 0 \in I
  <2>1. Def([n \in 0 .. 0 |-> <<>>], 0)
    OBVIOUS
  <2> QED BY <2>1
<1>2. ASSUME NEW k \in Nat, k \in I PROVE k + 1 \in I
  <2>1. PICK e : Def(e, k)
    BY <1>2
  <2> DEFINE f == [n \in 0 .. k + 1 |->
                     IF n = k + 1 THEN e[k] \o EncodeValue(args[k + 1]) ELSE e[n]]
  <2>2. ASSUME NEW n \in 0 .. k + 1
        PROVE  f[n] = IF n = 0 THEN <<>> ELSE f[n - 1] \o EncodeValue(args[n])
    <3>1. CASE n = k + 1
      <4>1. n - 1 = k /\ k \in 0 .. k + 1 /\ k # k + 1 /\ n # 0
        BY <3>1
      <4> QED BY <3>1, <4>1
    <3>2. CASE n # k + 1 /\ n # 0
      <4>1. n \in 0 .. k /\ n - 1 \in 0 .. k + 1 /\ n - 1 # k + 1
        BY <3>2
      <4>2. e[n] = e[n - 1] \o EncodeValue(args[n])
        BY <2>1, <3>2, <4>1
      <4> QED BY <3>2, <4>1, <4>2
    <3>3. CASE n = 0
      <4>1. n \in 0 .. k /\ n # k + 1
        BY <3>3
      <4>2. e[n] = <<>>
        BY <2>1, <3>3, <4>1
      <4> QED BY <3>3, <4>1, <4>2
    <3> QED BY <3>1, <3>2, <3>3
  <2>3. Def(f, k + 1)
    <3>1. f = [n \in 0 .. k + 1 |-> f[n]]
      OBVIOUS
    <3> HIDE DEF f
    <3> QED BY <2>2, <3>1
  <2>4. \E g : Def(g, k + 1)
    <3> HIDE DEF f, Def
    <3> QED BY <2>3
  <2> QED BY <2>4
<1>3. Len(args) \in I
  <2> HIDE DEF I
  <2> QED BY <1>1, <1>2, NatSetInduction
<1>4. Def(Encoded(args), Len(args))
  BY <1>3 DEF Encoded
<1>5. EncodeArgs(args) = Encoded(args)[Len(args)]
  BY DEF EncodeArgs, Encoded
<1> HIDE DEF I
<1>6. /\ 0 \in 0 .. Len(args)
      /\ \A n \in 1 .. Len(args) : n \in 0 .. Len(args) /\ n # 0
  OBVIOUS
<1> QED BY <1>4, <1>5, <1>6

(* One argument more is encoded behind the others.                         *)
LEMMA EncodeArgsAppend ==
    ASSUME NEW args \in Seq(Value), NEW v \in Value
    PROVE  EncodeArgs(Append(args, v)) = EncodeArgs(args) \o EncodeValue(v)
<1> DEFINE more == Append(args, v)
           n == Len(args)
           I == {k \in Nat : k <= n => Encoded(more)[k] = Encoded(args)[k]}
<1>1. /\ n \in Nat /\ Len(more) = n + 1 /\ more[n + 1] = v
      /\ \A k \in 1 .. n : more[k] = args[k]
  BY AppendProperties, LenProperties
<1> HIDE DEF more, n
<1>2. /\ EncodeArgs(args) = Encoded(args)[n]
      /\ Encoded(args)[0] = <<>>
      /\ \A k \in 1 .. n : Encoded(args)[k] = Encoded(args)[k - 1] \o EncodeValue(args[k])
  BY <1>1, EncodedIs DEF n
<1>3. /\ EncodeArgs(more) = Encoded(more)[n + 1]
      /\ Encoded(more)[0] = <<>>
      /\ \A k \in 1 .. n + 1 : Encoded(more)[k] = Encoded(more)[k - 1] \o EncodeValue(more[k])
  <2>1. Len(more) \in Nat
    BY <1>1
  <2> QED BY <2>1, <1>1, EncodedIs
<1>4. 0 \in I
  BY <1>2, <1>3
<1>5. ASSUME NEW k \in Nat, k \in I PROVE k + 1 \in I
  <2> SUFFICES ASSUME k + 1 <= n PROVE Encoded(more)[k + 1] = Encoded(args)[k + 1]
    OBVIOUS
  <2>1. Encoded(more)[k] = Encoded(args)[k]
    BY <1>1, <1>5
  <2>2. k + 1 \in 1 .. n /\ k + 1 \in 1 .. n + 1 /\ (k + 1) - 1 = k
    BY <1>1
  <2>3. Encoded(more)[k + 1] = Encoded(more)[k] \o EncodeValue(more[k + 1])
    BY <2>2, <1>3
  <2>4. Encoded(args)[k + 1] = Encoded(args)[k] \o EncodeValue(args[k + 1])
    BY <2>2, <1>2
  <2>5. more[k + 1] = args[k + 1]
    BY <2>2, <1>1
  <2> QED BY <2>1, <2>3, <2>4, <2>5
<1>6. n \in I
  <2> HIDE DEF I
  <2> QED BY <1>1, <1>4, <1>5, NatSetInduction
<1>7. Encoded(more)[n] = EncodeArgs(args)
  BY <1>1, <1>2, <1>6
<1>8. EncodeArgs(more) = Encoded(more)[n] \o EncodeValue(v)
  <2>1. n + 1 \in 1 .. n + 1 /\ (n + 1) - 1 = n
    BY <1>1
  <2> QED BY <2>1, <1>1, <1>3
<1> QED BY <1>7, <1>8 DEF more

LEMMA EncodeArgsEmpty == EncodeArgs(<<>>) = <<>>
<1>1. Len(<<>>) = 0
  OBVIOUS
<1> QED BY <1>1, EncodedIs

(* The first n of the arguments.                                           *)
LEMMA ArgsFront ==
    ASSUME NEW args \in Seq(Value), NEW n \in Nat, n < Len(args)
    PROVE  /\ SubSeq(args, 1, n) \in Seq(Value) /\ Len(SubSeq(args, 1, n)) = n
           /\ args[n + 1] \in Value
           /\ SubSeq(args, 1, n + 1) = Append(SubSeq(args, 1, n), args[n + 1])
           /\ EncodeArgs(SubSeq(args, 1, n + 1)) =
                 EncodeArgs(SubSeq(args, 1, n)) \o EncodeValue(args[n + 1])
<1> DEFINE a == SubSeq(args, 1, n)
           b == SubSeq(args, 1, n + 1)
<1>1. Len(args) \in Nat /\ \A i \in 1 .. Len(args) : args[i] \in Value
  BY LenProperties, ElementOfSeq
<1>2. a \in Seq(Value) /\ Len(a) = n /\ \A i \in 1 .. n : a[i] = args[i]
  <2>1. /\ a \in Seq(Value) /\ Len(a) = IF 1 <= n THEN n - 1 + 1 ELSE 0
        /\ \A i \in 1 .. n - 1 + 1 : a[i] = args[1 + i - 1]
    <3>1. \A i \in 1 .. n : args[i] \in Value
      BY <1>1
    <3> QED BY <3>1, SubSeqProperties
  <2> HIDE DEF a
  <2>2. n - 1 + 1 = n /\ \A i \in 1 .. n : 1 + i - 1 = i
    OBVIOUS
  <2> QED BY <2>1, <2>2
<1>3. b \in Seq(Value) /\ Len(b) = n + 1 /\ \A i \in 1 .. n + 1 : b[i] = args[i]
  <2>1. /\ b \in Seq(Value) /\ Len(b) = IF 1 <= n + 1 THEN n + 1 - 1 + 1 ELSE 0
        /\ \A i \in 1 .. n + 1 - 1 + 1 : b[i] = args[1 + i - 1]
    <3>1. \A i \in 1 .. n + 1 : args[i] \in Value
      BY <1>1
    <3> QED BY <3>1, SubSeqProperties
  <2> HIDE DEF b
  <2>2. n + 1 - 1 + 1 = n + 1 /\ \A i \in 1 .. n + 1 : 1 + i - 1 = i
    OBVIOUS
  <2> QED BY <2>1, <2>2
<1>4. args[n + 1] \in Value
  BY <1>1
<1> HIDE DEF a, b
<1>5. b = Append(a, args[n + 1])
  <2> DEFINE c == Append(a, args[n + 1])
  <2>1. /\ c \in Seq(Value) /\ Len(c) = n + 1 /\ c[n + 1] = args[n + 1]
        /\ \A i \in 1 .. n : c[i] = a[i]
    BY <1>2, <1>4, AppendProperties
  <2> HIDE DEF c
  <2>2. ASSUME NEW i \in 1 .. n + 1 PROVE c[i] = b[i]
    <3>1. i \in 1 .. n \/ i = n + 1
      OBVIOUS
    <3> QED BY <3>1, <2>1, <1>2, <1>3
  <2>3. c = b
    BY <2>1, <2>2, <1>3, SeqEqual
  <2> QED BY <2>3 DEF c
<1>6. EncodeArgs(b) = EncodeArgs(a) \o EncodeValue(args[n + 1])
  BY <1>2, <1>4, <1>5, EncodeArgsAppend
<1> QED BY <1>2, <1>4, <1>5, <1>6 DEF a, b

LEMMA ArgsWhole ==
    ASSUME NEW args \in Seq(Value)
    PROVE  SubSeq(args, 1, Len(args)) = args /\ SubSeq(args, 1, 0) = <<>> /\ Len(args) \in Nat
  BY SubSeqFull, SubSeqEmpty, LenProperties

LEMMA ArgsBytes ==
    ASSUME NEW args \in Seq(Value)
    PROVE  \A n \in 0 .. Len(args) : EncodeArgs(SubSeq(args, 1, n)) \in Seq(Byte)
<1> DEFINE I == {n \in Nat : n <= Len(args) => EncodeArgs(SubSeq(args, 1, n)) \in Seq(Byte)}
<1>1. 0 \in I
  <2>1. SubSeq(args, 1, 0) = <<>>
    BY ArgsWhole
  <2>2. EncodeArgs(SubSeq(args, 1, 0)) = <<>>
    BY <2>1, EncodeArgsEmpty
  <2>3. <<>> \in Seq(Byte)
    OBVIOUS
  <2> QED BY <2>2, <2>3
<1>2. ASSUME NEW n \in Nat, n \in I PROVE n + 1 \in I
  <2> SUFFICES ASSUME n + 1 <= Len(args)
               PROVE  EncodeArgs(SubSeq(args, 1, n + 1)) \in Seq(Byte)
    OBVIOUS
  <2>1. n < Len(args) /\ n <= Len(args)
    BY ArgsWhole
  <2>2. EncodeArgs(SubSeq(args, 1, n)) \in Seq(Byte)
    BY <1>2, <2>1
  <2>3. /\ EncodeValue(args[n + 1]) \in Seq(Byte)
        /\ EncodeArgs(SubSeq(args, 1, n + 1)) =
              EncodeArgs(SubSeq(args, 1, n)) \o EncodeValue(args[n + 1])
    BY <2>1, ArgsFront, EncodeValueBytes
  <2> QED BY <2>2, <2>3, CatBytes
<1>3. Nat \subseteq I
  <2> HIDE DEF I
  <2> QED BY <1>1, <1>2, NatSetInduction
<1>4. \A n \in 0 .. Len(args) : n \in Nat /\ n <= Len(args)
  BY ArgsWhole
<1> QED BY <1>3, <1>4

LEMMA EncodeArgsBytes ==
    ASSUME NEW args \in Seq(Value)
    PROVE  EncodeArgs(args) \in Seq(Byte) /\ Len(EncodeArgs(args)) \in Nat
<1>1. Len(args) \in 0 .. Len(args) /\ SubSeq(args, 1, Len(args)) = args
  BY ArgsWhole
<1>2. EncodeArgs(SubSeq(args, 1, Len(args))) \in Seq(Byte)
  BY <1>1, ArgsBytes
<1> QED BY <1>1, <1>2, LenProperties

LEMMA CatTwice ==
    ASSUME NEW s \in Seq(Byte), NEW t \in Seq(Byte), NEW u \in Seq(Byte)
    PROVE  (s \o t) \o u = s \o (t \o u) /\ t \o u \in Seq(Byte)
  BY ConcatAssociative, ConcatProperties

(* What has been encoded stays at the front.                               *)
LEMMA ArgsPrefix ==
    ASSUME NEW args \in Seq(Value), NEW n \in 0 .. Len(args)
    PROVE  \E x \in Seq(Byte) : EncodeArgs(args) = EncodeArgs(SubSeq(args, 1, n)) \o x
<1> DEFINE N == Len(args)
           E(k) == EncodeArgs(SubSeq(args, 1, k))
           I == {k \in Nat : k <= N => \E x \in Seq(Byte) : EncodeArgs(args) = E(N - k) \o x}
<1>1. N \in Nat /\ n \in Nat /\ n <= N
  BY LenProperties
<1>2. 0 \in I
  <2>1. E(N - 0) = EncodeArgs(args)
    <3>1. N - 0 = N
      BY <1>1
    <3> QED BY <3>1, ArgsWhole
  <2>2. EncodeArgs(args) \in Seq(Byte)
    BY EncodeArgsBytes
  <2>3. EncodeArgs(args) = EncodeArgs(args) \o <<>> /\ <<>> \in Seq(Byte)
    BY <2>2, ConcatEmptySeq
  <2> QED BY <2>1, <2>3
<1>3. ASSUME NEW k \in Nat, k \in I PROVE k + 1 \in I
  <2> SUFFICES ASSUME k + 1 <= N
               PROVE  \E x \in Seq(Byte) : EncodeArgs(args) = E(N - (k + 1)) \o x
    OBVIOUS
  <2> DEFINE m == N - (k + 1)
  <2>1. m \in Nat /\ m < N /\ N - k = m + 1 /\ m \in 0 .. N /\ k <= N
    BY <1>1
  <2>2. PICK x \in Seq(Byte) : EncodeArgs(args) = E(m + 1) \o x
    BY <1>3, <2>1
  <2>3. /\ EncodeValue(args[m + 1]) \in Seq(Byte)
        /\ E(m + 1) = E(m) \o EncodeValue(args[m + 1])
    BY <2>1, ArgsFront, EncodeValueBytes
  <2>4. E(m) \in Seq(Byte)
    BY <2>1, ArgsBytes
  <2> DEFINE e == EncodeValue(args[m + 1])
  <2> HIDE DEF E, m, e
  <2>5. e \in Seq(Byte) /\ E(m + 1) = E(m) \o e
    BY <2>3 DEF e
  <2>6. (E(m) \o e) \o x = E(m) \o (e \o x) /\ e \o x \in Seq(Byte)
    BY <2>4, <2>5, CatTwice
  <2>7. EncodeArgs(args) = E(m) \o (e \o x)
    BY <2>2, <2>5, <2>6
  <2> QED BY <2>6, <2>7 DEF m
<1>4. Nat \subseteq I
  <2> HIDE DEF I
  <2> QED BY <1>2, <1>3, NatSetInduction
<1>5. N - n \in Nat /\ N - n <= N /\ N - (N - n) = n
  BY <1>1
<1> QED BY <1>4, <1>5

Decoded(argc, p) ==
    CHOOSE e : e = [n \in 0 .. argc |->
                      IF n = 0 THEN {[args |-> <<>>, rest |-> p]}
                      ELSE UNION {DecodeNext(f) : f \in e[n - 1]}]

LEMMA DecodedIs ==
    ASSUME NEW argc \in Nat, NEW p
    PROVE  /\ DecodeArgs(argc, p) = Decoded(argc, p)[argc]
           /\ Decoded(argc, p)[0] = {[args |-> <<>>, rest |-> p]}
           /\ \A n \in 1 .. argc :
                 Decoded(argc, p)[n] = UNION {DecodeNext(f) : f \in Decoded(argc, p)[n - 1]}
<1> DEFINE Def(e, k) ==
             e = [n \in 0 .. k |-> IF n = 0 THEN {[args |-> <<>>, rest |-> p]}
                                   ELSE UNION {DecodeNext(f) : f \in e[n - 1]}]
           I == {k \in Nat : \E e : Def(e, k)}
<1>1. 0 \in I
  <2>1. Def([n \in 0 .. 0 |-> {[args |-> <<>>, rest |-> p]}], 0)
    OBVIOUS
  <2>2. \E e : Def(e, 0)
    <3> HIDE DEF Def
    <3> QED BY <2>1
  <2> QED BY <2>2
<1>2. ASSUME NEW k \in Nat, k \in I PROVE k + 1 \in I
  <2>1. PICK e : Def(e, k)
    BY <1>2
  <2> DEFINE g == [n \in 0 .. k + 1 |->
                     IF n = k + 1 THEN UNION {DecodeNext(f) : f \in e[k]} ELSE e[n]]
  <2>2. ASSUME NEW n \in 0 .. k + 1
        PROVE  g[n] = IF n = 0 THEN {[args |-> <<>>, rest |-> p]}
                      ELSE UNION {DecodeNext(f) : f \in g[n - 1]}
    <3>1. CASE n = k + 1
      <4>1. n - 1 = k /\ k \in 0 .. k + 1 /\ k # k + 1 /\ n # 0
        BY <3>1
      <4> QED BY <3>1, <4>1
    <3>2. CASE n # k + 1 /\ n # 0
      <4>1. n \in 0 .. k /\ n - 1 \in 0 .. k + 1 /\ n - 1 # k + 1
        BY <3>2
      <4>2. e[n] = UNION {DecodeNext(f) : f \in e[n - 1]}
        BY <2>1, <3>2, <4>1
      <4> QED BY <3>2, <4>1, <4>2
    <3>3. CASE n = 0
      <4>1. n \in 0 .. k /\ n # k + 1
        BY <3>3
      <4>2. e[n] = {[args |-> <<>>, rest |-> p]}
        BY <2>1, <3>3, <4>1
      <4> QED BY <3>3, <4>1, <4>2
    <3> QED BY <3>1, <3>2, <3>3
  <2>3. Def(g, k + 1)
    <3>1. g = [n \in 0 .. k + 1 |-> g[n]]
      OBVIOUS
    <3> HIDE DEF g
    <3> QED BY <2>2, <3>1
  <2>4. \E e2 : Def(e2, k + 1)
    <3> HIDE DEF g, Def
    <3> QED BY <2>3
  <2> QED BY <2>4
<1>3. argc \in I
  <2> HIDE DEF I
  <2> QED BY <1>1, <1>2, NatSetInduction
<1>4. Def(Decoded(argc, p), argc)
  BY <1>3 DEF Decoded
<1>5. DecodeArgs(argc, p) = Decoded(argc, p)[argc]
  BY DEF DecodeArgs, Decoded
<1> HIDE DEF I
<1>6. /\ 0 \in 0 .. argc
      /\ \A n \in 1 .. argc : n \in 0 .. argc /\ n # 0
  OBVIOUS
<1> QED BY <1>4, <1>5, <1>6

(* One round of the loop takes one encoded value off the front.            *)
LEMMA DecodeNextEncoded ==
    ASSUME NEW a \in Seq(Value), NEW v \in Value, NEW x \in Seq(Byte),
           Len(EncodeValue(v)) < Base4
    PROVE  DecodeNext([args |-> a, rest |-> EncodeValue(v) \o x]) =
              {[args |-> Append(a, v), rest |-> x]}
<1>1. EncodeValue(v) \in Seq(Byte)
  BY EncodeValueBytes
<1>2. Skip(EncodeValue(v) \o x, Len(EncodeValue(v))) = x
  BY <1>1, SkipCat
<1>3. DecodeValue(EncodeValue(v) \o x) = {[val |-> v, used |-> Len(EncodeValue(v))]}
  BY DecodeEncoded
<1> DEFINE e == EncodeValue(v) \o x
           n == Len(EncodeValue(v))
           f == [args |-> a, rest |-> e]
<1>4. f.args = a /\ f.rest = e
  OBVIOUS
<1>5. DecodeNext(f) = {[args |-> Append(a, d.val), rest |-> Skip(e, d.used)] : d \in {[val |-> v, used |-> n]}}
  BY <1>3, <1>4 DEF DecodeNext
<1> QED BY <1>2, <1>5

(* The values are decoded from their encoding, ...                         *)
LEMMA DecodeArgsEncoded ==
    ASSUME NEW args \in Seq(Value), Len(EncodeArgs(args)) < Base4
    PROVE  DecodeArgs(Len(args), EncodeArgs(args)) = {[args |-> args, rest |-> <<>>]}
<1> DEFINE N == Len(args)
           p == EncodeArgs(args)
           E(k) == EncodeArgs(SubSeq(args, 1, k))
           D(k) == Decoded(N, p)[k]
           Done(k) == \E x \in Seq(Byte) : /\ p = E(k) \o x
                                           /\ D(k) = {[args |-> SubSeq(args, 1, k), rest |-> x]}
           I == {k \in Nat : k <= N => Done(k)}
<1>1. /\ N \in Nat /\ DecodeArgs(N, p) = D(N)
      /\ D(0) = {[args |-> <<>>, rest |-> p]}
      /\ \A k \in 1 .. N : D(k) = UNION {DecodeNext(f) : f \in D(k - 1)}
  BY ArgsWhole, DecodedIs
<1>2. p \in Seq(Byte) /\ Len(p) \in Nat
  BY EncodeArgsBytes
<1>3. 0 \in I
  <2>1. E(0) = <<>> /\ SubSeq(args, 1, 0) = <<>>
    BY ArgsWhole, EncodeArgsEmpty
  <2>2. p = <<>> \o p
    BY <1>2, ConcatEmptySeq
  <2>3. D(0) = {[args |-> SubSeq(args, 1, 0), rest |-> p]} /\ p = E(0) \o p
    <3> HIDE DEF p, E, D
    <3> QED BY <2>1, <2>2, <1>1
  <2>4. Done(0)
    <3> HIDE DEF p, E, D
    <3> QED BY <2>3, <1>2
  <2> HIDE DEF Done
  <2> QED BY <2>4
<1>4. ASSUME NEW k \in Nat, k \in I PROVE k + 1 \in I
  <2> SUFFICES ASSUME k + 1 <= N PROVE Done(k + 1)
    OBVIOUS
  <2> DEFINE v == args[k + 1]
             e == EncodeValue(v)
             a == SubSeq(args, 1, k)
             b == SubSeq(args, 1, k + 1)
  <2>1. k < N /\ k <= N /\ k \in 0 .. N /\ k + 1 \in 0 .. N
    BY <1>1
  <2>2. PICK x \in Seq(Byte) : p = E(k) \o x /\ D(k) = {[args |-> a, rest |-> x]}
    BY <1>4, <2>1
  <2>3. PICK y \in Seq(Byte) : p = E(k + 1) \o y
    BY <2>1, ArgsPrefix
  <2>4. /\ E(k) \in Seq(Byte) /\ E(k + 1) \in Seq(Byte) /\ v \in Value /\ e \in Seq(Byte)
        /\ a \in Seq(Value) /\ E(k + 1) = E(k) \o e /\ b = Append(a, v)
    BY <2>1, ArgsBytes, ArgsFront, EncodeValueBytes
  <2>5. Len(p) < Base4
    OBVIOUS
  <2>6. D(k + 1) = UNION {DecodeNext(f) : f \in D(k)}
    <3>1. k + 1 \in 1 .. N /\ (k + 1) - 1 = k
      BY <2>1
    <3> QED BY <3>1, <1>1
  <2> HIDE DEF p, N, E, D, v, e, a, b
  <2>7. x = e \o y
    <3> DEFINE s == E(k)
    <3>0. s \in Seq(Byte) /\ e \in Seq(Byte) /\ y \in Seq(Byte)
      BY <2>4
    <3> HIDE DEF s
    <3>a. (s \o e) \o y = s \o (e \o y) /\ e \o y \in Seq(Byte)
      BY <3>0, CatTwice, SMTT(60)
    <3>1. (E(k) \o e) \o y = E(k) \o (e \o y) /\ e \o y \in Seq(Byte)
      BY <3>a DEF s
    <3>2. E(k) \o x = E(k) \o (e \o y)
      BY <3>1, <2>2, <2>3, <2>4
    <3> QED BY <3>1, <3>2, <2>4, ConcatSimplifications
  <2>8. Len(e) < Base4
    <3>1. Len(E(k + 1)) = Len(E(k)) + Len(e) /\ Len(E(k)) \in Nat /\ Len(e) \in Nat
      BY <2>4, CatBytes
    <3>2. Len(p) = Len(E(k + 1)) + Len(y) /\ Len(y) \in Nat
      BY <2>3, <2>4, CatBytes
    <3> QED BY <3>1, <3>2, <2>5, Bases
  <2>9. DecodeNext([args |-> a, rest |-> x]) = {[args |-> b, rest |-> y]}
    BY <2>4, <2>7, <2>8, DecodeNextEncoded DEF e
  <2>10. D(k + 1) = {[args |-> b, rest |-> y]}
    BY <2>2, <2>6, <2>9
  <2> QED BY <2>3, <2>10 DEF b
<1>5. Done(N)
  <2>1. Nat \subseteq I
    <3> HIDE DEF I
    <3> QED BY <1>3, <1>4, NatSetInduction
  <2> HIDE DEF Done, N
  <2>2. N \in Nat /\ N <= N
    BY <1>1
  <2> QED BY <2>1, <2>2
<1>6. PICK x \in Seq(Byte) : p = E(N) \o x /\ D(N) = {[args |-> SubSeq(args, 1, N), rest |-> x]}
  BY <1>5
<1>7. E(N) = p /\ SubSeq(args, 1, N) = args
  BY ArgsWhole
<1>8. x = <<>>
  <2> HIDE DEF p, N, E, D
  <2> QED BY <1>2, <1>6, <1>7, ConcatSimplifications
<1> QED BY <1>1, <1>6, <1>7, <1>8

(* k values have been taken off p, and what they are the encoding of.      *)
Shows(g, k, p) ==
    /\ g.args \in Seq(Value) /\ Len(g.args) = k /\ g.rest \in Seq(Byte)
    /\ EncodeArgs(g.args) \in Seq(Byte)
    /\ p = EncodeArgs(g.args) \o g.rest

(* ... and what is decoded is what the bytes are the encoding of.          *)
LEMMA EncodeArgsDecoded ==
    ASSUME NEW p \in Seq(Byte), NEW argc \in Nat, NEW f \in DecodeArgs(argc, p)
    PROVE  /\ f.args \in Seq(Value) /\ Len(f.args) = argc /\ f.rest \in Seq(Byte)
           /\ EncodeArgs(f.args) \in Seq(Byte)
           /\ p = EncodeArgs(f.args) \o f.rest
<1> DEFINE D(k) == Decoded(argc, p)[k]
           I == {k \in Nat : k <= argc => \A g \in D(k) : Shows(g, k, p)}
<1>1. /\ DecodeArgs(argc, p) = D(argc)
      /\ D(0) = {[args |-> <<>>, rest |-> p]}
      /\ \A k \in 1 .. argc : D(k) = UNION {DecodeNext(g) : g \in D(k - 1)}
  BY DecodedIs
<1>2. 0 \in I
  <2>1. ASSUME NEW g \in D(0) PROVE Shows(g, 0, p)
    <3>1. g.args = <<>> /\ g.rest = p
      BY <1>1
    <3>2. EncodeArgs(<<>>) = <<>> /\ p = <<>> \o p
      BY EncodeArgsEmpty, ConcatEmptySeq
    <3>3. <<>> \in Seq(Value) /\ <<>> \in Seq(Byte) /\ Len(<<>>) = 0
      OBVIOUS
    <3> QED BY <3>1, <3>2, <3>3 DEF Shows
  <2> QED BY <2>1
<1>3. ASSUME NEW k \in Nat, k \in I PROVE k + 1 \in I
  <2> SUFFICES ASSUME k + 1 <= argc PROVE \A h \in D(k + 1) : Shows(h, k + 1, p)
    OBVIOUS
  <2> TAKE h \in D(k + 1)
  <2>1. D(k + 1) = UNION {DecodeNext(g) : g \in D(k)}
    <3>1. k + 1 \in 1 .. argc /\ (k + 1) - 1 = k
      OBVIOUS
    <3> QED BY <3>1, <1>1
  <2>2. PICK g \in D(k) : h \in DecodeNext(g)
    BY <2>1
  <2>3. Shows(g, k, p)
    <3>1. k <= argc
      OBVIOUS
    <3> QED BY <1>3, <3>1
  <2>4. PICK d \in DecodeValue(g.rest) : h = [args |-> Append(g.args, d.val), rest |-> Skip(g.rest, d.used)]
    BY <2>2 DEF DecodeNext
  <2> DEFINE e == EncodeValue(d.val)
             a == EncodeArgs(g.args)
             x == Skip(g.rest, d.used)
  <2>5. /\ d.val \in Value /\ d.used \in 5 .. Len(g.rest) /\ d.used = Len(e)
        /\ At(g.rest, 1, e) /\ e \in Seq(Byte)
    BY <2>3, EncodeDecoded, EncodeValueBytes DEF Shows
  <2>6. h.args = Append(g.args, d.val) /\ h.rest = x
    BY <2>4
  <2>7. h.args \in Seq(Value) /\ Len(h.args) = k + 1
    BY <2>3, <2>5, <2>6, AppendProperties DEF Shows
  <2>8. Len(e) <= Len(g.rest) /\ d.used \in 0 .. Len(g.rest)
    BY <2>3, <2>5, LenProperties DEF Shows
  <2>9. x \in Seq(Byte)
    BY <2>3, <2>8, SkipBytes DEF Shows
  <2>10. g.rest = e \o x
    BY <2>3, <2>5, <2>8, AtFront DEF Shows
  <2>11. EncodeArgs(h.args) = a \o e
    BY <2>3, <2>5, <2>6, EncodeArgsAppend DEF Shows
  <2>12. a \in Seq(Byte) /\ p = a \o g.rest
    BY <2>3 DEF Shows
  <2> HIDE DEF e, a, x
  <2>13. EncodeArgs(h.args) \in Seq(Byte) /\ p = EncodeArgs(h.args) \o h.rest
    <3>0. a \in Seq(Byte) /\ e \in Seq(Byte) /\ x \in Seq(Byte)
      BY <2>5, <2>9, <2>12
    <3>1. (a \o e) \o x = a \o (e \o x)
      BY <3>0, CatTwice, SMTT(60)
    <3>2. a \o e \in Seq(Byte)
      BY <3>0, CatBytes
    <3> QED BY <3>2, <3>1, <2>6, <2>10, <2>11, <2>12
  <2> QED BY <2>6, <2>7, <2>9, <2>13 DEF Shows
<1>4. Nat \subseteq I
  <2> HIDE DEF I
  <2> QED BY <1>2, <1>3, NatSetInduction
<1>5. f \in D(argc)
  BY <1>1
<1>6. Shows(f, argc, p)
  <2>1. argc \in I /\ argc <= argc
    BY <1>4
  <2> QED BY <1>5, <2>1
<1> QED BY <1>6 DEF Shows

LEMMA ArgsCount ==
    ASSUME NEW args \in Seq(Value)
    PROVE  Len(args) \in Nat /\ Len(args) <= Len(EncodeArgs(args))
<1> DEFINE E(k) == EncodeArgs(SubSeq(args, 1, k))
           I == {k \in Nat : k <= Len(args) => k <= Len(E(k))}
<1>1. 0 \in I
  <2>1. E(0) \in Seq(Byte)
    <3>1. 0 \in 0 .. Len(args)
      BY ArgsWhole
    <3> QED BY <3>1, ArgsBytes
  <2>2. Len(E(0)) \in Nat
    <3> HIDE DEF E
    <3> QED BY <2>1, LenProperties
  <2> HIDE DEF E
  <2> QED BY <2>2
<1>2. ASSUME NEW k \in Nat, k \in I PROVE k + 1 \in I
  <2> SUFFICES ASSUME k + 1 <= Len(args) PROVE k + 1 <= Len(E(k + 1))
    OBVIOUS
  <2> DEFINE s == E(k)
             e == EncodeValue(args[k + 1])
  <2>1. k < Len(args) /\ k <= Len(args) /\ k \in 0 .. Len(args)
    BY ArgsWhole
  <2>2. /\ e \in Seq(Byte) /\ Len(e) >= 5 /\ E(k + 1) = s \o e
    BY <2>1, ArgsFront, EncodeValueBytes
  <2>3. s \in Seq(Byte) /\ k <= Len(s)
    BY <2>1, <1>2, ArgsBytes
  <2> HIDE DEF s, e, E
  <2>4. Len(s \o e) = Len(s) + Len(e) /\ Len(s) \in Nat /\ Len(e) \in Nat
    BY <2>2, <2>3, CatBytes
  <2> QED BY <2>2, <2>3, <2>4
<1>3. Nat \subseteq I
  <2> HIDE DEF I
  <2> QED BY <1>1, <1>2, NatSetInduction
<1>4. Len(args) \in I
  <2> HIDE DEF I
  <2> QED BY <1>3, ArgsWhole
<1>5. Len(args) <= Len(E(Len(args)))
  BY <1>4
<1> QED BY <1>5, ArgsWhole
-----------------------------------------------------------------------------
(* The payload of a request.                                               *)

LEMMA RequestTyped ==
    ASSUME NEW r \in Requests
    PROVE  /\ r.type = REQUEST /\ r.req_id \in 0 .. Base4 - 1 /\ r.method \in Seq(Byte)
           /\ r.args \in Seq(Value)
           /\ r = [type |-> REQUEST, req_id |-> r.req_id, method |-> r.method, args |-> r.args]
  BY DEF Requests

LEMMA EncodeRequestBytes ==
    ASSUME NEW r, r.args \in Seq(Value)
    PROVE  /\ EncodeRequest(r) \in Seq(Byte)
           /\ Len(EncodeRequest(r)) = 4 + Len(EncodeArgs(r.args))
<1> DEFINE n == Len(r.args)
           c == PutU32(n)
           a == EncodeArgs(r.args)
<1>1. n \in Nat
  BY LenProperties
<1>2. c \in Seq(Byte) /\ Len(c) = 4
  <2> HIDE DEF n
  <2> QED BY <1>1, PutU32Bytes
<1>3. a \in Seq(Byte)
  BY EncodeArgsBytes
<1>4. EncodeRequest(r) = c \o a
  BY DEF EncodeRequest
<1> HIDE DEF c, a
<1>5. c \o a \in Seq(Byte) /\ Len(c \o a) = 4 + Len(a)
  BY <1>2, <1>3, CatBytes
<1> QED BY <1>4, <1>5 DEF a

(* A request is parsed from the payload it is encoded to ...               *)
LEMMA RequestParsed ==
    ASSUME NEW r \in Requests, Len(EncodeRequest(r)) < Base4
    PROVE  ParseRequest([type |-> REQUEST, req_id |-> r.req_id, method |-> r.method,
                         payload |-> EncodeRequest(r)]) = {r}
<1> DEFINE n == Len(r.args)
           c == PutU32(n)
           a == EncodeArgs(r.args)
           pl == c \o a
           f == [type |-> REQUEST, req_id |-> r.req_id, method |-> r.method,
                 payload |-> EncodeRequest(r)]
<1>1. /\ r.args \in Seq(Value)
      /\ r = [type |-> REQUEST, req_id |-> r.req_id, method |-> r.method, args |-> r.args]
  BY RequestTyped
<1>2. EncodeRequest(r) = pl /\ Len(EncodeRequest(r)) = 4 + Len(a)
  BY <1>1, EncodeRequestBytes DEF EncodeRequest
<1>3. n \in Nat /\ n <= Len(a) /\ Len(a) \in Nat /\ a \in Seq(Byte)
  BY <1>1, ArgsCount, EncodeArgsBytes
<1>4. n < Base4 /\ Len(a) < Base4
  <2> HIDE DEF n, a, pl
  <2> QED BY <1>2, <1>3, Bases
<1>5. DecodeArgs(n, a) = {[args |-> r.args, rest |-> <<>>]}
  BY <1>1, <1>4, DecodeArgsEncoded
<1>6. c \in Seq(Byte) /\ Len(c) = 4
  <2> HIDE DEF n
  <2> QED BY <1>3, PutU32Bytes
<1> HIDE DEF n, a
<1>7. GetU32(pl, 1) = n
  <2>1. At(pl, 1, c)
    <3> HIDE DEF c
    <3> QED BY <1>3, <1>6, FrontAt
  <2> HIDE DEF pl
  <2>2. GetU32(pl, 1) = n % Base4
    BY <1>3, <2>1, GetPutU32
  <2>3. n \in 0 .. Base4 - 1
    BY <1>3, <1>4, Bases
  <2> QED BY <2>2, <2>3, Bases, SmallMod
<1> HIDE DEF c
<1>8. Skip(pl, 4) = a /\ Len(pl) = 4 + Len(a)
  <2>1. Skip(pl, Len(c)) = a
    BY <1>3, <1>6, SkipCat
  <2> QED BY <2>1, <1>6, <1>2
<1> HIDE DEF pl
<1>9. ~(Len(pl) < 4)
  BY <1>8, <1>3
<1>10. f.payload = pl /\ f.req_id = r.req_id /\ f.method = r.method
  BY <1>2
<1> HIDE DEF f
<1>11. ParseRequest(f) =
         {[type |-> REQUEST, req_id |-> r.req_id, method |-> r.method, args |-> x.args] :
             x \in {d \in {[args |-> r.args, rest |-> <<>>]} : d.rest = <<>>}}
  BY <1>5, <1>7, <1>8, <1>9, <1>10 DEF ParseRequest
<1> DEFINE g == [args |-> r.args, rest |-> <<>>]
           R(x) == [type |-> REQUEST, req_id |-> r.req_id, method |-> r.method, args |-> x.args]
<1>12. {d \in {g} : d.rest = <<>>} = {g}
  <2>1. g.rest = <<>>
    OBVIOUS
  <2> HIDE DEF g
  <2> QED BY <2>1
<1>13. R(g) = r
  BY <1>1
<1>14. ParseRequest(f) = {R(x) : x \in {d \in {g} : d.rest = <<>>}}
  BY <1>11
<1>15. ParseRequest(f) = {r}
  <2> HIDE DEF g, R
  <2> QED BY <1>12, <1>13, <1>14
<1> QED BY <1>15 DEF f

(* ... and a payload that is parsed is the encoding of what comes out.     *)
LEMMA ParsedRequest ==
    ASSUME NEW f, f.payload \in Seq(Byte), NEW r \in ParseRequest(f)
    PROVE  /\ r.type = REQUEST /\ r.req_id = f.req_id /\ r.method = f.method
           /\ r.args \in Seq(Value)
           /\ EncodeRequest(r) = f.payload
<1> DEFINE pl == f.payload
           n == GetU32(pl, 1)
           p == Skip(pl, 4)
<1>1. Len(pl) >= 4 /\ Len(pl) \in Nat
  <2>1. ~(Len(pl) < 4)
    BY DEF ParseRequest, Throws
  <2>2. Len(pl) \in Nat
    BY LenProperties
  <2> HIDE DEF pl
  <2> QED BY <2>1, <2>2
<1>2. PICK d \in DecodeArgs(n, p) :
         /\ d.rest = <<>>
         /\ r = [type |-> REQUEST, req_id |-> f.req_id, method |-> f.method, args |-> d.args]
  BY <1>1 DEF ParseRequest
<1>3. n \in 0 .. Base4 - 1 /\ At(pl, 1, PutU32(n))
  <2>1. \A i \in 1 .. 1 + 3 : pl[i] \in Byte
    BY <1>1, ElementOfSeq
  <2> HIDE DEF pl
  <2> QED BY <2>1, PutGetU32
<1>4. n \in Nat
  <2> HIDE DEF n
  <2> QED BY <1>3, Bases
<1>5. p \in Seq(Byte)
  <2>1. 4 \in 0 .. Len(pl)
    BY <1>1
  <2> QED BY <2>1, SkipBytes
<1> HIDE DEF n, p
<1>6. /\ d.args \in Seq(Value) /\ Len(d.args) = n
      /\ EncodeArgs(d.args) \in Seq(Byte)
      /\ p = EncodeArgs(d.args) \o d.rest
  BY <1>2, <1>4, <1>5, EncodeArgsDecoded
<1>7. p = EncodeArgs(d.args)
  BY <1>2, <1>6, ConcatEmptySeq
<1>8. PutU32(n) \in Seq(Byte) /\ Len(PutU32(n)) = 4
  BY <1>4, PutU32Bytes
<1>9. pl = PutU32(n) \o p
  <2> DEFINE c == PutU32(n)
  <2>1. c \in Seq(Byte) /\ Len(c) = 4 /\ At(pl, 1, c) /\ Len(c) <= Len(pl)
    BY <1>1, <1>3, <1>8
  <2> HIDE DEF c
  <2>2. pl = c \o Skip(pl, Len(c))
    <3>1. pl \in Seq(Byte)
      OBVIOUS
    <3> HIDE DEF pl
    <3> QED BY <2>1, <3>1, AtFront
  <2> QED BY <2>1, <2>2 DEF c, p
<1>10. r.args = d.args
  BY <1>2
<1>11. EncodeRequest(r) = PutU32(n) \o p
  BY <1>6, <1>7, <1>10 DEF EncodeRequest
<1> QED BY <1>2, <1>6, <1>9, <1>11
-----------------------------------------------------------------------------
(* The payload of a response.                                              *)

LEMMA ResponseTyped ==
    ASSUME NEW r \in Responses
    PROVE  /\ r.type = RESPONSE /\ r.req_id \in 0 .. Base4 - 1 /\ r.status \in 0 .. Base2 - 1
           /\ r.err_msg \in Seq(Byte) /\ r.has_result \in BOOLEAN /\ r.result \in Value
           /\ r.status = 0 => r.err_msg = <<>>
           /\ ~r.has_result => r.result = MakeInt(0)
           /\ r = [type |-> RESPONSE, req_id |-> r.req_id, status |-> r.status,
                   err_msg |-> r.err_msg, has_result |-> r.has_result, result |-> r.result]
  BY DEF Responses

(* What a response has after its error text.                               *)
ResultPart(r) == IF r.has_result THEN <<1>> \o EncodeValue(r.result) ELSE <<0>>

LEMMA ResultDecoded ==
    ASSUME NEW r \in Responses, Len(ResultPart(r)) < Base4
    PROVE  /\ ResultPart(r) \in Seq(Byte) /\ Len(ResultPart(r)) >= 1
           /\ DecodeResult(ResultPart(r)) = {[has |-> r.has_result, val |-> r.result]}
<1> DEFINE p == ResultPart(r)
           v == r.result
           e == EncodeValue(v)
<1>1. /\ r.has_result \in BOOLEAN /\ v \in Value
      /\ ~r.has_result => v = MakeInt(0)
  BY ResponseTyped
<1>2. CASE ~r.has_result
  <2>1. p = <<0>> /\ r.has_result = FALSE
    BY <1>1, <1>2 DEF ResultPart
  <2>2. <<0>> \in Seq(Byte) /\ Len(<<0>>) = 1
    BY Bases DEF Byte
  <2>3. v = MakeInt(0)
    BY <1>1, <1>2
  <2> HIDE DEF p, v
  <2>4. ~(Len(p) > 1)
    BY <2>1, <2>2
  <2>5. DecodeResult(p) = {[has |-> FALSE, val |-> MakeInt(0)]}
    BY <2>1, <2>4 DEF DecodeResult
  <2>6. p \in Seq(Byte) /\ Len(p) >= 1
    BY <2>1, <2>2
  <2>7. DecodeResult(p) = {[has |-> r.has_result, val |-> v]}
    BY <2>1, <2>3, <2>5
  <2> QED BY <2>6, <2>7 DEF p, v
<1>3. CASE r.has_result
  <2> DEFINE one == <<1>>
  <2>1. p = one \o e /\ r.has_result = TRUE
    BY <1>1, <1>3 DEF ResultPart
  <2>2. one \in Seq(Byte) /\ Len(one) = 1 /\ one[1] = 1
    BY Bases DEF Byte
  <2>3. e \in Seq(Byte) /\ Len(e) >= 5
    BY <1>1, EncodeValueBytes
  <2>4. Len(p) < Base4
    OBVIOUS
  <2> HIDE DEF p, e, one, v
  <2>5. p \in Seq(Byte) /\ Len(p) = 1 + Len(e) /\ Len(e) \in Nat
    BY <2>1, <2>2, <2>3, CatBytes
  <2>6. p[1] = 1
    <3>1. At(p, 1, one)
      BY <2>1, <2>2, <2>3, FrontAt
    <3>2. p[1 + 1 - 1] = one[1]
      BY <3>1, <2>2 DEF At
    <3> QED BY <3>2, <2>2
  <2>7. Tail(p) = e
    <3>1. p # <<>>
      <4>1. Len(p) # 0
        BY <2>3, <2>5
      <4> QED BY <4>1
    <3>2. Tail(p) = SubSeq(p, 2, Len(p))
      BY <2>5, <3>1, TailIsSubSeq
    <3>3. Skip(p, Len(one)) = e
      BY <2>1, <2>2, <2>3, SkipCat
    <3>4. Skip(p, 1) = SubSeq(p, 2, Len(p))
      <4>1. 1 + 1 = 2
        OBVIOUS
      <4> QED BY <4>1 DEF Skip
    <3> QED BY <2>2, <3>2, <3>3, <3>4
  <2>8. DecodeValue(e) = {[val |-> v, used |-> Len(e)]}
    <3>1. e = e \o <<>> /\ <<>> \in Seq(Byte)
      BY <2>3, ConcatEmptySeq
    <3>2. Len(e) < Base4
      BY <2>4, <2>5, Bases
    <3>3. DecodeValue(e \o <<>>) = {[val |-> v, used |-> Len(e)]}
      BY <1>1, <3>1, <3>2, DecodeEncoded DEF e
    <3> QED BY <3>1, <3>3
  <2> DEFINE d == [val |-> v, used |-> Len(e)]
             R(x) == [has |-> TRUE, val |-> x.val]
  <2>9. DecodeResult(p) = {R(x) : x \in {y \in {d} : y.used = Len(p) - 1}}
    <3>1. p # <<0>> /\ Len(p) > 1 /\ p[1] # 0
      <4>1. Len(<<0>>) = 1
        OBVIOUS
      <4> QED BY <4>1, <2>3, <2>5, <2>6
    <3>2. DecodeResult(p) = {R(x) : x \in {y \in DecodeValue(Tail(p)) : y.used = Len(p) - 1}}
      BY <3>1 DEF DecodeResult
    <3> QED BY <3>2, <2>7, <2>8
  <2>10. d.used = Len(p) - 1 /\ R(d) = [has |-> TRUE, val |-> v]
    BY <2>5
  <2>11. DecodeResult(p) = {[has |-> TRUE, val |-> v]}
    <3> HIDE DEF d
    <3> QED BY <2>9, <2>10
  <2>12. Len(p) >= 1
    BY <2>3, <2>5
  <2> QED BY <2>1, <2>5, <2>11, <2>12 DEF p, v
<1> QED BY <1>1, <1>2, <1>3

LEMMA EncodeResponseIs ==
    ASSUME NEW r \in Responses
    PROVE  EncodeResponse(r) =
              (PutU16(r.status) \o (PutU32(Len(r.err_msg)) \o r.err_msg)) \o ResultPart(r)
<1>1. CASE r.status = 0
  <2>1. r.err_msg = <<>> /\ Len(<<>>) = 0
    BY <1>1, ResponseTyped
  <2>2. PutU32(0) \o <<>> = PutU32(0)
    <3>1. PutU32(0) \in Seq(Byte)
      <4>1. 0 \in Int
        OBVIOUS
      <4> QED BY <4>1, PutU32Bytes
    <3> QED BY <3>1, ConcatEmptySeq
  <2>3. EncodeResponse(r) = (PutU16(r.status) \o PutU32(0)) \o ResultPart(r)
    BY <1>1 DEF EncodeResponse, ResultPart
  <2> QED BY <2>1, <2>2, <2>3
<1>2. CASE r.status # 0
  BY <1>2 DEF EncodeResponse, ResultPart
<1> QED BY <1>1, <1>2

LEMMA ResultBytes ==
    ASSUME NEW r \in Responses
    PROVE  ResultPart(r) \in Seq(Byte)
<1>1. CASE r.has_result
  <2> DEFINE one == <<1>>
             e == EncodeValue(r.result)
  <2>1. one \in Seq(Byte) /\ e \in Seq(Byte) /\ ResultPart(r) = one \o e
    <3>1. ResultPart(r) = one \o e
      BY <1>1 DEF ResultPart
    <3>2. one \in Seq(Byte)
      BY Bases DEF Byte
    <3>3. r.result \in Value
      BY ResponseTyped
    <3>4. e \in Seq(Byte)
      BY <3>3, EncodeValueBytes
    <3> QED BY <3>1, <3>2, <3>4
  <2> HIDE DEF one, e
  <2>2. one \o e \in Seq(Byte)
    BY <2>1, CatBytes
  <2> QED BY <2>1, <2>2
<1>2. CASE ~r.has_result
  <2>1. <<0>> \in Seq(Byte)
    BY Bases DEF Byte
  <2> QED BY <1>2, <2>1 DEF ResultPart
<1> QED BY <1>1, <1>2

LEMMA EncodeResponseBytes ==
    ASSUME NEW r \in Responses
    PROVE  EncodeResponse(r) \in Seq(Byte)
<1> DEFINE st == PutU16(r.status)
           n == Len(r.err_msg)
           c == PutU32(n)
           err == r.err_msg
           res == ResultPart(r)
<1>1. err \in Seq(Byte) /\ n \in Int /\ r.status \in Int /\ res \in Seq(Byte)
  <2>1. r.err_msg \in Seq(Byte) /\ r.status \in 0 .. Base2 - 1
    BY ResponseTyped
  <2>2. r.status \in Int
    BY <2>1, Bases
  <2> QED BY <2>1, <2>2, LenProperties, ResultBytes
<1>2. EncodeResponse(r) = (st \o (c \o err)) \o res
  BY EncodeResponseIs
<1> HIDE DEF n
<1>3. st \in Seq(Byte) /\ c \in Seq(Byte)
  BY <1>1, PutU16Bytes, PutU32Bytes
<1> HIDE DEF st, c, err, res
<1>4. c \o err \in Seq(Byte)
  BY <1>1, <1>3, CatBytes
<1>5. st \o (c \o err) \in Seq(Byte)
  BY <1>3, <1>4, CatBytes
<1>6. (st \o (c \o err)) \o res \in Seq(Byte)
  BY <1>1, <1>5, CatBytes
<1> QED BY <1>2, <1>6

(* A response is parsed from the payload it is encoded to.                 *)
LEMMA ResponseParsed ==
    ASSUME NEW r \in Responses, Len(EncodeResponse(r)) < Base4, NEW f,
           f.req_id = r.req_id, f.payload = EncodeResponse(r)
    PROVE  ParseResponse(f) = {r}
<1> DEFINE st == PutU16(r.status)
           n == Len(r.err_msg)
           c == PutU32(n)
           err == r.err_msg
           t == c \o err
           s == st \o t
           res == ResultPart(r)
           pl == EncodeResponse(r)
<1>1. /\ r.status \in 0 .. Base2 - 1 /\ err \in Seq(Byte)
      /\ r = [type |-> RESPONSE, req_id |-> r.req_id, status |-> r.status,
              err_msg |-> err, has_result |-> r.has_result, result |-> r.result]
  BY ResponseTyped
<1>2. pl = s \o res
  BY EncodeResponseIs
<1>3. n \in Nat /\ n \in Int /\ r.status \in Int
  BY <1>1, LenProperties
<1>4. st \in Seq(Byte) /\ Len(st) = 2 /\ c \in Seq(Byte) /\ Len(c) = 4
  <2> HIDE DEF n
  <2> QED BY <1>3, PutU16Bytes, PutU32Bytes
<1>5. Len(pl) < Base4
  OBVIOUS
<1>6. res \in Seq(Byte)
  BY ResultBytes
<1> DEFINE sta == r.status
<1>a. st = PutU16(sta) /\ c = PutU32(n) /\ t = c \o err /\ s = st \o t /\ n = Len(err)
  OBVIOUS
<1> HIDE DEF st, c, err, n, t, s, res, pl, sta
<1>7. t \in Seq(Byte) /\ Len(t) = 4 + n
  BY <1>1, <1>4, <1>a, CatBytes
<1>8. s \in Seq(Byte) /\ Len(s) = 6 + n
  <2>1. st \in Seq(Byte) /\ t \in Seq(Byte) /\ s = st \o t
    BY <1>4, <1>7, <1>a
  <2>2. s \in Seq(Byte) /\ Len(s) = Len(st) + Len(t)
    BY <2>1, CatBytes
  <2> QED BY <2>2, <1>4, <1>7, <1>3
<1>9. pl \in Seq(Byte) /\ Len(pl) = 6 + n + Len(res) /\ Len(res) \in Nat
  <2>1. pl \in Seq(Byte) /\ Len(pl) = Len(s) + Len(res) /\ Len(res) \in Nat
    BY <1>2, <1>6, <1>8, CatBytes
  <2> QED BY <2>1, <1>8
<1>10. /\ res \in Seq(Byte) /\ Len(res) >= 1
       /\ DecodeResult(res) = {[has |-> r.has_result, val |-> r.result]}
  <2>1. Len(res) < Base4
    BY <1>3, <1>5, <1>9, Bases
  <2> QED BY <2>1, ResultDecoded DEF res
<1>11. At(pl, 1, st) /\ At(pl, 3, c) /\ At(pl, 7, err)
  <2>1. At(pl, 1, s)
    BY <1>2, <1>6, <1>8, FrontAt
  <2>2. At(pl, 1, st) /\ At(pl, 1 + 2, t)
    BY <2>1, <1>4, <1>7, <1>a, AtCat
  <2>3. At(pl, 3, t)
    BY <2>2
  <2>4. At(pl, 3, c) /\ At(pl, 3 + 4, err)
    BY <2>3, <1>1, <1>4, <1>a, AtCat
  <2> QED BY <2>2, <2>4
<1>12. GetU16(pl, 1) = sta
  <2>1. GetU16(pl, 1) = sta % Base2
    <3>1. sta \in Int
      BY <1>3 DEF sta
    <3> QED BY <3>1, <1>11, <1>a, GetPutU16
  <2>2. sta \in 0 .. Base2 - 1
    BY <1>1 DEF sta
  <2> QED BY <2>1, <2>2, Bases, SmallMod
<1>13. GetU32(pl, 3) = n
  <2>1. GetU32(pl, 3) = n % Base4
    BY <1>3, <1>11, <1>a, GetPutU32
  <2>2. n \in 0 .. Base4 - 1
    BY <1>3, <1>5, <1>9, Bases
  <2> QED BY <2>1, <2>2, Bases, SmallMod
<1>14. SubSeq(pl, 7, 6 + n) = err
  <2>1. 7 + Len(err) - 1 <= Len(pl) /\ 7 + Len(err) - 1 = 6 + n /\ 7 \in Nat \ {0}
    BY <1>3, <1>9, <1>a
  <2>2. SubSeq(pl, 7, 7 + Len(err) - 1) = err
    BY <2>1, <1>1, <1>9, <1>11, AtSubSeq
  <2> QED BY <2>1, <2>2
<1>15. Skip(pl, 6 + n) = res
  <2>1. Skip(pl, Len(s)) = res
    BY <1>2, <1>6, <1>8, SkipCat
  <2> QED BY <2>1, <1>8
<1>16. ~(Len(pl) < 7) /\ ~(Len(pl) < 6 + n)
  BY <1>3, <1>9, <1>10
<1>17. f.payload = pl /\ f.req_id = r.req_id
  BY DEF pl
<1> DEFINE R(x) == [type |-> RESPONSE, req_id |-> r.req_id, status |-> sta,
                    err_msg |-> err, has_result |-> x.has, result |-> x.val]
           g == [has |-> r.has_result, val |-> r.result]
<1>18. ParseResponse(f) = {R(x) : x \in {g}}
  BY <1>10, <1>12, <1>13, <1>14, <1>15, <1>16, <1>17 DEF ParseResponse
<1>19. R(g) = r
  BY <1>1 DEF sta
<1>20. ParseResponse(f) = {r}
  <2> HIDE DEF R, g
  <2> QED BY <1>18, <1>19
<1> QED BY <1>20
-----------------------------------------------------------------------------
(* The body of a frame: six fields of fixed length, method and payload.    *)

LEMMA Joined ==
    ASSUME NEW s \in Seq(Byte), NEW t \in Seq(Byte), NEW b
    PROVE  /\ s \o t \in Seq(Byte) /\ Len(s \o t) = Len(s) + Len(t)
           /\ At(b, 1, s \o t) <=> At(b, 1, s) /\ At(b, 1 + Len(s), t)
  BY CatBytes, AtCat

LEMMA MagicBytes ==
    /\ Magic \in Seq(Byte) /\ Len(Magic) = 4
    /\ \A type \in Byte : /\ <<Version, type>> \in Seq(Byte) /\ Len(<<Version, type>>) = 2
                          /\ <<Version, type>>[1] = Version /\ <<Version, type>>[2] = type
    /\ <<Version>> \in Seq(Byte) /\ Len(<<Version>>) = 1 /\ <<Version>>[1] = Version
    /\ Append(Magic, Version) = Magic \o <<Version>>
<1>1. Magic \in Seq(Byte) /\ Len(Magic) = 4 /\ Version \in Byte
  <2>1. Magic \in [1 .. 4 -> Byte] /\ Version \in Byte /\ 4 \in Nat
    BY CodecAssumption DEF Byte
  <2>2. Magic \in Seq(Byte)
    BY <2>1, SeqDef
  <2>3. DOMAIN Magic = 1 .. 4
    BY <2>1
  <2> QED BY <2>1, <2>2, <2>3, LenProperties
<1>2. Append(Magic, Version) = Magic \o <<Version>>
  BY <1>1, AppendIsConcat
<1> QED BY <1>1, <1>2

(* b has these fields, in their places, and nothing else.                  *)
LaidOut(b, type, id, method, payload) ==
    /\ Len(b) = 18 + Len(method) + Len(payload)
    /\ At(b, 1, Magic) /\ b[5] = Version /\ b[6] = type
    /\ At(b, 7, PutU32(id)) /\ At(b, 11, PutU32(Len(method)))
    /\ At(b, 15, PutU32(Len(payload))) /\ At(b, 19, method)
    /\ At(b, 19 + Len(method), payload)

LEMMA BodyIs ==
    ASSUME NEW type \in Byte, NEW id \in Int, NEW method \in Seq(Byte), NEW payload \in Seq(Byte)
    PROVE  /\ Body(type, id, method, payload) \in Seq(Byte)
           /\ Len(Body(type, id, method, payload)) = 18 + Len(method) + Len(payload)
           /\ Len(method) \in Nat /\ Len(payload) \in Nat
           /\ \A b \in Seq(Byte) : b = Body(type, id, method, payload)
                                    <=> LaidOut(b, type, id, method, payload)
<1> DEFINE n6 == Len(method)
           n7 == Len(payload)
           s2 == <<Version, type>>
           s3 == PutU32(id)
           s4 == PutU32(n6)
           s5 == PutU32(n7)
           c == Body(type, id, method, payload)
<1>1. n6 \in Nat /\ n7 \in Nat
  BY LenProperties
<1>2. /\ s3 \in Seq(Byte) /\ Len(s3) = 4 /\ s4 \in Seq(Byte) /\ Len(s4) = 4
      /\ s5 \in Seq(Byte) /\ Len(s5) = 4
  <2> HIDE DEF n6, n7
  <2> QED BY <1>1, PutU32Bytes
<1>3. /\ Magic \in Seq(Byte) /\ Len(Magic) = 4
      /\ s2 \in Seq(Byte) /\ Len(s2) = 2 /\ s2[1] = Version /\ s2[2] = type
  BY MagicBytes
<1>4. c = Magic \o s2 \o s3 \o s4 \o s5 \o method \o payload
  BY DEF Body
<1> HIDE DEF s2, s3, s4, s5, c
<1>5. \A b : /\ c \in Seq(Byte) /\ Len(c) = 18 + n6 + n7
             /\ At(b, 1, c) <=> /\ At(b, 1, Magic) /\ At(b, 5, s2) /\ At(b, 7, s3)
                                /\ At(b, 11, s4) /\ At(b, 15, s5) /\ At(b, 19, method)
                                /\ At(b, 19 + n6, payload)
  <2> TAKE b
  <2> DEFINE t2 == Magic \o s2
             t3 == t2 \o s3
             t4 == t3 \o s4
             t5 == t4 \o s5
             t6 == t5 \o method
             t7 == t6 \o payload
  <2>1. /\ t2 = Magic \o s2 /\ t3 = t2 \o s3 /\ t4 = t3 \o s4 /\ t5 = t4 \o s5
        /\ t6 = t5 \o method /\ t7 = t6 \o payload
    OBVIOUS
  <2>9. t7 = c
    BY <1>4 DEF t2, t3, t4, t5, t6
  <2> HIDE DEF t2, t3, t4, t5, t6, t7
  <2>2. /\ t2 \in Seq(Byte) /\ Len(t2) = 6
        /\ At(b, 1, t2) <=> At(b, 1, Magic) /\ At(b, 1 + 4, s2)
    <3>1. /\ t2 \in Seq(Byte) /\ Len(t2) = Len(Magic) + Len(s2)
          /\ At(b, 1, t2) <=> At(b, 1, Magic) /\ At(b, 1 + Len(Magic), s2)
      <4>1. Magic \in Seq(Byte) /\ s2 \in Seq(Byte)
        BY <1>3
      <4>2. /\ Magic \o s2 \in Seq(Byte) /\ Len(Magic \o s2) = Len(Magic) + Len(s2)
            /\ At(b, 1, Magic \o s2) <=> At(b, 1, Magic) /\ At(b, 1 + Len(Magic), s2)
        BY <4>1, Joined, Zenon
      <4>3. t2 = Magic \o s2
        BY <2>1
      <4> QED BY <4>2, <4>3
    <3>2. Len(Magic) = 4
      BY <1>3
    <3> QED BY <3>1, <3>2, <1>1, <1>2, <1>3
  <2>3. /\ t3 \in Seq(Byte) /\ Len(t3) = 10
        /\ At(b, 1, t3) <=> At(b, 1, t2) /\ At(b, 1 + 6, s3)
    <3>1. /\ t3 \in Seq(Byte) /\ Len(t3) = Len(t2) + Len(s3)
          /\ At(b, 1, t3) <=> At(b, 1, t2) /\ At(b, 1 + Len(t2), s3)
      <4>1. t2 \in Seq(Byte) /\ s3 \in Seq(Byte)
        BY <2>2, <1>2
      <4>2. /\ t2 \o s3 \in Seq(Byte) /\ Len(t2 \o s3) = Len(t2) + Len(s3)
            /\ At(b, 1, t2 \o s3) <=> At(b, 1, t2) /\ At(b, 1 + Len(t2), s3)
        BY <4>1, Joined, Zenon
      <4>3. t3 = t2 \o s3
        BY <2>1
      <4> QED BY <4>2, <4>3
    <3>2. Len(t2) = 6
      BY <2>2
    <3> QED BY <3>1, <3>2, <1>1, <1>2, <1>3
  <2>4. /\ t4 \in Seq(Byte) /\ Len(t4) = 14
        /\ At(b, 1, t4) <=> At(b, 1, t3) /\ At(b, 1 + 10, s4)
    <3>1. /\ t4 \in Seq(Byte) /\ Len(t4) = Len(t3) + Len(s4)
          /\ At(b, 1, t4) <=> At(b, 1, t3) /\ At(b, 1 + Len(t3), s4)
      <4>1. t3 \in Seq(Byte) /\ s4 \in Seq(Byte)
        BY <2>3, <1>2
      <4>2. /\ t3 \o s4 \in Seq(Byte) /\ Len(t3 \o s4) = Len(t3) + Len(s4)
            /\ At(b, 1, t3 \o s4) <=> At(b, 1, t3) /\ At(b, 1 + Len(t3), s4)
        BY <4>1, Joined, Zenon
      <4>3. t4 = t3 \o s4
        BY <2>1
      <4> QED BY <4>2, <4>3
    <3>2. Len(t3) = 10
      BY <2>3
    <3> QED BY <3>1, <3>2, <1>1, <1>2, <1>3
  <2>5. /\ t5 \in Seq(Byte) /\ Len(t5) = 18
        /\ At(b, 1, t5) <=> At(b, 1, t4) /\ At(b, 1 + 14, s5)
    <3>1. /\ t5 \in Seq(Byte) /\ Len(t5) = Len(t4) + Len(s5)
          /\ At(b, 1, t5) <=> At(b, 1, t4) /\ At(b, 1 + Len(t4), s5)
      <4>1. t4 \in Seq(Byte) /\ s5 \in Seq(Byte)
        BY <2>4, <1>2
      <4>2. /\ t4 \o s5 \in Seq(Byte) /\ Len(t4 \o s5) = Len(t4) + Len(s5)
            /\ At(b, 1, t4 \o s5) <=> At(b, 1, t4) /\ At(b, 1 + Len(t4), s5)
        BY <4>1, Joined, Zenon
      <4>3. t5 = t4 \o s5
        BY <2>1
      <4> QED BY <4>2, <4>3
    <3>2. Len(t4) = 14
      BY <2>4
    <3> QED BY <3>1, <3>2, <1>1, <1>2, <1>3
  <2>6. /\ t6 \in Seq(Byte) /\ Len(t6) = 18 + Len(method)
        /\ At(b, 1, t6) <=> At(b, 1, t5) /\ At(b, 1 + 18, method)
    <3>1. /\ t6 \in Seq(Byte) /\ Len(t6) = Len(t5) + Len(method)
          /\ At(b, 1, t6) <=> At(b, 1, t5) /\ At(b, 1 + Len(t5), method)
      <4>1. t5 \in Seq(Byte) /\ method \in Seq(Byte)
        BY <2>5, <1>2
      <4>2. /\ t5 \o method \in Seq(Byte) /\ Len(t5 \o method) = Len(t5) + Len(method)
            /\ At(b, 1, t5 \o method) <=> At(b, 1, t5) /\ At(b, 1 + Len(t5), method)
        BY <4>1, Joined, Zenon
      <4>3. t6 = t5 \o method
        BY <2>1
      <4> QED BY <4>2, <4>3
    <3>2. Len(t5) = 18
      BY <2>5
    <3> QED BY <3>1, <3>2, <1>1, <1>2, <1>3
  <2>7. /\ t7 \in Seq(Byte) /\ Len(t7) = (18 + Len(method)) + Len(payload)
        /\ At(b, 1, t7) <=> At(b, 1, t6) /\ At(b, 1 + (18 + Len(method)), payload)
    <3>1. /\ t7 \in Seq(Byte) /\ Len(t7) = Len(t6) + Len(payload)
          /\ At(b, 1, t7) <=> At(b, 1, t6) /\ At(b, 1 + Len(t6), payload)
      <4>1. t6 \in Seq(Byte) /\ payload \in Seq(Byte)
        BY <2>6, <1>2
      <4>2. /\ t6 \o payload \in Seq(Byte) /\ Len(t6 \o payload) = Len(t6) + Len(payload)
            /\ At(b, 1, t6 \o payload) <=> At(b, 1, t6) /\ At(b, 1 + Len(t6), payload)
        BY <4>1, Joined, Zenon
      <4>3. t7 = t6 \o payload
        BY <2>1
      <4> QED BY <4>2, <4>3
    <3>2. Len(t6) = (18 + Len(method))
      BY <2>6
    <3> QED BY <3>1, <3>2, <1>1, <1>2, <1>3
  <2>8. /\ 1 + 4 = 5 /\ 1 + 6 = 7 /\ 1 + 10 = 11 /\ 1 + 14 = 15 /\ 1 + 18 = 19
        /\ 1 + (18 + Len(method)) = 19 + Len(method)
        /\ (18 + Len(method)) + Len(payload) = 18 + Len(method) + Len(payload)
    BY <1>1 DEF n6, n7
  <2> QED BY <2>2, <2>3, <2>4, <2>5, <2>6, <2>7, <2>8, <2>9
<1>6. \A b : At(b, 5, s2) <=> b[5] = Version /\ b[6] = type
  <2> TAKE b
  <2>1. At(b, 5, s2) <=> \A i \in 1 .. 2 : b[5 + i - 1] = s2[i]
    BY <1>3 DEF At
  <2>2. 5 + 1 - 1 = 5 /\ 5 + 2 - 1 = 6 /\ \A i \in 1 .. 2 : i = 1 \/ i = 2
    OBVIOUS
  <2> QED BY <2>1, <2>2, <1>3
<1>7. \A b \in Seq(Byte) : Len(b) = Len(c) => (At(b, 1, c) <=> b = c)
  BY <1>5, AtWhole
<1> HIDE DEF n6, n7
<1>8. \A b \in Seq(Byte) :
         /\ b = c => /\ At(b, 1, Magic) /\ b[5] = Version /\ b[6] = type
                     /\ At(b, 7, s3) /\ At(b, 11, s4) /\ At(b, 15, s5)
                     /\ At(b, 19, method) /\ At(b, 19 + n6, payload)
         /\ /\ Len(b) = 18 + n6 + n7
            /\ At(b, 1, Magic) /\ b[5] = Version /\ b[6] = type
            /\ At(b, 7, s3) /\ At(b, 11, s4) /\ At(b, 15, s5)
            /\ At(b, 19, method) /\ At(b, 19 + n6, payload)
            => b = c
  BY <1>5, <1>6, <1>7
<1>9. \A b \in Seq(Byte) : b = c <=> LaidOut(b, type, id, method, payload)
  <2>1. s3 = PutU32(id) /\ s4 = PutU32(Len(method)) /\ s5 = PutU32(Len(payload))
        /\ n6 = Len(method) /\ n7 = Len(payload)
    BY DEF s3, s4, s5, n6, n7
  <2>2. \A b \in Seq(Byte) : b = c => Len(b) = 18 + n6 + n7
    BY <1>5
  <2> QED BY <2>1, <2>2, <1>8 DEF LaidOut
<1> QED BY <1>1, <1>5, <1>9 DEF c, n6, n7

LEMMA HeaderIs ==
    ASSUME NEW b \in Seq(Byte), Len(b) >= HeaderLen
    PROVE  SubSeq(b, 1, 5) = Append(Magic, Version) <=> At(b, 1, Magic) /\ b[5] = Version
<1> DEFINE v == <<Version>>
           s == Magic \o v
<1>1. /\ Magic \in Seq(Byte) /\ Len(Magic) = 4 /\ v \in Seq(Byte) /\ Len(v) = 1
      /\ v[1] = Version /\ Append(Magic, Version) = s
  BY MagicBytes
<1> HIDE DEF v
<1>2. s \in Seq(Byte) /\ Len(s) = 5
  <2>1. s \in Seq(Byte) /\ Len(s) = Len(Magic) + Len(v)
    BY <1>1, CatBytes
  <2> QED BY <2>1, <1>1
<1>3. At(b, 1, s) <=> At(b, 1, Magic) /\ At(b, 1 + 4, v)
  BY <1>1, AtCat
<1> HIDE DEF s
<1>4. At(b, 1, s) <=> SubSeq(b, 1, 1 + 5 - 1) = s
  <2>1. 1 \in Nat \ {0} /\ 1 + Len(s) - 1 <= Len(b)
    BY <1>2, LenProperties DEF HeaderLen
  <2>2. At(b, 1, s) <=> SubSeq(b, 1, 1 + Len(s) - 1) = s
    BY <1>2, <2>1, AtSubSeq, Zenon
  <2> QED BY <1>2, <2>2
<1>5. At(b, 5, v) <=> b[5] = Version
  <2>1. 5 + 1 - 1 = 5 /\ \A i \in 1 .. Len(v) : i = 1
    BY <1>1
  <2> QED BY <2>1, <1>1 DEF At
<1>6. 1 + 4 = 5 /\ 1 + 5 - 1 = 5
  OBVIOUS
<1> QED BY <1>1, <1>3, <1>4, <1>5, <1>6

LEMMA FieldsTaken ==
    ASSUME NEW b \in Seq(Byte), NEW n \in Nat, NEW k \in Nat, Len(b) = HeaderLen + n + k
    PROVE  /\ SubSeq(b, HeaderLen + 1, HeaderLen + n) \in Seq(Byte)
           /\ Len(SubSeq(b, HeaderLen + 1, HeaderLen + n)) = n
           /\ At(b, 19, SubSeq(b, HeaderLen + 1, HeaderLen + n))
           /\ Skip(b, HeaderLen + n) \in Seq(Byte)
           /\ Len(Skip(b, HeaderLen + n)) = k
           /\ At(b, 19 + n, Skip(b, HeaderLen + n))
           /\ \A s \in Seq(Byte) : Len(s) = n /\ At(b, 19, s)
                 => SubSeq(b, HeaderLen + 1, HeaderLen + n) = s
           /\ \A s \in Seq(Byte) : Len(s) = k /\ At(b, 19 + n, s)
                 => Skip(b, HeaderLen + n) = s
<1> DEFINE m == SubSeq(b, HeaderLen + 1, HeaderLen + n)
           p == Skip(b, HeaderLen + n)
<1>1. HeaderLen = 18 /\ HeaderLen + 1 = 19 /\ HeaderLen + 1 \in Nat \ {0}
  BY DEF HeaderLen
<1>2. \A i \in 1 .. Len(b) : b[i] \in Byte
  BY ElementOfSeq
<1>3. /\ m \in Seq(Byte) /\ Len(m) = n
      /\ \A i \in 1 .. n : m[i] = b[19 + i - 1]
  <2>1. \A i \in HeaderLen + 1 .. HeaderLen + n : b[i] \in Byte
    BY <1>1, <1>2
  <2>2. HeaderLen + 1 \in Int /\ HeaderLen + n \in Int
    BY <1>1
  <2> DEFINE lo == HeaderLen + 1
             hi == HeaderLen + n
  <2>a. lo \in Int /\ hi \in Int /\ (\A i \in lo .. hi : b[i] \in Byte) /\ m = SubSeq(b, lo, hi)
    BY <2>1, <2>2
  <2>b. lo = HeaderLen + 1 /\ hi = HeaderLen + n
    OBVIOUS
  <2> HIDE DEF lo, hi, m
  <2>c. /\ SubSeq(b, lo, hi) \in Seq(Byte)
        /\ Len(SubSeq(b, lo, hi)) = IF lo <= hi THEN hi - lo + 1 ELSE 0
        /\ \A i \in 1 .. hi - lo + 1 : SubSeq(b, lo, hi)[i] = b[lo + i - 1]
    BY <2>a, SubSeqProperties
  <2>d. lo = 19 /\ hi = 18 + n /\ hi - lo + 1 = n
    BY <2>b, <1>1
  <2>e. Len(m) = IF lo <= hi THEN n ELSE 0
    BY <2>a, <2>c, <2>d
  <2>f. Len(m) = n
    BY <2>d, <2>e
  <2>g. \A i \in 1 .. n : m[i] = b[19 + i - 1]
    BY <2>a, <2>c, <2>d
  <2> QED BY <2>a, <2>c, <2>f, <2>g
<1>4. /\ p \in Seq(Byte) /\ Len(p) = k
      /\ \A i \in 1 .. k : p[i] = b[19 + n + i - 1]
  <2>1. HeaderLen + n \in 0 .. Len(b)
    BY <1>1
  <2>2. /\ p \in Seq(Byte) /\ Len(p) = Len(b) - (HeaderLen + n)
        /\ \A i \in 1 .. Len(b) - (HeaderLen + n) : p[i] = b[HeaderLen + n + i]
    BY <2>1, SkipBytes
  <2> HIDE DEF p
  <2>3. Len(b) - (HeaderLen + n) = k /\ \A i \in 1 .. k : HeaderLen + n + i = 19 + n + i - 1
    BY <1>1
  <2> QED BY <2>2, <2>3
<1> HIDE DEF m, p
<1>5. At(b, 19, m) /\ At(b, 19 + n, p)
  BY <1>3, <1>4 DEF At
<1>6. ASSUME NEW s \in Seq(Byte), Len(s) = n, At(b, 19, s) PROVE m = s
  <2>1. \A i \in 1 .. Len(m) : m[i] = s[i]
    BY <1>3, <1>6 DEF At
  <2> QED BY <2>1, <1>3, <1>6, SeqEqual
<1>7. ASSUME NEW s \in Seq(Byte), Len(s) = k, At(b, 19 + n, s) PROVE p = s
  <2>1. \A i \in 1 .. Len(p) : p[i] = s[i]
    BY <1>4, <1>7 DEF At
  <2> QED BY <2>1, <1>4, <1>7, SeqEqual
<1> QED BY <1>3, <1>4, <1>5, <1>6, <1>7 DEF m, p

(* A body is taken apart into what it was put together from ...            *)
LEMMA BodyParsed ==
    ASSUME NEW type \in Byte, NEW id \in 0 .. Base4 - 1, NEW method \in Seq(Byte),
           NEW payload \in Seq(Byte), Len(Body(type, id, method, payload)) < Base4
    PROVE  ParseBody(Body(type, id, method, payload)) =
              {[type |-> type, req_id |-> id, method |-> method, payload |-> payload]}
<1> DEFINE b == Body(type, id, method, payload)
           n == Len(method)
           k == Len(payload)
<1>1. id \in Int
  BY Bases
<1>0. /\ b \in Seq(Byte) /\ Len(b) = 18 + n + k /\ n \in Nat /\ k \in Nat
      /\ LaidOut(b, type, id, method, payload)
  BY <1>1, BodyIs
<1>2. /\ b \in Seq(Byte) /\ Len(b) = 18 + n + k /\ n \in Nat /\ k \in Nat
      /\ At(b, 1, Magic) /\ b[5] = Version /\ b[6] = type
      /\ At(b, 7, PutU32(id)) /\ At(b, 11, PutU32(n)) /\ At(b, 15, PutU32(k))
      /\ At(b, 19, method) /\ At(b, 19 + n, payload)
  BY <1>0 DEF LaidOut
<1>3. Len(b) < Base4
  OBVIOUS
<1> HIDE DEF b, n, k
<1>4. n \in 0 .. Base4 - 1 /\ k \in 0 .. Base4 - 1
  BY <1>2, <1>3, Bases
<1>5. GetU32(b, 7) = id /\ GetU32(b, 11) = n /\ GetU32(b, 15) = k
  <2>1. /\ GetU32(b, 7) = id % Base4 /\ GetU32(b, 11) = n % Base4
        /\ GetU32(b, 15) = k % Base4
    BY <1>1, <1>2, GetPutU32
  <2>2. id % Base4 = id /\ n % Base4 = n /\ k % Base4 = k
    BY <1>4, Bases, SmallMod
  <2> QED BY <2>1, <2>2
<1>6. Len(b) = HeaderLen + n + k /\ Len(b) >= HeaderLen
  BY <1>2 DEF HeaderLen
<1>7. SubSeq(b, 1, 5) = Append(Magic, Version)
  BY <1>2, <1>6, HeaderIs
<1>8. SubSeq(b, HeaderLen + 1, HeaderLen + n) = method
  BY <1>2, <1>6, FieldsTaken DEF n
<1>9. Skip(b, HeaderLen + n) = payload
  BY <1>2, <1>6, FieldsTaken DEF k
<1>10. ~(Len(b) < HeaderLen)
  <2>1. Len(b) \in Nat
    BY <1>2
  <2> QED BY <2>1, <1>6 DEF HeaderLen
<1>11. ParseBody(b) = {[type |-> type, req_id |-> id, method |-> method, payload |-> payload]}
  BY <1>2, <1>5, <1>6, <1>7, <1>8, <1>9, <1>10 DEF ParseBody
<1> QED BY <1>11 DEF b

(* ... and what a body is taken apart into puts it together again.         *)
LEMMA ParsedBody ==
    ASSUME NEW b \in Seq(Byte), NEW f \in ParseBody(b)
    PROVE  /\ f.type \in Byte /\ f.req_id \in 0 .. Base4 - 1
           /\ f.method \in Seq(Byte) /\ f.payload \in Seq(Byte)
           /\ b = Body(f.type, f.req_id, f.method, f.payload)
<1> DEFINE n == GetU32(b, 11)
           k == GetU32(b, 15)
           id == GetU32(b, 7)
           m == SubSeq(b, HeaderLen + 1, HeaderLen + n)
           p == Skip(b, HeaderLen + n)
<1>1. /\ ~(Len(b) < HeaderLen) /\ SubSeq(b, 1, 5) = Append(Magic, Version)
      /\ HeaderLen + n + k = Len(b)
      /\ f = [type |-> b[6], req_id |-> id, method |-> m, payload |-> p]
  BY DEF ParseBody, Throws
<1>2. Len(b) \in Nat /\ Len(b) >= 18 /\ HeaderLen = 18
  <2>1. Len(b) \in Nat
    BY LenProperties
  <2> QED BY <2>1, <1>1 DEF HeaderLen
<1>3. \A i \in 1 .. Len(b) : b[i] \in Byte
  BY ElementOfSeq
<1>4. /\ n \in 0 .. Base4 - 1 /\ At(b, 11, PutU32(n))
      /\ k \in 0 .. Base4 - 1 /\ At(b, 15, PutU32(k))
      /\ id \in 0 .. Base4 - 1 /\ At(b, 7, PutU32(id))
  <2>1. /\ \A i \in 7 .. 7 + 3 : b[i] \in Byte
        /\ \A i \in 11 .. 11 + 3 : b[i] \in Byte
        /\ \A i \in 15 .. 15 + 3 : b[i] \in Byte
    BY <1>2, <1>3
  <2> QED BY <2>1, PutGetU32
<1> DEFINE t == b[6]
<1>5. t \in Byte
  BY <1>2, <1>3
<1>6. n \in Nat /\ k \in Nat /\ id \in Int
  BY <1>4, Bases
<1> HIDE DEF n, k, id, t
<1>7. At(b, 1, Magic) /\ b[5] = Version
  BY <1>1, <1>2, HeaderIs
<1>8. /\ m \in Seq(Byte) /\ Len(m) = n /\ At(b, 19, m)
      /\ p \in Seq(Byte) /\ Len(p) = k /\ At(b, 19 + n, p)
  <2>1. Len(b) = HeaderLen + n + k
    BY <1>1
  <2>2. /\ SubSeq(b, HeaderLen + 1, HeaderLen + n) \in Seq(Byte)
        /\ Len(SubSeq(b, HeaderLen + 1, HeaderLen + n)) = n
        /\ At(b, 19, SubSeq(b, HeaderLen + 1, HeaderLen + n))
        /\ Skip(b, HeaderLen + n) \in Seq(Byte)
        /\ Len(Skip(b, HeaderLen + n)) = k
        /\ At(b, 19 + n, Skip(b, HeaderLen + n))
    BY <2>1, <1>6, FieldsTaken
  <2> QED BY <2>2
<1> HIDE DEF m, p
<1>9. b[6] = t /\ Len(b) = 18 + n + k
  BY <1>1, <1>2 DEF t
<1>10. b = Body(t, id, m, p)
  <2>1. LaidOut(b, t, id, m, p)
    BY <1>4, <1>7, <1>8, <1>9 DEF LaidOut
  <2> QED BY <2>1, <1>5, <1>6, <1>8, BodyIs
<1>11. f.type = t /\ f.req_id = id /\ f.method = m /\ f.payload = p
  BY <1>1 DEF t
<1> QED BY <1>4, <1>5, <1>8, <1>10, <1>11
-----------------------------------------------------------------------------
(* The frame: the length of the body and the body.                         *)

WellFramed(s) == s \in Seq(Byte) /\ Len(s) >= 4 /\ GetU32(s, 1) = Len(s) - 4

LEMMA Framed ==
    ASSUME NEW body \in Seq(Byte), Len(body) < Base4
    PROVE  /\ WellFramed(PutU32(Len(body)) \o body)
           /\ Skip(PutU32(Len(body)) \o body, 4) = body
           /\ Len(PutU32(Len(body)) \o body) = 4 + Len(body)
<1> DEFINE n == Len(body)
           c == PutU32(n)
           s == c \o body
<1>1. n \in Nat
  BY LenProperties
<1>2. n < Base4
  OBVIOUS
<1> HIDE DEF n
<1>3. c \in Seq(Byte) /\ Len(c) = 4
  BY <1>1, PutU32Bytes
<1>4. At(s, 1, c)
  <2> HIDE DEF c
  <2> QED BY <1>3, FrontAt
<1>5. s \in Seq(Byte) /\ Len(s) = 4 + n
  <2> HIDE DEF c
  <2>1. s \in Seq(Byte) /\ Len(s) = Len(c) + Len(body)
    BY <1>3, CatBytes
  <2> QED BY <2>1, <1>3 DEF n
<1>6. Skip(s, 4) = body
  <2> HIDE DEF c
  <2>1. Skip(s, Len(c)) = body
    BY <1>3, SkipCat
  <2> QED BY <2>1, <1>3
<1> HIDE DEF s
<1>7. GetU32(s, 1) = n
  <2>1. GetU32(s, 1) = n % Base4
    BY <1>1, <1>4, GetPutU32
  <2>2. n \in 0 .. Base4 - 1
    BY <1>1, <1>2, Bases
  <2> QED BY <2>1, <2>2, Bases, SmallMod
<1>8. WellFramed(s)
  BY <1>1, <1>5, <1>7 DEF WellFramed
<1> QED BY <1>5, <1>6, <1>8 DEF s, n

LEMMA Reframed ==
    ASSUME NEW s, WellFramed(s)
    PROVE  /\ Skip(s, 4) \in Seq(Byte) /\ Len(Skip(s, 4)) = Len(s) - 4
           /\ s = PutU32(Len(Skip(s, 4))) \o Skip(s, 4)
<1> DEFINE n == GetU32(s, 1)
           c == PutU32(n)
<1>1. s \in Seq(Byte) /\ Len(s) \in Nat /\ Len(s) >= 4 /\ n = Len(s) - 4
  BY LenProperties DEF WellFramed
<1>2. At(s, 1, c)
  <2>1. \A i \in 1 .. 1 + 3 : s[i] \in Byte
    BY <1>1, ElementOfSeq
  <2> QED BY <2>1, PutGetU32
<1> HIDE DEF n
<1>3. c \in Seq(Byte) /\ Len(c) = 4
  <2>1. n \in Int
    BY <1>1
  <2> QED BY <2>1, PutU32Bytes
<1> HIDE DEF c
<1>4. s = c \o Skip(s, 4)
  <2>1. s = c \o Skip(s, Len(c))
    BY <1>1, <1>2, <1>3, AtFront
  <2> QED BY <2>1, <1>3
<1>5. Skip(s, 4) \in Seq(Byte) /\ Len(Skip(s, 4)) = Len(s) - 4
  <2>1. 4 \in 0 .. Len(s)
    BY <1>1
  <2> QED BY <2>1, <1>1, SkipBytes
<1> QED BY <1>1, <1>4, <1>5 DEF c

LEMMA FrameParsed ==
    ASSUME NEW type \in Byte, NEW id \in 0 .. Base4 - 1, NEW method \in Seq(Byte),
           NEW payload \in Seq(Byte), Len(Frame(type, id, method, payload)) - 4 < Base4
    PROVE  /\ WellFramed(Frame(type, id, method, payload))
           /\ Len(payload) < Base4
           /\ ParseBody(Skip(Frame(type, id, method, payload), 4)) =
                 {[type |-> type, req_id |-> id, method |-> method, payload |-> payload]}
<1> DEFINE b == Body(type, id, method, payload)
           n == Len(b)
           s == Frame(type, id, method, payload)
<1>1. /\ b \in Seq(Byte) /\ Len(b) = 18 + Len(method) + Len(payload)
      /\ Len(method) \in Nat /\ Len(payload) \in Nat
  <2>1. id \in Int
    BY Bases
  <2> QED BY <2>1, BodyIs
<1>2. s = PutU32(n) \o b
  BY DEF Frame
<1>3. Len(s) - 4 < Base4
  OBVIOUS
<1> HIDE DEF b, s
<1>4. PutU32(n) \in Seq(Byte) /\ Len(PutU32(n)) = 4 /\ n \in Int
  <2>1. n \in Int
    BY <1>1
  <2> HIDE DEF n
  <2> QED BY <2>1, PutU32Bytes
<1>5. n < Base4
  <2> DEFINE c == PutU32(n)
  <2>1. c \in Seq(Byte) /\ Len(c) = 4 /\ s = c \o b
    BY <1>2, <1>4
  <2> HIDE DEF c
  <2>2. Len(s) = Len(c) + Len(b)
    BY <1>1, <2>1, CatBytes
  <2>3. Len(s) = 4 + n
    BY <2>1, <2>2
  <2> HIDE DEF n
  <2> QED BY <2>3, <1>3, <1>4, Bases
<1>6. WellFramed(s) /\ Skip(s, 4) = b
  BY <1>1, <1>2, <1>5, Framed
<1>7. Len(payload) < Base4
  BY <1>1, <1>5, Bases
<1>8. ParseBody(b) = {[type |-> type, req_id |-> id, method |-> method, payload |-> payload]}
  BY <1>5, BodyParsed DEF b
<1> QED BY <1>6, <1>7, <1>8 DEF s

LEMMA TagBytes == REQUEST \in Byte /\ RESPONSE \in Byte
  BY Bases DEF REQUEST, RESPONSE, Byte

(* What is built is received as what it was built from.                    *)
THEOREM BuiltParsed ==
    ASSUME NEW m \in Messages
    PROVE  /\ WellFramed(Build(m))
           /\ \E f : ParseBody(Skip(Build(m), 4)) = {f} /\ Parse(f) = {m}
<1>0. m \in Requests \cup Responses /\ Len(Build(m)) - 4 < Base4
  BY WireAssumption
<1>1. CASE m \in Requests
  <2> DEFINE pl == EncodeRequest(m)
             f == [type |-> REQUEST, req_id |-> m.req_id, method |-> m.method, payload |-> pl]
  <2>1. m.type = REQUEST /\ m.req_id \in 0 .. Base4 - 1 /\ m.method \in Seq(Byte)
        /\ m.args \in Seq(Value)
    BY <1>1, RequestTyped
  <2>2. Build(m) = Frame(REQUEST, m.req_id, m.method, pl)
    BY <2>1 DEF Build
  <2>3. pl \in Seq(Byte)
    BY <2>1, EncodeRequestBytes
  <2>4. /\ WellFramed(Build(m)) /\ Len(pl) < Base4
        /\ ParseBody(Skip(Build(m), 4)) = {f}
    <3> DEFINE id == m.req_id
               me == m.method
    <3>1. Len(Frame(REQUEST, id, me, pl)) - 4 < Base4
      BY <1>0, <2>2
    <3>2. id \in 0 .. Base4 - 1 /\ me \in Seq(Byte) /\ REQUEST \in Byte
      BY <2>1, TagBytes
    <3> HIDE DEF pl, id, me
    <3>3. /\ WellFramed(Frame(REQUEST, id, me, pl)) /\ Len(pl) < Base4
          /\ ParseBody(Skip(Frame(REQUEST, id, me, pl), 4)) =
                {[type |-> REQUEST, req_id |-> id, method |-> me, payload |-> pl]}
      BY <3>1, <3>2, <2>3, FrameParsed
    <3> QED BY <3>3, <2>2 DEF id, me
  <2>5. ParseRequest(f) = {m}
    BY <1>1, <2>4, RequestParsed
  <2>6. f.type = REQUEST
    OBVIOUS
  <2> HIDE DEF f
  <2>7. Parse(f) = {m}
    BY <2>5, <2>6 DEF Parse, REQUEST, RESPONSE
  <2> QED BY <2>4, <2>7
<1>2. CASE m \in Responses
  <2> DEFINE pl == EncodeResponse(m)
             f == [type |-> RESPONSE, req_id |-> m.req_id, method |-> <<>>, payload |-> pl]
  <2>1. m.type = RESPONSE /\ m.req_id \in 0 .. Base4 - 1
    BY <1>2, ResponseTyped
  <2>2. Build(m) = Frame(RESPONSE, m.req_id, <<>>, pl)
    BY <2>1 DEF Build, REQUEST, RESPONSE
  <2>3. pl \in Seq(Byte)
    BY <1>2, EncodeResponseBytes
  <2>4. /\ WellFramed(Build(m)) /\ Len(pl) < Base4
        /\ ParseBody(Skip(Build(m), 4)) = {f}
    <3> DEFINE id == m.req_id
               me == <<>>
    <3>1. Len(Frame(RESPONSE, id, me, pl)) - 4 < Base4
      BY <1>0, <2>2
    <3>2. id \in 0 .. Base4 - 1 /\ me \in Seq(Byte) /\ RESPONSE \in Byte
      BY <2>1, TagBytes
    <3> HIDE DEF pl, id, me
    <3>3. /\ WellFramed(Frame(RESPONSE, id, me, pl)) /\ Len(pl) < Base4
          /\ ParseBody(Skip(Frame(RESPONSE, id, me, pl), 4)) =
                {[type |-> RESPONSE, req_id |-> id, method |-> me, payload |-> pl]}
      BY <3>1, <3>2, <2>3, FrameParsed
    <3> QED BY <3>3, <2>2 DEF id, me
  <2>5. f.type = RESPONSE /\ f.req_id = m.req_id /\ f.payload = EncodeResponse(m)
    OBVIOUS
  <2>6. Len(EncodeResponse(m)) < Base4
    BY <2>4
  <2> HIDE DEF f
  <2>7. ParseResponse(f) = {m}
    BY <1>2, <2>5, <2>6, ResponseParsed
  <2>8. Parse(f) = {m}
    BY <2>5, <2>7 DEF Parse, REQUEST, RESPONSE
  <2> QED BY <2>4, <2>8
<1> QED BY <1>0, <1>1, <1>2

(* A request that is accepted has been built from nothing else.            *)
THEOREM ParsedBuilt ==
    ASSUME NEW s, WellFramed(s), NEW f \in ParseBody(Skip(s, 4)), f.type = REQUEST,
           NEW r \in ParseRequest(f)
    PROVE  Build(r) = s
<1> DEFINE b == Skip(s, 4)
<1>1. b \in Seq(Byte) /\ s = PutU32(Len(b)) \o b
  BY Reframed
<1>2. f \in ParseBody(b)
  OBVIOUS
<1> HIDE DEF b
<1>3. /\ f.payload \in Seq(Byte)
      /\ b = Body(f.type, f.req_id, f.method, f.payload)
  BY <1>1, <1>2, ParsedBody
<1>4. /\ r.type = REQUEST /\ r.req_id = f.req_id /\ r.method = f.method
      /\ EncodeRequest(r) = f.payload
  BY <1>3, ParsedRequest
<1>5. Build(r) = Frame(REQUEST, f.req_id, f.method, f.payload)
  BY <1>4 DEF Build
<1>6. b = Body(REQUEST, f.req_id, f.method, f.payload)
  BY <1>3
<1> QED BY <1>1, <1>5, <1>6 DEF Frame
-----------------------------------------------------------------------------
(* The stream: the frames sent, one after the other, and where the bytes   *)
(* stand that are still on their way.                                      *)

LEMMA AtTake ==
    ASSUME NEW b, NEW at \in Nat, NEW s \in Seq(Byte), NEW n \in 0 .. Len(s)
    PROVE  /\ SubSeq(s, 1, n) \in Seq(Byte) /\ Len(SubSeq(s, 1, n)) = n
           /\ \A i \in 1 .. n : SubSeq(s, 1, n)[i] = s[i]
           /\ Skip(s, n) \in Seq(Byte) /\ Len(Skip(s, n)) = Len(s) - n
           /\ At(b, at, s) => At(b, at, SubSeq(s, 1, n)) /\ At(b, at + n, Skip(s, n))
<1> DEFINE u == SubSeq(s, 1, n)
           t == Skip(s, n)
<1>1. Len(s) \in Nat /\ n \in Nat /\ \A i \in 1 .. Len(s) : s[i] \in Byte
  BY LenProperties, ElementOfSeq
<1>2. u \in Seq(Byte) /\ Len(u) = n /\ \A i \in 1 .. n : u[i] = s[i]
  <2>1. /\ u \in Seq(Byte) /\ Len(u) = IF 1 <= n THEN n - 1 + 1 ELSE 0
        /\ \A i \in 1 .. n - 1 + 1 : u[i] = s[1 + i - 1]
    <3>1. \A i \in 1 .. n : s[i] \in Byte
      BY <1>1
    <3> QED BY <1>1, <3>1, SubSeqProperties
  <2> HIDE DEF u
  <2>2. n - 1 + 1 = n /\ \A i \in 1 .. n : 1 + i - 1 = i
    BY <1>1
  <2> QED BY <1>1, <2>1, <2>2
<1>3. /\ t \in Seq(Byte) /\ Len(t) = Len(s) - n
      /\ \A i \in 1 .. Len(s) - n : t[i] = s[n + i]
  BY SkipBytes
<1> HIDE DEF u, t
<1>4. ASSUME At(b, at, s) PROVE At(b, at, u) /\ At(b, at + n, t)
  <2>1. \A i \in 1 .. Len(s) : b[at + i - 1] = s[i]
    BY <1>4 DEF At
  <2>2. At(b, at, u)
    BY <2>1, <1>1, <1>2 DEF At
  <2>3. At(b, at + n, t)
    <3> SUFFICES ASSUME NEW i \in 1 .. Len(t) PROVE b[at + n + i - 1] = t[i]
      BY DEF At
    <3>1. n + i \in 1 .. Len(s) /\ i \in 1 .. Len(s) - n /\ at + (n + i) - 1 = at + n + i - 1
      BY <1>1, <1>3
    <3> QED BY <3>1, <2>1, <1>3
  <2> QED BY <2>2, <2>3
<1> QED BY <1>2, <1>3, <1>4 DEF u, t

LEMMA AtEqual ==
    ASSUME NEW b, NEW at \in Nat, NEW s \in Seq(Byte), NEW t \in Seq(Byte),
           Len(s) = Len(t), At(b, at, s), At(b, at, t)
    PROVE  s = t
<1>1. \A i \in 1 .. Len(s) : s[i] = t[i]
  BY DEF At
<1> QED BY <1>1, SeqEqual

LEMMA AtExtend ==
    ASSUME NEW b \in Seq(Byte), NEW x \in Seq(Byte), NEW s \in Seq(Byte),
           NEW at \in Nat \ {0}, at + Len(s) - 1 <= Len(b), At(b, at, s)
    PROVE  At(b \o x, at, s)
<1>1. /\ Len(b) \in Nat /\ Len(x) \in Nat /\ Len(s) \in Nat
      /\ \A i \in 1 .. Len(b) + Len(x) : (b \o x)[i] = IF i <= Len(b) THEN b[i] ELSE x[i - Len(b)]
  BY LenProperties, ConcatProperties
<1>2. ASSUME NEW i \in 1 .. Len(s) PROVE (b \o x)[at + i - 1] = s[i]
  <2>1. at + i - 1 \in 1 .. Len(b) + Len(x) /\ at + i - 1 <= Len(b)
    BY <1>1
  <2>2. b[at + i - 1] = s[i]
    BY DEF At
  <2> QED BY <1>1, <2>1, <2>2
<1> QED BY <1>2 DEF At

LEMMA LengthField ==
    ASSUME NEW b, NEW c, \A i \in 1 .. 4 : b[i] = c[i]
    PROVE  GetU32(b, 1) = GetU32(c, 1)
<1>1. /\ b[1] = c[1] /\ b[1 + 1] = c[1 + 1]
      /\ b[1 + 2] = c[1 + 2] /\ b[1 + 2 + 1] = c[1 + 2 + 1]
  <2>1. 1 + 1 = 2 /\ 1 + 2 = 3 /\ 1 + 2 + 1 = 4
    OBVIOUS
  <2>2. b[1] = c[1] /\ b[2] = c[2] /\ b[3] = c[3] /\ b[4] = c[4]
    OBVIOUS
  <2> QED BY <2>1, <2>2
<1> QED BY <1>1 DEF GetU32, GetU16

(* What recv_frame may return.                                             *)
Parsed == UNION {ParseBody(b) : b \in Seq(Byte)}

Typed ==
    /\ sender \in {"open", "closed", "broken"}
    /\ out \in Seq(Byte)
    /\ net \in Seq(Byte)
    /\ phase \in {"length", "body", "end", "thrown"}
    /\ left \in Nat
    /\ buf \in Seq(Byte)
    /\ sent \in Seq(Seq(Byte))
    /\ received \in Seq(Parsed)

(* The frames are the stream, cut at the places pos.                       *)
Cut(pos, stream) ==
    /\ stream \in Seq(Byte)
    /\ pos \in [1 .. Len(sent) + 1 -> 0 .. Len(stream)]
    /\ pos[1] = 0
    /\ pos[Len(sent) + 1] = Len(stream)
    /\ \A i \in 1 .. Len(sent) : /\ pos[i + 1] = pos[i] + Len(sent[i])
                                 /\ At(stream, pos[i] + 1, sent[i])

(* What has been taken out of the stream before buf.                       *)
Taken(pos) == pos[Len(received) + 1] + IF phase = "body" THEN 4 ELSE 0

(* What has been read, what is on its way and what is still to be written  *)
(* are the rest of the stream, as long as the sender has not broken off.   *)
Piped(pos, stream) ==
    /\ At(stream, Taken(pos) + 1, buf)
    /\ At(stream, Taken(pos) + Len(buf) + 1, net)
    /\ At(stream, Taken(pos) + Len(buf) + Len(net) + 1, out)
    /\ Taken(pos) + Len(buf) + Len(net) + Len(out) <= Len(stream)
    /\ sender # "broken" => Taken(pos) + Len(buf) + Len(net) + Len(out) = Len(stream)

(* How far the sender has got: into the last frame, and not to its end if  *)
(* it has broken off.                                                      *)
Reached(pos) == Taken(pos) + Len(buf) + Len(net)

Begun(pos, stream) ==
    /\ \A i \in 1 .. Len(sent) : pos[i] <= Reached(pos)
    /\ sender = "broken" => Reached(pos) < Len(stream)

(* read_n is asked for as many bytes as the frame it is in has.            *)
Wanted ==
    /\ phase = "length" => left + Len(buf) = 4
    /\ phase = "body" => /\ Len(received) < Len(sent)
                         /\ left + Len(buf) = Len(sent[Len(received) + 1]) - 4
    /\ phase = "thrown" => /\ Len(received) < Len(sent)
                           /\ ParseBody(Skip(sent[Len(received) + 1], 4)) = {}

FrameSent(s) == WellFramed(s) /\ (s \in Strange \/ \E m \in Messages : s = Build(m))

Matched ==
    /\ Len(received) <= Len(sent)
    /\ \A i \in 1 .. Len(received) : received[i] \in ParseBody(Skip(sent[i], 4))

Inv(pos, stream) ==
    /\ Typed
    /\ Cut(pos, stream)
    /\ phase \in {"length", "body"} => Piped(pos, stream) /\ Begun(pos, stream)
    /\ Wanted
    /\ Matched
    /\ \A i \in 1 .. Len(sent) : FrameSent(sent[i])
    /\ out # <<>> => sender = "open"

IInv == \E pos, stream : Inv(pos, stream)

LEMMA InitInv == Init => IInv
<1> SUFFICES ASSUME Init PROVE IInv
  OBVIOUS
<1> DEFINE pos == [i \in 1 .. 1 |-> 0]
<1>1. Len(sent) = 0 /\ Len(received) = 0 /\ Len(buf) = 0 /\ Len(net) = 0 /\ Len(out) = 0
  BY DEF Init
<1>2. <<>> \in Seq(Byte) /\ Len(<<>>) = 0
  OBVIOUS
<1>3. Typed
  BY DEF Init, Typed
<1>4. Cut(pos, <<>>)
  BY <1>1, <1>2 DEF Cut
<1>5. Taken(pos) = 0
  BY <1>1 DEF Taken, Init
<1> HIDE DEF pos
<1>6. Piped(pos, <<>>)
  BY <1>1, <1>5 DEF Piped, At, Init
<1>7. Wanted /\ Matched
  BY <1>1 DEF Wanted, Matched, Init
<1>8. out = <<>>
  BY DEF Init
<1>9. Begun(pos, <<>>)
  BY <1>1 DEF Begun, Init
<1>10. Inv(pos, <<>>)
  BY <1>1, <1>3, <1>4, <1>6, <1>7, <1>8, <1>9 DEF Inv
<1> QED BY <1>10 DEF IInv

LEMMA InvSizes ==
    ASSUME NEW pos, NEW stream, Inv(pos, stream)
    PROVE  /\ Len(sent) \in Nat /\ Len(received) \in Nat /\ Len(received) <= Len(sent)
           /\ Len(buf) \in Nat /\ Len(net) \in Nat /\ Len(out) \in Nat /\ Len(stream) \in Nat
           /\ Taken(pos) \in Nat
           /\ \A i \in 1 .. Len(sent) : /\ sent[i] \in Seq(Byte) /\ Len(sent[i]) \in Nat
                                        /\ Len(sent[i]) >= 4
<1>1. Typed /\ Cut(pos, stream) /\ Matched /\ \A i \in 1 .. Len(sent) : FrameSent(sent[i])
  BY DEF Inv
<1>2. /\ Len(sent) \in Nat /\ Len(received) \in Nat /\ Len(received) <= Len(sent)
      /\ Len(buf) \in Nat /\ Len(net) \in Nat /\ Len(out) \in Nat /\ Len(stream) \in Nat
  BY <1>1, LenProperties DEF Typed, Cut, Matched
<1>3. Taken(pos) \in Nat
  <2>1. Len(received) + 1 \in 1 .. Len(sent) + 1
    BY <1>2
  <2>2. pos[Len(received) + 1] \in 0 .. Len(stream)
    BY <1>1, <2>1 DEF Cut
  <2>3. pos[Len(received) + 1] \in Nat
    BY <1>2, <2>2
  <2> QED BY <2>3 DEF Taken
<1>4. \A i \in 1 .. Len(sent) : /\ sent[i] \in Seq(Byte) /\ Len(sent[i]) \in Nat
                                /\ Len(sent[i]) >= 4
  BY <1>1, LenProperties DEF FrameSent, WellFramed
<1> QED BY <1>2, <1>3, <1>4

(* No step but the next frame moves the point back or the frames on.       *)
LEMMA BegunKept ==
    ASSUME NEW pos, NEW stream, Inv(pos, stream), Begun(pos, stream), sent' = sent,
           Reached(pos)' \in Nat, Reached(pos) <= Reached(pos)',
           sender' = "broken" => Reached(pos)' < Len(stream)
    PROVE  Begun(pos, stream)'
<1> DEFINE r == Reached(pos)
           q == Reached(pos)'
<1>1. r \in Nat
  BY InvSizes DEF Reached
<1>2. \A i \in 1 .. Len(sent) : pos[i] \in Nat
  <2> SUFFICES ASSUME NEW i \in 1 .. Len(sent) PROVE pos[i] \in Nat
    OBVIOUS
  <2>1. i \in 1 .. Len(sent) + 1 /\ Len(stream) \in Nat
    BY InvSizes
  <2>2. pos[i] \in 0 .. Len(stream)
    BY <2>1 DEF Inv, Cut
  <2> QED BY <2>1, <2>2
<1>3. q \in Nat /\ r <= q /\ \A i \in 1 .. Len(sent) : pos[i] <= r
  BY DEF Begun
<1> HIDE DEF r, q
<1>4. \A i \in 1 .. Len(sent) : pos[i] <= q
  BY <1>1, <1>2, <1>3
<1> QED BY <1>4 DEF Begun, q

LEMMA WriteInv ==
    ASSUME NEW pos, NEW stream, Inv(pos, stream), Write
    PROVE  Inv(pos, stream)'
<1>1. PICK n \in 1 .. Len(out) : net' = net \o SubSeq(out, 1, n) /\ out' = Skip(out, n)
  BY DEF Write
<1>2. UNCHANGED <<sender, phase, left, buf, sent, received>> /\ out # <<>>
  BY DEF Write
<1>3. net \in Seq(Byte) /\ out \in Seq(Byte) /\ n \in 0 .. Len(out)
  BY InvSizes DEF Inv, Typed
<1> DEFINE a == SubSeq(out, 1, n)
           z == Skip(out, n)
<1>4. /\ a \in Seq(Byte) /\ Len(a) = n /\ z \in Seq(Byte) /\ Len(z) = Len(out) - n
      /\ \A at \in Nat : At(stream, at, out) => At(stream, at, a) /\ At(stream, at + n, z)
  <2> SUFFICES ASSUME NEW at \in Nat
               PROVE  /\ a \in Seq(Byte) /\ Len(a) = n /\ z \in Seq(Byte) /\ Len(z) = Len(out) - n
                      /\ At(stream, at, out) => At(stream, at, a) /\ At(stream, at + n, z)
    OBVIOUS
  <2> QED BY <1>3, AtTake
<1>5. net' = net \o a /\ out' = z
  BY <1>1
<1> HIDE DEF a, z
<1>6. net' \in Seq(Byte) /\ Len(net') = Len(net) + n
  BY <1>3, <1>4, <1>5, CatBytes
<1>7. Typed'
  BY <1>2, <1>4, <1>5, <1>6 DEF Typed, Inv
<1>8. ASSUME phase \in {"length", "body"} PROVE Piped(pos, stream)'
  <2> DEFINE c == Taken(pos)
             at == c + Len(buf) + 1
  <2>1. Piped(pos, stream)
    BY <1>8 DEF Inv
  <2>2. c \in Nat /\ Len(buf) \in Nat /\ Len(net) \in Nat /\ Len(out) \in Nat /\ Len(stream) \in Nat
    BY InvSizes
  <2>3. c' = c
    BY <1>2 DEF Taken
  <2>4. /\ At(stream, c + 1, buf) /\ At(stream, at, net)
        /\ At(stream, at + Len(net), out)
        /\ c + Len(buf) + Len(net) + Len(out) <= Len(stream)
        /\ sender # "broken" => c + Len(buf) + Len(net) + Len(out) = Len(stream)
    <3>1. c + Len(buf) + Len(net) + 1 = at + Len(net)
      BY <2>2
    <3> QED BY <2>1, <3>1 DEF Piped
  <2> HIDE DEF c
  <2>5. at \in Nat
    BY <2>2
  <2> HIDE DEF at
  <2>6. At(stream, at + Len(net), a) /\ At(stream, at + Len(net) + n, z)
    <3> DEFINE at2 == at + Len(net)
    <3>1. at2 \in Nat /\ At(stream, at2, out)
      BY <2>2, <2>4, <2>5
    <3>2. At(stream, at2, a) /\ At(stream, at2 + n, z)
      <4> HIDE DEF at2
      <4> QED BY <1>4, <3>1
    <3> QED BY <3>2
  <2>7. At(stream, at, net')
    BY <1>3, <1>4, <1>5, <2>4, <2>5, <2>6, AtCat
  <2>8. At(stream, at + Len(net'), out')
    <3>1. at + Len(net') = at + Len(net) + n
      BY <1>6, <2>2, <2>5
    <3> QED BY <3>1, <1>5, <2>6
  <2>9. c + Len(buf) + Len(net') + Len(out') = c + Len(buf) + Len(net) + Len(out)
    <3>1. Len(net') = Len(net) + n /\ Len(out') = Len(out) - n /\ n \in Nat
      BY <1>3, <1>4, <1>5, <1>6
    <3> QED BY <3>1, <2>2
  <2>10. c + Len(buf) + Len(net') + 1 = at + Len(net')
    BY <1>6, <2>2 DEF at
  <2>11. at = c + Len(buf) + 1
    BY DEF at
  <2> QED BY <1>2, <2>3, <2>4, <2>7, <2>8, <2>9, <2>10, <2>11 DEF Piped, c
<1>9. ASSUME phase \in {"length", "body"} PROVE Begun(pos, stream)'
  <2>1. Begun(pos, stream) /\ sender' = "open"
    BY <1>2, <1>9 DEF Inv
  <2>2. Taken(pos) \in Nat /\ Len(buf) \in Nat /\ Len(net) \in Nat /\ n \in Nat
    BY <1>3, InvSizes
  <2>3. Reached(pos)' = Taken(pos) + Len(buf) + Len(net')
    BY <1>2 DEF Reached, Taken
  <2>4. Reached(pos)' = Taken(pos) + Len(buf) + (Len(net) + n)
    BY <1>6, <2>3
  <2>5. Reached(pos)' \in Nat /\ Reached(pos) <= Reached(pos)'
    BY <2>2, <2>4 DEF Reached
  <2> QED BY <1>2, <2>1, <2>5, BegunKept
<1>10. (phase \in {"length", "body"} => Piped(pos, stream) /\ Begun(pos, stream))'
  BY <1>2, <1>8, <1>9
<1>11. Cut(pos, stream)' /\ Wanted' /\ Matched' /\ (\A i \in 1 .. Len(sent) : FrameSent(sent[i]))'
  BY <1>2 DEF Inv, Cut, Wanted, Matched
<1>12. sender' = "open"
  BY <1>2 DEF Inv
<1> QED BY <1>7, <1>10, <1>11, <1>12 DEF Inv

LEMMA EndInv ==
    ASSUME NEW pos, NEW stream, Inv(pos, stream), End
    PROVE  Inv(pos, stream)'
<1>1. /\ sender = "open" /\ sender' = (IF out = <<>> THEN "closed" ELSE "broken")
      /\ out' = <<>> /\ UNCHANGED <<net, phase, left, buf, sent, received>>
  BY DEF End
<1>2. Typed'
  BY <1>1 DEF Inv, Typed
<1>3. ASSUME phase \in {"length", "body"} PROVE Piped(pos, stream)'
  <2>1. Piped(pos, stream)
    BY <1>3 DEF Inv
  <2>2. /\ Taken(pos) \in Nat /\ Len(buf) \in Nat /\ Len(net) \in Nat /\ Len(out) \in Nat
        /\ Len(stream) \in Nat
    BY InvSizes
  <2>3. Taken(pos)' = Taken(pos)
    BY <1>1 DEF Taken
  <2>4. Len(out') = 0
    BY <1>1
  <2>5. \A at : At(stream, at, out')
    BY <2>4 DEF At
  <2>6. sender' # "broken" => out = <<>> /\ Len(out) = 0
    BY <1>1
  <2> QED BY <1>1, <2>1, <2>2, <2>3, <2>4, <2>5, <2>6 DEF Piped
<1>4. Cut(pos, stream)' /\ Wanted' /\ Matched' /\ (\A i \in 1 .. Len(sent) : FrameSent(sent[i]))'
  BY <1>1 DEF Inv, Cut, Wanted, Matched
<1>5. ASSUME phase \in {"length", "body"} PROVE Begun(pos, stream)'
  <2>1. Begun(pos, stream) /\ Piped(pos, stream)
    BY <1>5 DEF Inv
  <2>2. Reached(pos) \in Nat /\ Len(out) \in Nat /\ Len(stream) \in Nat
    BY InvSizes DEF Reached
  <2>3. Reached(pos)' = Reached(pos)
    BY <1>1 DEF Reached, Taken
  <2>4. Reached(pos) + Len(out) = Len(stream)
    BY <1>1, <2>1 DEF Piped, Reached
  <2>5. out # <<>> => Len(out) # 0
    BY EmptySeq DEF Inv, Typed
  <2>6. sender' = "broken" => Len(out) # 0
    BY <1>1, <2>5
  <2>7. sender' = "broken" => Reached(pos)' < Len(stream)
    BY <2>2, <2>3, <2>4, <2>6
  <2>8. Reached(pos)' \in Nat /\ Reached(pos) <= Reached(pos)'
    BY <2>2, <2>3
  <2> QED BY <1>1, <2>1, <2>7, <2>8, BegunKept
<1> QED BY <1>1, <1>2, <1>3, <1>4, <1>5 DEF Inv

LEMMA ReadEndInv ==
    ASSUME NEW pos, NEW stream, Inv(pos, stream), ReadEnd
    PROVE  Inv(pos, stream)'
<1>1. phase' = "end" /\ UNCHANGED <<sender, out, net, left, buf, sent, received>>
  BY DEF ReadEnd
<1>2. Typed' /\ Cut(pos, stream)' /\ Wanted' /\ Matched'
  BY <1>1 DEF Inv, Typed, Cut, Wanted, Matched
<1> QED BY <1>1, <1>2 DEF Inv

LEMMA ReadInv ==
    ASSUME NEW pos, NEW stream, Inv(pos, stream), Read
    PROVE  Inv(pos, stream)'
<1>1. PICK n \in 1 .. Len(net) :
         /\ n <= left
         /\ buf' = buf \o SubSeq(net, 1, n)
         /\ net' = Skip(net, n)
         /\ left' = left - n
  BY DEF Read
<1>2. UNCHANGED <<sender, out, phase, sent, received>> /\ phase \in {"length", "body"}
  BY DEF Read, Reading
<1>3. net \in Seq(Byte) /\ buf \in Seq(Byte) /\ n \in 0 .. Len(net) /\ n \in Nat /\ left \in Nat
  BY InvSizes DEF Inv, Typed
<1> DEFINE a == SubSeq(net, 1, n)
           z == Skip(net, n)
<1>4. /\ a \in Seq(Byte) /\ Len(a) = n /\ z \in Seq(Byte) /\ Len(z) = Len(net) - n
      /\ \A at \in Nat : At(stream, at, net) => At(stream, at, a) /\ At(stream, at + n, z)
  <2> SUFFICES ASSUME NEW at \in Nat
               PROVE  /\ a \in Seq(Byte) /\ Len(a) = n /\ z \in Seq(Byte) /\ Len(z) = Len(net) - n
                      /\ At(stream, at, net) => At(stream, at, a) /\ At(stream, at + n, z)
    OBVIOUS
  <2> QED BY <1>3, AtTake
<1>5. buf' = buf \o a /\ net' = z
  BY <1>1
<1> HIDE DEF a, z
<1>6. buf' \in Seq(Byte) /\ Len(buf') = Len(buf) + n
  BY <1>3, <1>4, <1>5, CatBytes
<1>7. left' \in Nat /\ left' = left - n
  BY <1>1, <1>3
<1>8. Typed'
  BY <1>2, <1>4, <1>5, <1>6, <1>7 DEF Typed, Inv
<1> DEFINE c == Taken(pos)
           at == c + 1
<1>9. /\ c \in Nat /\ Len(buf) \in Nat /\ Len(net) \in Nat /\ Len(out) \in Nat
      /\ Len(stream) \in Nat
  BY InvSizes
<1>10. Piped(pos, stream)'
  <2>1. Piped(pos, stream)
    BY <1>2 DEF Inv
  <2>2. c' = c
    BY <1>2 DEF Taken
  <2>3. /\ At(stream, at, buf) /\ At(stream, at + Len(buf), net)
        /\ At(stream, at + Len(buf) + Len(net), out)
        /\ c + Len(buf) + Len(net) + Len(out) <= Len(stream)
        /\ sender # "broken" => c + Len(buf) + Len(net) + Len(out) = Len(stream)
    <3>1. /\ c + Len(buf) + 1 = at + Len(buf)
          /\ c + Len(buf) + Len(net) + 1 = at + Len(buf) + Len(net)
      BY <1>9
    <3> QED BY <2>1, <3>1 DEF Piped
  <2> HIDE DEF c
  <2>4. at \in Nat
    BY <1>9
  <2> HIDE DEF at
  <2>5. At(stream, at + Len(buf), a) /\ At(stream, at + Len(buf) + n, z)
    <3> DEFINE at2 == at + Len(buf)
    <3>1. at2 \in Nat /\ At(stream, at2, net)
      BY <1>9, <2>3, <2>4
    <3>2. At(stream, at2, a) /\ At(stream, at2 + n, z)
      <4> HIDE DEF at2
      <4> QED BY <1>4, <3>1
    <3> QED BY <3>2
  <2>6. At(stream, at, buf')
    BY <1>3, <1>4, <1>5, <2>3, <2>4, <2>5, AtCat
  <2>7. Len(buf') = Len(buf) + n /\ Len(net') = Len(net) - n
    BY <1>4, <1>5, <1>6
  <2>8. /\ c + Len(buf') + 1 = at + Len(buf) + n /\ at = c + 1
        /\ c + Len(buf') + Len(net') + 1 = at + Len(buf) + Len(net)
        /\ c + Len(buf') + Len(net') + Len(out) = c + Len(buf) + Len(net) + Len(out)
    BY <2>7, <1>3, <1>9 DEF at
  <2> QED BY <1>2, <1>5, <2>2, <2>3, <2>5, <2>6, <2>8 DEF Piped, c
<1>11. Wanted'
  <2>1. left' + Len(buf') = left + Len(buf)
    BY <1>3, <1>6, <1>7, <1>9
  <2>2. Wanted
    BY DEF Inv
  <2> QED BY <2>1, <2>2, <1>2 DEF Wanted
<1>12. Cut(pos, stream)' /\ Matched' /\ (\A i \in 1 .. Len(sent) : FrameSent(sent[i]))'
  BY <1>2 DEF Inv, Cut, Matched
<1>13. Begun(pos, stream)'
  <2>1. Begun(pos, stream) /\ c' = c
    BY <1>2 DEF Inv, Taken
  <2> HIDE DEF c
  <2>2. c + Len(buf') + Len(net') = c + Len(buf) + Len(net)
    <3>1. Len(buf') = Len(buf) + n /\ Len(net') = Len(net) - n
      BY <1>4, <1>5, <1>6
    <3> QED BY <1>3, <1>9, <3>1 DEF c
  <2>3. Reached(pos)' = Reached(pos) /\ Reached(pos) \in Nat
    BY <1>9, <2>1, <2>2 DEF Reached, c
  <2>4. sender' = "broken" => Reached(pos)' < Len(stream)
    BY <1>2, <2>1, <2>3 DEF Begun
  <2>5. Reached(pos)' \in Nat /\ Reached(pos) <= Reached(pos)'
    BY <2>3
  <2> QED BY <1>2, <2>1, <2>4, <2>5, BegunKept
<1> QED BY <1>2, <1>8, <1>10, <1>11, <1>12, <1>13 DEF Inv

LEMMA LengthReadInv ==
    ASSUME NEW pos, NEW stream, Inv(pos, stream), LengthRead
    PROVE  Inv(pos, stream)'
<1> DEFINE k == Len(received) + 1
           w == sent[k]
           c == pos[k]
<1>1. /\ phase = "length" /\ left = 0 /\ phase' = "body" /\ left' = GetU32(buf, 1)
      /\ buf' = <<>> /\ UNCHANGED <<sender, out, net, sent, received>>
  BY DEF LengthRead
<1>2. Typed /\ Cut(pos, stream) /\ Piped(pos, stream) /\ Wanted /\ Matched
  BY <1>1 DEF Inv
<1>3. /\ Len(sent) \in Nat /\ Len(received) \in Nat /\ Len(received) <= Len(sent)
      /\ Len(net) \in Nat /\ Len(out) \in Nat /\ Len(stream) \in Nat
      /\ \A i \in 1 .. Len(sent) : sent[i] \in Seq(Byte) /\ Len(sent[i]) \in Nat /\ Len(sent[i]) >= 4
  BY InvSizes
<1>4. Len(buf) = 4 /\ buf \in Seq(Byte)
  BY <1>1, <1>2, <1>3, LenProperties DEF Wanted, Typed
<1>5. Taken(pos) = c /\ Taken(pos)' = c + 4 /\ c \in Nat
  <2>1. Taken(pos) \in Nat /\ Taken(pos) = c + 0
    BY <1>1, InvSizes DEF Taken
  <2>2. pos[Len(received) + 1] \in 0 .. Len(stream)
    <3>1. Len(received) + 1 \in 1 .. Len(sent) + 1
      BY <1>3
    <3> QED BY <3>1, <1>2 DEF Cut
  <2>3. c \in Nat
    BY <2>2, <1>3
  <2>4. Taken(pos)' = c + 4
    BY <1>1 DEF Taken
  <2> QED BY <2>1, <2>3, <2>4
<1>6. k \in 1 .. Len(sent)
  <2>1. c + 4 <= Len(stream)
    <3>1. c + Len(buf) + Len(net) + Len(out) <= Len(stream)
      BY <1>2, <1>5 DEF Piped
    <3> HIDE DEF c
    <3> QED BY <3>1, <1>3, <1>4, <1>5
  <2>2. Len(received) # Len(sent)
    <3>1. ASSUME Len(received) = Len(sent) PROVE FALSE
      <4>1. c = Len(stream)
        BY <3>1, <1>2 DEF Cut
      <4> QED BY <4>1, <2>1, <1>3
    <3> QED BY <3>1
  <2> QED BY <2>2, <1>3
<1>7. /\ w \in Seq(Byte) /\ Len(w) \in Nat /\ Len(w) >= 4 /\ GetU32(w, 1) = Len(w) - 4
      /\ At(stream, c + 1, w)
  BY <1>2, <1>3, <1>6 DEF Inv, FrameSent, WellFramed, Cut
<1>8. GetU32(buf, 1) = Len(w) - 4
  <2>1. /\ \A i \in 1 .. Len(buf) : stream[c + 1 + i - 1] = buf[i]
        /\ \A i \in 1 .. Len(w) : stream[c + 1 + i - 1] = w[i]
    BY <1>2, <1>5, <1>7 DEF Piped, At
  <2> HIDE DEF w, c
  <2>2. \A i \in 1 .. 4 : buf[i] = w[i]
    BY <2>1, <1>4, <1>7
  <2> QED BY <2>2, <1>7, LengthField
<1>9. Len(<<>>) = 0 /\ <<>> \in Seq(Byte)
  OBVIOUS
<1>10. left' = Len(w) - 4 /\ left' \in Nat
  <2> HIDE DEF w
  <2> QED BY <1>1, <1>7, <1>8
<1>11. Typed'
  BY <1>1, <1>2, <1>9, <1>10 DEF Typed
<1>12. Piped(pos, stream)'
  <2>1. /\ At(stream, c + Len(buf) + 1, net)
        /\ At(stream, c + Len(buf) + Len(net) + 1, out)
        /\ c + Len(buf) + Len(net) + Len(out) <= Len(stream)
        /\ sender # "broken" => c + Len(buf) + Len(net) + Len(out) = Len(stream)
    BY <1>2, <1>5 DEF Piped
  <2>2. \A at : At(stream, at, <<>>)
    BY <1>9 DEF At
  <2>3. Taken(pos)' + Len(<<>>) = c + Len(buf)
    <3> HIDE DEF c
    <3> QED BY <1>4, <1>5, <1>9
  <2> QED BY <2>1, <2>2, <2>3, <1>1 DEF Piped
<1>13. Wanted'
  <2>1. Len(received) < Len(sent)
    BY <1>3, <1>6
  <2>2. left' + Len(buf') = Len(w) - 4
    <3> HIDE DEF w
    <3> QED BY <1>1, <1>7, <1>9, <1>10
  <2> QED BY <2>1, <2>2, <1>1 DEF Wanted
<1>14. Cut(pos, stream)' /\ Matched' /\ (\A i \in 1 .. Len(sent) : FrameSent(sent[i]))'
  BY <1>1 DEF Inv, Cut, Matched
<1>15. Begun(pos, stream)'
  <2>1. Begun(pos, stream)
    BY <1>1 DEF Inv
  <2> HIDE DEF c
  <2>2. Reached(pos) = c + 4 + Len(net) /\ Reached(pos)' = c + 4 + 0 + Len(net)
    BY <1>1, <1>4, <1>5, <1>9 DEF Reached
  <2>3. Reached(pos)' = Reached(pos) /\ Reached(pos) \in Nat
    BY <1>3, <1>5, <2>2
  <2>4. sender' = "broken" => Reached(pos)' < Len(stream)
    BY <1>1, <2>1, <2>3 DEF Begun
  <2>5. Reached(pos)' \in Nat /\ Reached(pos) <= Reached(pos)'
    BY <2>3
  <2> QED BY <1>1, <2>1, <2>4, <2>5, BegunKept
<1> QED BY <1>1, <1>11, <1>12, <1>13, <1>14, <1>15 DEF Inv

(* What read_n has when it has all it wants is the body of the next frame. *)
LEMMA BodyWhole ==
    ASSUME NEW pos, NEW stream, Inv(pos, stream), phase = "body", left = 0
    PROVE  LET k == Len(received) + 1
           IN  /\ k \in 1 .. Len(sent)
               /\ buf = Skip(sent[k], 4)
               /\ Taken(pos) = pos[k] + 4 /\ pos[k] \in Nat
               /\ Len(buf) = Len(sent[k]) - 4 /\ Len(sent[k]) \in Nat /\ Len(sent[k]) >= 4
               /\ pos[k + 1] = pos[k] + Len(sent[k])
<1> DEFINE k == Len(received) + 1
           w == sent[k]
           c == pos[k]
<1>1. phase = "body" /\ left = 0
  OBVIOUS
<1>2. Typed /\ Cut(pos, stream) /\ Piped(pos, stream) /\ Wanted /\ Matched
  BY <1>1 DEF Inv
<1>3. /\ Len(sent) \in Nat /\ Len(received) \in Nat /\ Len(received) <= Len(sent)
      /\ Len(buf) \in Nat /\ Len(net) \in Nat /\ Len(out) \in Nat /\ Len(stream) \in Nat
      /\ \A i \in 1 .. Len(sent) : sent[i] \in Seq(Byte) /\ Len(sent[i]) \in Nat /\ Len(sent[i]) >= 4
  BY InvSizes
<1>4. Len(received) < Len(sent) /\ Len(buf) = Len(w) - 4 /\ buf \in Seq(Byte)
  <2>1. Len(received) < Len(sent) /\ left + Len(buf) = Len(w) - 4
    BY <1>1, <1>2 DEF Wanted
  <2>2. 0 + Len(buf) = Len(buf)
    BY <1>3
  <2> QED BY <2>1, <2>2, <1>1, <1>2 DEF Typed
<1>5. k \in 1 .. Len(sent)
  BY <1>3, <1>4
<1>6. /\ w \in Seq(Byte) /\ Len(w) \in Nat /\ Len(w) >= 4
      /\ At(stream, c + 1, w) /\ pos[k + 1] = c + Len(w)
  BY <1>2, <1>3, <1>5 DEF Cut
<1>7. c \in Nat /\ Taken(pos) = c + 4
  <2>1. Taken(pos) = c + 4
    BY <1>1 DEF Taken
  <2>2. pos[k] \in 0 .. Len(stream)
    <3>1. k \in 1 .. Len(sent) + 1
      BY <1>3, <1>5
    <3> QED BY <3>1, <1>2 DEF Cut
  <2> QED BY <2>1, <2>2, <1>3
<1> HIDE DEF w, c
<1>8. buf = Skip(w, 4)
  <2>1. c + 4 + 1 = c + 1 + 4 /\ c + 1 \in Nat /\ c + 1 + 4 \in Nat /\ 4 \in 0 .. Len(w)
    BY <1>6, <1>7
  <2>2. At(stream, c + 1 + 4, buf)
    BY <1>2, <1>7, <2>1 DEF Piped
  <2>3. Skip(w, 4) \in Seq(Byte) /\ Len(Skip(w, 4)) = Len(w) - 4 /\ At(stream, c + 1 + 4, Skip(w, 4))
    <3> DEFINE at == c + 1
    <3>1. at \in Nat /\ At(stream, at, w)
      BY <1>6, <2>1
    <3> HIDE DEF at
    <3>2. Skip(w, 4) \in Seq(Byte) /\ Len(Skip(w, 4)) = Len(w) - 4
      BY <2>1, <1>6, SkipBytes
    <3>3. At(stream, at, w) => At(stream, at, SubSeq(w, 1, 4)) /\ At(stream, at + 4, Skip(w, 4))
      BY <3>1, <2>1, <1>6, AtTake, Zenon
    <3> QED BY <3>1, <3>2, <3>3 DEF at
  <2> DEFINE at == c + 1 + 4
  <2>4. at \in Nat /\ At(stream, at, buf) /\ At(stream, at, Skip(w, 4)) /\ Len(buf) = Len(Skip(w, 4))
    BY <2>1, <2>2, <2>3, <1>4
  <2> HIDE DEF at
  <2> QED BY <2>3, <2>4, <1>4, AtEqual
<1> QED BY <1>4, <1>5, <1>6, <1>7, <1>8 DEF w, c

LEMMA BodyReadInv ==
    ASSUME NEW pos, NEW stream, Inv(pos, stream), BodyRead
    PROVE  Inv(pos, stream)'
<1> DEFINE k == Len(received) + 1
           w == sent[k]
           c == pos[k]
<1>1. /\ phase = "body" /\ left = 0 /\ UNCHANGED <<sender, out, net, sent>>
  BY DEF BodyRead
<1>2. Typed /\ Cut(pos, stream) /\ Piped(pos, stream) /\ Wanted /\ Matched
  BY <1>1 DEF Inv
<1>3. /\ Len(sent) \in Nat /\ Len(received) \in Nat /\ Len(received) <= Len(sent)
      /\ Len(buf) \in Nat /\ Len(net) \in Nat /\ Len(out) \in Nat /\ Len(stream) \in Nat
      /\ \A i \in 1 .. Len(sent) : sent[i] \in Seq(Byte) /\ Len(sent[i]) \in Nat /\ Len(sent[i]) >= 4
  BY InvSizes
<1>4. Len(received) < Len(sent) /\ Len(buf) = Len(w) - 4 /\ buf \in Seq(Byte)
  <2>1. Len(received) < Len(sent) /\ left + Len(buf) = Len(w) - 4
    BY <1>1, <1>2 DEF Wanted
  <2>2. 0 + Len(buf) = Len(buf)
    BY <1>3
  <2> QED BY <2>1, <2>2, <1>1, <1>2 DEF Typed
<1>5. k \in 1 .. Len(sent)
  BY <1>3, <1>4
<1>6. /\ w \in Seq(Byte) /\ Len(w) \in Nat /\ Len(w) >= 4
      /\ At(stream, c + 1, w) /\ pos[k + 1] = c + Len(w)
  BY <1>2, <1>3, <1>5 DEF Cut
<1>7. c \in Nat /\ Taken(pos) = c + 4
  <2>1. Taken(pos) = c + 4
    BY <1>1 DEF Taken
  <2>2. pos[k] \in 0 .. Len(stream)
    <3>1. k \in 1 .. Len(sent) + 1
      BY <1>3, <1>5
    <3> QED BY <3>1, <1>2 DEF Cut
  <2> QED BY <2>1, <2>2, <1>3
<1> HIDE DEF w, c
<1>8. buf = Skip(w, 4)
  BY <1>1, BodyWhole DEF w
<1>9. CASE /\ ParseBody(buf) = Throws
           /\ phase' = "thrown"
           /\ UNCHANGED <<left, buf, received>>
  <2>1. Typed' /\ Cut(pos, stream)' /\ Matched' /\ (\A i \in 1 .. Len(sent) : FrameSent(sent[i]))'
    BY <1>1, <1>2, <1>9 DEF Inv, Typed, Cut, Matched
  <2>2. ParseBody(Skip(w, 4)) = {}
    BY <1>8, <1>9 DEF Throws
  <2>3. Wanted'
    BY <2>2, <1>1, <1>4, <1>9 DEF Wanted, w
  <2>4. (out # <<>> => sender = "open")'
    BY <1>1 DEF Inv
  <2> QED BY <2>1, <2>3, <2>4, <1>9 DEF Inv
<1>10. ASSUME NEW f \in ParseBody(buf), received' = Append(received, f), phase' = "length",
              left' = 4, buf' = <<>>
       PROVE  Inv(pos, stream)'
  <2>1. f \in Parsed
    BY <1>4 DEF Parsed
  <2>2. /\ received' \in Seq(Parsed) /\ Len(received') = k /\ received'[k] = f
        /\ \A i \in 1 .. Len(received) : received'[i] = received[i]
    BY <2>1, <1>2, <1>10, AppendProperties DEF Typed
  <2>3. Len(<<>>) = 0 /\ <<>> \in Seq(Byte)
    OBVIOUS
  <2>4. Typed'
    BY <2>2, <2>3, <1>1, <1>2, <1>10 DEF Typed
  <2>5. Matched'
    <3>1. Len(received') <= Len(sent)
      BY <2>2, <1>5
    <3>2. ASSUME NEW i \in 1 .. Len(received') PROVE received'[i] \in ParseBody(Skip(sent[i], 4))
      <4>1. CASE i = k
        BY <4>1, <2>2, <1>8 DEF w
      <4>2. CASE i # k
        <5>1. i \in 1 .. Len(received)
          BY <4>2, <2>2, <1>3
        <5> QED BY <5>1, <2>2, <1>2 DEF Matched
      <4> QED BY <4>1, <4>2
    <3> QED BY <3>1, <3>2, <1>1 DEF Matched
  <2>6. Taken(pos)' = c + Len(w)
    <3>1. Taken(pos)' = pos[k + 1] + 0
      BY <2>2, <1>10 DEF Taken
    <3> QED BY <3>1, <1>6, <1>7
  <2>7. Piped(pos, stream)'
    <3>1. /\ At(stream, c + 4 + Len(buf) + 1, net)
          /\ At(stream, c + 4 + Len(buf) + Len(net) + 1, out)
          /\ c + 4 + Len(buf) + Len(net) + Len(out) <= Len(stream)
          /\ sender # "broken" => c + 4 + Len(buf) + Len(net) + Len(out) = Len(stream)
      BY <1>2, <1>7 DEF Piped
    <3>2. c + Len(w) + 0 = c + 4 + Len(buf)
      BY <1>3, <1>4, <1>6, <1>7
    <3>3. \A at : At(stream, at, <<>>)
      BY <2>3 DEF At
    <3>4. Taken(pos)' + Len(buf') = c + 4 + Len(buf)
      BY <2>3, <2>6, <3>2, <1>10
    <3> QED BY <3>1, <3>3, <3>4, <1>1, <1>10 DEF Piped
  <2>8. Cut(pos, stream)' /\ (\A i \in 1 .. Len(sent) : FrameSent(sent[i]))'
    BY <1>1 DEF Inv, Cut
  <2>9. Wanted'
    BY <2>3, <1>10 DEF Wanted
  <2>10. (out # <<>> => sender = "open")'
    BY <1>1 DEF Inv
  <2>11. Begun(pos, stream)'
    <3>1. Begun(pos, stream)
      BY <1>1 DEF Inv
    <3>2. Reached(pos) = c + 4 + Len(buf) + Len(net) /\ Reached(pos)' = c + Len(w) + 0 + Len(net)
      BY <1>1, <1>7, <1>10, <2>3, <2>6 DEF Reached
    <3>3. Reached(pos)' = Reached(pos) /\ Reached(pos) \in Nat
      BY <1>3, <1>4, <1>6, <1>7, <3>2
    <3>4. sender' = "broken" => Reached(pos)' < Len(stream)
      BY <1>1, <3>1, <3>3 DEF Begun
    <3>5. Reached(pos)' \in Nat /\ Reached(pos) <= Reached(pos)'
      BY <3>3
    <3> QED BY <1>1, <3>1, <3>4, <3>5, BegunKept
  <2> QED BY <2>4, <2>5, <2>7, <2>8, <2>9, <2>10, <2>11 DEF Inv
<1> QED BY <1>9, <1>10 DEF BodyRead

LEMMA SendInv ==
    ASSUME NEW pos, NEW stream, Inv(pos, stream), NEW frame, SendFrame(frame), FrameSent(frame)
    PROVE  IInv'
<1> DEFINE N == Len(sent)
<1>0. PICK pos2, stream2 :
         /\ stream2 = stream \o frame
         /\ pos2 = [i \in 1 .. N + 2 |->
                      IF i = N + 2 THEN Len(stream) + Len(frame) ELSE pos[i]]
  OBVIOUS
<1>1. /\ sender = "open" /\ out = <<>> /\ out' = frame /\ sent' = Append(sent, frame)
      /\ UNCHANGED <<sender, net, phase, left, buf, received>>
  BY DEF SendFrame
<1>2. Typed /\ Cut(pos, stream) /\ Wanted /\ Matched
  BY DEF Inv
<1>3. /\ N \in Nat /\ Len(received) \in Nat /\ Len(received) <= N
      /\ Len(buf) \in Nat /\ Len(net) \in Nat /\ Len(stream) \in Nat
      /\ Taken(pos) \in Nat
      /\ \A i \in 1 .. N : sent[i] \in Seq(Byte) /\ Len(sent[i]) \in Nat /\ Len(sent[i]) >= 4
  BY InvSizes
<1>4. frame \in Seq(Byte) /\ Len(frame) \in Nat /\ stream \in Seq(Byte)
  BY <1>2, LenProperties DEF FrameSent, WellFramed, Cut
<1>5. stream2 \in Seq(Byte) /\ Len(stream2) = Len(stream) + Len(frame)
  BY <1>0, <1>4, CatBytes
<1>6. /\ sent' \in Seq(Seq(Byte)) /\ Len(sent') = N + 1 /\ sent'[N + 1] = frame
      /\ \A i \in 1 .. N : sent'[i] = sent[i]
  BY <1>1, <1>2, <1>4, AppendProperties DEF Typed
<1>7. pos \in [1 .. N + 1 -> 0 .. Len(stream)] /\ pos[1] = 0 /\ pos[N + 1] = Len(stream)
  BY <1>2 DEF Cut
<1>8. /\ pos2 \in [1 .. N + 2 -> 0 .. Len(stream2)]
      /\ pos2[N + 2] = Len(stream) + Len(frame)
      /\ \A i \in 1 .. N + 1 : pos2[i] = pos[i] /\ pos[i] \in 0 .. Len(stream)
  <2>1. \A i \in 1 .. N + 1 : pos2[i] = pos[i] /\ pos[i] \in 0 .. Len(stream)
    <3> TAKE i \in 1 .. N + 1
    <3>1. i \in 1 .. N + 2 /\ i # N + 2
      BY <1>3
    <3>2. pos2[i] = pos[i]
      BY <3>1, <1>0
    <3> QED BY <3>2, <1>7
  <2>2. pos2[N + 2] = Len(stream) + Len(frame)
    BY <1>0, <1>3
  <2>3. \A i \in 1 .. N + 2 : pos2[i] \in 0 .. Len(stream2)
    <3>1. \A i \in 1 .. N + 2 : i = N + 2 \/ i \in 1 .. N + 1
      BY <1>3
    <3>2. \A x \in 0 .. Len(stream) : x \in 0 .. Len(stream2)
      BY <1>3, <1>4, <1>5
    <3>3. Len(stream) + Len(frame) \in 0 .. Len(stream2)
      BY <1>3, <1>4, <1>5
    <3> QED BY <3>1, <3>2, <3>3, <2>1, <2>2
  <2> QED BY <1>0, <2>1, <2>2, <2>3
<1>9. \A i \in 1 .. N + 1 : pos[i] + 1 \in Nat \ {0}
  BY <1>3, <1>8
<1>10. \A at \in Nat \ {0}, s \in Seq(Byte) :
          at + Len(s) - 1 <= Len(stream) /\ At(stream, at, s) => At(stream2, at, s)
  BY <1>0, <1>4, AtExtend
<1>11. At(stream2, Len(stream) + 1, frame)
  <2>1. At(stream2, 1 + Len(stream), frame)
    BY <1>0, <1>4, FrontAt
  <2>2. 1 + Len(stream) = Len(stream) + 1
    BY <1>3
  <2> QED BY <2>1, <2>2
<1>12. Cut(pos2, stream2)'
  <2>1. N + 1 + 1 = N + 2 /\ 1 \in 1 .. N + 1
    BY <1>3
  <2>2. ASSUME NEW i \in 1 .. N + 1
        PROVE  pos2[i + 1] = pos2[i] + Len(sent'[i]) /\ At(stream2, pos2[i] + 1, sent'[i])
    <3>1. CASE i = N + 1
      BY <3>1, <2>1, <1>6, <1>7, <1>8, <1>11
    <3>2. CASE i # N + 1
      <4>1. i \in 1 .. N /\ i + 1 \in 1 .. N + 1 /\ i \in 1 .. N + 1
        BY <3>2, <1>3
      <4> DEFINE s == sent[i]
                 p == pos[i]
                 q == pos[i + 1]
      <4>2. /\ q = p + Len(s) /\ At(stream, p + 1, s)
            /\ s \in Seq(Byte) /\ Len(s) \in Nat
        BY <4>1, <1>2, <1>3 DEF Cut
      <4>3. q \in 0 .. Len(stream) /\ p \in 0 .. Len(stream)
        BY <4>1, <1>8
      <4>4. pos2[i] = p /\ pos2[i + 1] = q /\ sent'[i] = s
        BY <4>1, <1>6, <1>8
      <4> HIDE DEF s, p, q
      <4>5. p + 1 \in Nat \ {0} /\ p + 1 + Len(s) - 1 <= Len(stream)
        BY <4>2, <4>3, <1>3
      <4>6. At(stream2, p + 1, s)
        BY <4>2, <4>5, <1>10
      <4> QED BY <4>2, <4>4, <4>6
    <3> QED BY <3>1, <3>2
  <2>3. pos2[1] = 0 /\ pos2[N + 1 + 1] = Len(stream2)
    BY <2>1, <1>5, <1>7, <1>8
  <2> QED BY <2>1, <2>2, <2>3, <1>5, <1>6, <1>8 DEF Cut
<1>13. Taken(pos2)' = Taken(pos)
  <2>1. Len(received) + 1 \in 1 .. N + 1
    BY <1>3
  <2>2. pos2[Len(received) + 1] = pos[Len(received) + 1]
    BY <2>1, <1>8
  <2> QED BY <2>2, <1>1 DEF Taken
<1>14. ASSUME phase \in {"length", "body"} PROVE Piped(pos2, stream2)'
  <2> DEFINE c == Taken(pos)
             at1 == c + 1
             at2 == c + Len(buf) + 1
  <2>1. /\ At(stream, at1, buf) /\ At(stream, at2, net)
        /\ c + Len(buf) + Len(net) + Len(out) = Len(stream)
    BY <1>1, <1>14 DEF Inv, Piped
  <2>2. Len(out) = 0
    BY <1>1
  <2>3. buf \in Seq(Byte) /\ net \in Seq(Byte)
    BY <1>2 DEF Typed
  <2> HIDE DEF c
  <2>4. c \in Nat
    BY <1>3 DEF c
  <2>5. /\ at1 \in Nat \ {0} /\ at1 + Len(buf) - 1 <= Len(stream)
        /\ at2 \in Nat \ {0} /\ at2 + Len(net) - 1 <= Len(stream)
        /\ c + Len(buf) + Len(net) = Len(stream)
    BY <2>1, <2>2, <2>4, <1>3
  <2> HIDE DEF at1, at2
  <2>6. At(stream2, at1, buf) /\ At(stream2, at2, net)
    BY <2>1, <2>3, <2>5, <1>10
  <2>7. At(stream2, c + Len(buf) + Len(net) + 1, frame)
    BY <2>5, <1>11
  <2>8. c + Len(buf) + Len(net) + Len(frame) = Len(stream2)
    BY <2>5, <1>5
  <2>9. Len(stream2) \in Nat
    BY <1>3, <1>4, <1>5
  <2>10. Len(stream2) <= Len(stream2)
    BY <2>9
  <2> QED BY <2>6, <2>7, <2>8, <2>10, <1>1, <1>13 DEF Piped, c, at1, at2
<1>15. Typed'
  BY <1>1, <1>2, <1>4, <1>6 DEF Typed
<1>16. Wanted'
  <2>1. \A j \in 1 .. N : sent'[j] = sent[j]
    BY <1>6
  <2>2. Len(received) < N => Len(received) + 1 \in 1 .. N /\ Len(received) < N + 1
    BY <1>3
  <2> QED BY <2>1, <2>2, <1>1, <1>2, <1>6 DEF Wanted
<1>17. Matched'
  <2>1. \A j \in 1 .. Len(received) : j \in 1 .. N
    BY <1>3
  <2>2. Len(received) <= N + 1
    BY <1>3
  <2> QED BY <2>1, <2>2, <1>1, <1>2, <1>6 DEF Matched
<1>18. (\A i \in 1 .. Len(sent) : FrameSent(sent[i]))'
  <2>1. \A i \in 1 .. N + 1 : i \in 1 .. N \/ i = N + 1
    BY <1>3
  <2>2. \A i \in 1 .. N : FrameSent(sent[i])
    BY DEF Inv
  <2>3. \A i \in 1 .. N + 1 : FrameSent(sent'[i])
    BY <2>1, <2>2, <1>6
  <2> QED BY <2>3, <1>6 DEF FrameSent
<1>19. ASSUME phase \in {"length", "body"} PROVE Begun(pos2, stream2)'
  <2>1. Reached(pos2)' = Reached(pos)
    BY <1>1, <1>13 DEF Reached
  <2>2. Reached(pos) + Len(out) = Len(stream) /\ Len(out) = 0
    BY <1>1, <1>19 DEF Inv, Piped, Reached
  <2>3. Reached(pos) \in Nat
    BY <1>3 DEF Reached
  <2>4. Reached(pos) = Len(stream)
    BY <2>2, <2>3
  <2>5. ASSUME NEW i \in 1 .. N + 1 PROVE pos2[i] <= Len(stream)
    <3>1. pos2[i] \in 0 .. Len(stream)
      BY <1>8
    <3> HIDE DEF N
    <3> QED BY <1>3, <3>1
  <2> QED BY <1>1, <1>6, <2>1, <2>4, <2>5 DEF Begun
<1>20. Inv(pos2, stream2)'
  BY <1>1, <1>12, <1>14, <1>15, <1>16, <1>17, <1>18, <1>19 DEF Inv
<1> QED BY <1>20 DEF IInv

LEMMA NextInv == IInv /\ [Next]_vars => IInv'
<1> SUFFICES ASSUME IInv, [Next]_vars PROVE IInv'
  OBVIOUS
<1>1. PICK pos, stream : Inv(pos, stream)
  BY DEF IInv
<1>2. ASSUME NEW m \in Messages, SendFrame(Build(m)) PROVE IInv'
  <2>1. FrameSent(Build(m))
    BY BuiltParsed DEF FrameSent
  <2> QED BY <2>1, <1>1, <1>2, SendInv
<1>3. ASSUME NEW s \in Strange, SendFrame(s) PROVE IInv'
  <2>1. FrameSent(s)
    BY WireAssumption DEF FrameSent, WellFramed
  <2> QED BY <2>1, <1>1, <1>3, SendInv
<1>4. CASE Write
  BY <1>1, <1>4, WriteInv DEF IInv
<1>5. CASE End
  BY <1>1, <1>5, EndInv DEF IInv
<1>6. CASE Read
  BY <1>1, <1>6, ReadInv DEF IInv
<1>7. CASE ReadEnd
  BY <1>1, <1>7, ReadEndInv DEF IInv
<1>8. CASE LengthRead
  BY <1>1, <1>8, LengthReadInv DEF IInv
<1>9. CASE BodyRead
  BY <1>1, <1>9, BodyReadInv DEF IInv
<1>10. CASE UNCHANGED vars
  <2>1. Inv(pos, stream)'
    BY <1>1, <1>10 DEF vars, Inv, Typed, Cut, Piped, Begun, Reached, Taken, Wanted, Matched
  <2> QED BY <2>1 DEF IInv
<1> QED BY <1>2, <1>3, <1>4, <1>5, <1>6, <1>7, <1>8, <1>9, <1>10 DEF Next, Receive

LEMMA Invariance == Spec => []IInv
<1> QED BY InitInv, NextInv, PTL DEF Spec

(* Every state keeps its type: what is on the way are bytes, and a frame   *)
(* received has a type of one byte and a payload of bytes.                 *)
THEOREM WireTyped == Spec => []TypeOK
<1>1. IInv => TypeOK
  <2> SUFFICES ASSUME NEW pos, NEW stream, Inv(pos, stream) PROVE TypeOK
    BY DEF IInv
  <2>1. Typed
    BY DEF Inv
  <2>2. ASSUME NEW i \in DOMAIN received
        PROVE  received[i].type \in Byte /\ received[i].payload \in Seq(Byte)
    <3>1. received[i] \in Parsed
      BY <2>1 DEF Typed
    <3>2. PICK b \in Seq(Byte) : received[i] \in ParseBody(b)
      BY <3>1 DEF Parsed
    <3> QED BY <3>2, ParsedBody
  <2> QED BY <2>1, <2>2 DEF TypeOK, Typed
<1> QED BY <1>1, Invariance, PTL

(* However sends and receives cut the stream, what recv_frame returns are  *)
(* the frames sent, whole, once and in order, and each of them is decoded  *)
(* to the message that was encoded.                                        *)
THEOREM AsSent == Spec => []FramesAsSent
<1>1. IInv => FramesAsSent
  <2> SUFFICES ASSUME NEW pos, NEW stream, Inv(pos, stream) PROVE FramesAsSent
    BY DEF IInv
  <2>1. Matched
    BY DEF Inv
  <2>2. ASSUME NEW i \in DOMAIN received, NEW m \in Messages, sent[i] = Build(m)
        PROVE  Parse(received[i]) = {m}
    <3>1. received[i] \in ParseBody(Skip(Build(m), 4))
      <4>1. i \in 1 .. Len(received)
        BY LenProperties DEF Inv, Typed
      <4> QED BY <4>1, <2>1, <2>2 DEF Matched
    <3>2. PICK f : ParseBody(Skip(Build(m), 4)) = {f} /\ Parse(f) = {m}
      BY BuiltParsed
    <3> QED BY <3>1, <3>2
  <2> QED BY <2>1, <2>2 DEF Matched, FramesAsSent
<1> QED BY <1>1, Invariance, PTL

(* A request that is accepted, from whatever peer, encodes to the very     *)
(* bytes received: no two byte strings stand for the same request.         *)
THEOREM Canonical == Spec => []RequestsCanonical
<1>1. IInv => RequestsCanonical
  <2> SUFFICES ASSUME NEW pos, NEW stream, Inv(pos, stream),
                      NEW i \in DOMAIN received, received[i].type = REQUEST,
                      NEW r \in ParseRequest(received[i])
               PROVE  Build(r) = sent[i]
    BY DEF IInv, RequestsCanonical
  <2>1. i \in 1 .. Len(received) /\ i \in 1 .. Len(sent)
    BY InvSizes, LenProperties DEF Inv, Typed
  <2>2. WellFramed(sent[i]) /\ received[i] \in ParseBody(Skip(sent[i], 4))
    BY <2>1 DEF Inv, Matched, FrameSent
  <2> QED BY <2>2, ParsedBuilt
<1> QED BY <1>1, Invariance, PTL

(* recv_frame never throws at a frame that an RpcClient or RpcServer sent. *)
THEOREM OwnAccepted == Spec => []OwnFramesAccepted
<1>1. IInv => OwnFramesAccepted
  <2> SUFFICES ASSUME NEW pos, NEW stream, Inv(pos, stream), phase = "thrown"
               PROVE  sent[Len(received) + 1] \in Strange
    BY DEF IInv, OwnFramesAccepted
  <2> DEFINE s == sent[Len(received) + 1]
  <2>1. Len(received) + 1 \in 1 .. Len(sent) /\ ParseBody(Skip(s, 4)) = {}
    BY InvSizes DEF Inv, Wanted
  <2>2. s \in Strange \/ \E m \in Messages : s = Build(m)
    BY <2>1 DEF Inv, FrameSent
  <2>3. \A m \in Messages : ParseBody(Skip(Build(m), 4)) # {}
    BY BuiltParsed
  <2> QED BY <2>1, <2>2, <2>3
<1> QED BY <1>1, Invariance, PTL
-----------------------------------------------------------------------------
(* The wire implements the channel: what is left of a frame in the pipe,   *)
(* and what the end of the stream means.                                   *)

(* A sender that has broken off did so within its last frame.              *)
LEMMA BreaksInFrame ==
    ASSUME NEW pos, NEW stream, Inv(pos, stream), out # <<>>, phase # "end"
    PROVE  Len(received) < Len(sent)
<1>1. CASE phase = "thrown"
  BY <1>1 DEF Inv, Wanted
<1>2. CASE phase \in {"length", "body"}
  <2>1. /\ Taken(pos) \in Nat /\ Len(buf) \in Nat /\ Len(net) \in Nat /\ Len(out) \in Nat
        /\ Len(stream) \in Nat
        /\ Len(sent) \in Nat /\ Len(received) \in Nat /\ Len(received) <= Len(sent)
    BY InvSizes
  <2>2. Len(out) # 0
    BY EmptySeq DEF Inv, Typed
  <2>3. Taken(pos) + Len(buf) + Len(net) + Len(out) <= Len(stream)
    BY <1>2 DEF Inv, Piped
  <2>4. Taken(pos) < Len(stream)
    BY <2>1, <2>2, <2>3
  <2>5. ASSUME Len(received) = Len(sent) PROVE FALSE
    <3>1. pos[Len(received) + 1] = Len(stream)
      BY <2>5 DEF Inv, Cut
    <3>2. Taken(pos) >= Len(stream)
      BY <2>1, <3>1 DEF Taken
    <3> QED BY <2>1, <2>4, <3>2
  <2> QED BY <2>1, <2>5
<1> QED BY <1>1, <1>2 DEF Inv, Typed

(* A frame that has come in is not the one a sender has broken off in.     *)
LEMMA WholeFrameRead ==
    ASSUME NEW pos, NEW stream, Inv(pos, stream), phase = "body", left = 0
    PROVE  Len(received) < Channel!Whole
<1> DEFINE k == Len(received) + 1
           N == Len(sent)
<1>1. /\ k \in 1 .. N /\ Taken(pos) = pos[k] + 4 /\ pos[k] \in Nat
      /\ Len(buf) = Len(sent[k]) - 4 /\ Len(sent[k]) \in Nat /\ pos[k + 1] = pos[k] + Len(sent[k])
  BY BodyWhole
<1>2. Len(received) \in Nat /\ N \in Nat /\ Len(net) \in Nat /\ Len(stream) \in Nat
  BY InvSizes
<1>3. ASSUME sender = "broken", k = N PROVE FALSE
  <2>1. Reached(pos) < pos[k + 1]
    BY <1>3 DEF Inv, Begun, Cut
  <2>2. Reached(pos) = pos[k] + 4 + (Len(sent[k]) - 4) + Len(net)
    BY <1>1 DEF Reached
  <2>3. pos[k] \in Nat /\ pos[k + 1] = pos[k] + Len(sent[k]) /\ Len(sent[k]) \in Nat
    BY <1>1
  <2>4. Len(net) \in Nat
    BY <1>2
  <2> DEFINE R == Reached(pos)
             P == pos[k]
             Q == pos[k + 1]
             L == Len(sent[k])
             n == Len(net)
  <2>5. R < Q /\ R = P + 4 + (L - 4) + n /\ P \in Nat /\ Q = P + L /\ L \in Nat /\ n \in Nat
    BY <2>1, <2>2, <2>3, <2>4
  <2> HIDE DEF R, P, Q, L, n
  <2> QED BY <2>5
<1>4. k < N \/ sender # "broken"
  BY <1>1, <1>2, <1>3
<1> QED BY <1>1, <1>2, <1>4 DEF Channel!Whole

(* Nothing is left but, at most, a frame that was broken off.              *)
LEMMA AllRead ==
    ASSUME NEW pos, NEW stream, Inv(pos, stream), ReadEnd
    PROVE  Len(received) = Channel!Whole
<1> DEFINE k == Len(received) + 1
           N == Len(sent)
<1>1. /\ phase \in {"length", "body"} /\ left > 0 /\ net = <<>> /\ sender # "open"
  BY DEF ReadEnd, Reading
<1>2. /\ Len(received) \in Nat /\ N \in Nat /\ Len(received) <= N /\ Len(stream) \in Nat
      /\ Len(buf) \in Nat /\ Len(net) = 0 /\ Len(stream) = pos[N + 1]
      /\ \A i \in 1 .. N : Len(sent[i]) \in Nat /\ Len(sent[i]) >= 4
      /\ \A i \in 1 .. N + 1 : pos[i] \in 0 .. Len(stream)
      /\ \A i \in 1 .. N : pos[i + 1] = pos[i] + Len(sent[i])
  BY <1>1, InvSizes DEF Inv, Cut
<1>3. left \in Nat
  BY DEF Inv, Typed
<1> DEFINE r == Reached(pos)
<1>4. r = Taken(pos) + Len(buf) /\ r \in Nat
  BY <1>2, InvSizes DEF Reached
(* The frame that is being read is not in the pipe as a whole.             *)
<1>5. k \in 1 .. N => r < pos[k + 1]
  <2> SUFFICES ASSUME k \in 1 .. N PROVE r < pos[k + 1]
    OBVIOUS
  <2> DEFINE c == pos[k]
             l == Len(sent[k])
  <2>1. c \in Nat /\ l \in Nat /\ l >= 4 /\ pos[k + 1] = c + l
    <3>1. k \in 1 .. N + 1
      BY <1>2
    <3>2. pos[k] \in 0 .. Len(stream)
      BY <1>2, <3>1
    <3> QED BY <1>2, <3>2
  <2>2. CASE phase = "length"
    <3>1. Taken(pos) = c + 0 /\ left + Len(buf) = 4
      BY <2>2 DEF Taken, Inv, Wanted
    <3> HIDE DEF c, l
    <3> QED BY <1>1, <1>2, <1>3, <1>4, <2>1, <3>1
  <2>3. CASE phase = "body"
    <3>1. Taken(pos) = c + 4 /\ left + Len(buf) = l - 4
      BY <2>3 DEF Taken, Inv, Wanted
    <3> HIDE DEF c, l
    <3> QED BY <1>1, <1>2, <1>3, <1>4, <2>1, <3>1
  <2> QED BY <1>1, <2>2, <2>3
<1>6. CASE sender # "broken"
  <2>1. out = <<>> /\ Len(out) = 0
    BY <1>1 DEF Inv
  <2>2. Taken(pos) + Len(buf) + Len(net) + Len(out) = Len(stream)
    BY <1>1, <1>6 DEF Inv, Piped
  <2>3. r = Len(stream)
    BY <1>2, <1>4, <2>1, <2>2
  <2>4. k \notin 1 .. N
    <3> SUFFICES ASSUME k \in 1 .. N PROVE FALSE
      OBVIOUS
    <3>1. k + 1 \in 1 .. N + 1
      BY <1>2
    <3>2. pos[k + 1] \in 0 .. Len(stream)
      BY <1>2, <3>1
    <3> HIDE DEF r
    <3> QED BY <1>2, <1>4, <1>5, <2>3, <3>2
  <2> QED BY <1>2, <1>6, <2>4 DEF Channel!Whole
<1>7. CASE sender = "broken"
  <2>1. r < pos[N + 1] /\ \A i \in 1 .. N : pos[i] <= r
    BY <1>1, <1>2, <1>7 DEF Inv, Begun
  <2>2. k # N + 1
    <3> SUFFICES ASSUME k = N + 1 PROVE FALSE
      OBVIOUS
    <3>1. Taken(pos) >= pos[N + 1]
      <4>1. pos[N + 1] \in Nat
        BY <1>2
      <4> QED BY <4>1 DEF Taken
    <3> HIDE DEF r
    <3> QED BY <1>2, <1>4, <2>1, <3>1, InvSizes
  <2>3. ~(k < N)
    <3> SUFFICES ASSUME k < N PROVE FALSE
      OBVIOUS
    <3>1. k \in 1 .. N /\ k + 1 \in 1 .. N /\ k + 1 \in 1 .. N + 1
      BY <1>2
    <3>2. r < pos[k + 1] /\ pos[k + 1] <= r /\ pos[k + 1] \in 0 .. Len(stream)
      BY <1>2, <1>5, <2>1, <3>1
    <3> HIDE DEF r
    <3> QED BY <1>2, <1>4, <3>2
  <2> QED BY <1>2, <1>7, <2>2, <2>3 DEF Channel!Whole
<1> QED BY <1>6, <1>7

(* recv_frame finds the end of the stream only after the sender's end.    *)
EndInTurn == phase = "end" => sender # "open"

LEMMA EndComesLast == Spec => []EndInTurn
<1>1. Init => EndInTurn
  BY DEF Init, EndInTurn
<1>2. EndInTurn /\ [Next]_vars => EndInTurn'
  BY DEF EndInTurn, Next, Receive, SendFrame, Write, End, Read, ReadEnd, LengthRead, BodyRead, vars
<1> QED BY <1>1, <1>2, PTL DEF Spec

LEMMA StepIsChannelStep ==
    IInv /\ EndInTurn /\ [Next]_vars => [Channel!Next]_(Channel!chanVars)
<1> SUFFICES ASSUME IInv, EndInTurn, [Next]_vars PROVE [Channel!Next]_(Channel!chanVars)
  OBVIOUS
<1>1. PICK pos, stream : Inv(pos, stream)
  BY DEF IInv
<1>2. ASSUME NEW f \in Frames, SendFrame(f) PROVE Channel!Post
  BY <1>2 DEF SendFrame, Channel!Post
<1>3. CASE Write \/ Read \/ LengthRead \/ UNCHANGED vars
  BY <1>3 DEF Write, Read, LengthRead, vars, Channel!chanVars
<1>4. CASE End
  <2>1. out # <<>> => Len(received) < Len(sent)
    BY <1>1, <1>4, BreaksInFrame DEF End, EndInTurn
  <2> QED BY <1>4, <2>1 DEF End, Channel!Next, Channel!Close
<1>5. CASE ReadEnd
  <2>1. Len(received) = Channel!Whole
    BY <1>1, <1>5, AllRead
  <2>2. ~(phase \in {"end", "thrown"}) /\ phase' \in {"end", "thrown"} /\ sender # "open"
    BY <1>5 DEF ReadEnd, Reading
  <2>3. UNCHANGED <<sent, received, sender>>
    BY <1>5 DEF ReadEnd
  <2> QED BY <2>1, <2>2, <2>3 DEF Channel!Next, Channel!Receive, Channel!NoMore
<1>6. CASE BodyRead
  <2>1. phase = "body" /\ left = 0 /\ UNCHANGED <<sender, sent>>
    BY <1>6 DEF BodyRead
  <2>2. ~(phase \in {"end", "thrown"}) /\ Channel!Waiting
    BY <1>1, <2>1, WholeFrameRead DEF Channel!Waiting
  <2>3. Channel!NextDecoded = ParseBody(buf)
    BY <1>1, <2>1, BodyWhole DEF Channel!NextDecoded, Decode
  <2>4. CASE ParseBody(buf) = Throws /\ phase' = "thrown" /\ UNCHANGED received
    <3>1. phase' \in {"end", "thrown"}
      BY <2>4
    <3> QED BY <2>1, <2>2, <2>3, <2>4, <3>1
            DEF Throws, Channel!Next, Channel!Receive, Channel!Refuse
  <2>5. ASSUME NEW x \in ParseBody(buf), received' = Append(received, x), phase' = "length"
        PROVE  Channel!Next
    <3>1. (phase' \in {"end", "thrown"}) <=> (phase \in {"end", "thrown"})
      BY <2>1, <2>5
    <3> QED BY <2>1, <2>2, <2>3, <2>5, <3>1 DEF Channel!Next, Channel!Receive, Channel!Deliver
  <2> QED BY <1>6, <2>4, <2>5 DEF BodyRead
<1> QED
  <2>1. \A m \in Messages : Build(m) \in Frames
    BY DEF Frames
  <2>2. \A f \in Strange : f \in Frames
    BY DEF Frames
  <2> QED BY <1>2, <1>3, <1>4, <1>5, <1>6, <2>1, <2>2 DEF Next, Receive, Channel!Next

(* The safety part of FrameChannel: frames come out decoded, whole, in     *)
(* order and in one step each, never one that was cut off, and recv_frame  *)
(* returns nullopt only when it has returned all that was sent whole, for  *)
(* any messages, any strange frames and any cutting of the stream.         *)
THEOREM WireIsChannel == Spec => Channel!Init /\ [][Channel!Next]_(Channel!chanVars)
<1>1. Init => Channel!Init
  BY DEF Init, Channel!Init
<1> QED BY <1>1, StepIsChannelStep, Invariance, EndComesLast, PTL DEF Spec

=============================================================================

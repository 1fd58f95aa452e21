------------------------------ MODULE RpcWire -------------------------------
(***************************************************************************)
(* One direction of an RPC connection (RPC/src/net.cpp): send_frame writes *)
(* a frame with as many send() calls as the kernel asks for, recv_frame    *)
(* reads four bytes of length and then the body with as many recv() calls  *)
(* as it takes, whatever pieces TCP makes of the stream.                   *)
(*                                                                         *)
(* The sender may end at any moment, in the middle of a frame too.  A peer *)
(* that is not an RpcClient or RpcServer may send other bodies.            *)
(* Errors of send and recv end the process (die) and are not shown here.   *)
(***************************************************************************)
EXTENDS RpcCodec

CONSTANTS
    Messages,   \* requests and responses an RpcClient or RpcServer builds
    Strange,    \* frames of other senders, with their length in front
    MaxFrames   \* bound: frames sent in a behaviour

(* What is built has its fields in range and a body that its length field  *)
(* can count, and so has what the others send.                             *)
ASSUME WireAssumption ==
    /\ Messages \subseteq Requests \cup Responses
    /\ \A m \in Messages : Len(Build(m)) - 4 < Base4
    /\ \A s \in Strange : s \in Seq(Byte) /\ Len(s) >= 4 /\ GetU32(s, 1) = Len(s) - 4

VARIABLES
    sender,    \* "open", "closed" or "broken" (ended within a frame)
    out,       \* what write_n has not given to the kernel yet
    net,       \* bytes on their way
    phase,     \* recv_frame: "length", "body"; "end": it returned nullopt;
               \* "thrown": parse_body_to_frame threw
    left,      \* read_n: how many bytes it still wants
    buf,       \* read_n: the bytes it has
    sent,      \* history: the frames sent
    received   \* history: what recv_frame returned

vars == <<sender, out, net, phase, left, buf, sent, received>>

Init ==
    /\ sender = "open"
    /\ out = <<>>
    /\ net = <<>>
    /\ phase = "length"
    /\ left = 4
    /\ buf = <<>>
    /\ sent = <<>>
    /\ received = <<>>
-----------------------------------------------------------------------------
SendFrame(frame) ==
    /\ sender = "open"
    /\ out = <<>>
    /\ out' = frame
    /\ sent' = Append(sent, frame)
    /\ UNCHANGED <<sender, net, phase, left, buf, received>>

(* Mutant of Write: what send() returns is not looked at.                  *)
WriteOnce ==
    /\ out # <<>>
    /\ \E n \in 1 .. Len(out) : net' = net \o SubSeq(out, 1, n)
    /\ out' = <<>>
    /\ UNCHANGED <<sender, phase, left, buf, sent, received>>

(* send() takes some of the bytes.                                         *)
Write ==
    /\ out # <<>>
    /\ \E n \in 1 .. Len(out) :
         /\ net' = net \o SubSeq(out, 1, n)
         /\ out' = Skip(out, n)
    /\ UNCHANGED <<sender, phase, left, buf, sent, received>>

(* close_client, or the end of the process.                                *)
End ==
    /\ sender = "open"
    /\ sender' = IF out = <<>> THEN "closed" ELSE "broken"
    /\ out' = <<>>
    /\ UNCHANGED <<net, phase, left, buf, sent, received>>
-----------------------------------------------------------------------------
Reading == phase \in {"length", "body"} /\ left > 0

(* Mutant of Read: recv is asked for more than is still wanted.            *)
ReadBeyond ==
    /\ Reading
    /\ net # <<>>
    /\ \E n \in 1 .. Len(net) :
         /\ buf' = buf \o SubSeq(net, 1, n)
         /\ net' = Skip(net, n)
         /\ left' = left - n
    /\ UNCHANGED <<sender, out, phase, sent, received>>

(* recv() returns some of the bytes asked for.                             *)
Read ==
    /\ Reading
    /\ net # <<>>
    /\ \E n \in 1 .. Len(net) :
         /\ n <= left
         /\ buf' = buf \o SubSeq(net, 1, n)
         /\ net' = Skip(net, n)
         /\ left' = left - n
    /\ UNCHANGED <<sender, out, phase, sent, received>>

(* recv() returns 0: recv_frame returns nullopt, within a frame or not.    *)
ReadEnd ==
    /\ Reading
    /\ net = <<>>
    /\ sender # "open"
    /\ phase' = "end"
    /\ UNCHANGED <<sender, out, net, left, buf, sent, received>>

(* Mutant of LengthRead: the length field is counted once more.            *)
LengthReadTwice ==
    /\ phase = "length"
    /\ left = 0
    /\ phase' = "body"
    /\ left' = GetU32(buf, 1) + 4
    /\ buf' = <<>>
    /\ UNCHANGED <<sender, out, net, sent, received>>

LengthRead ==
    /\ phase = "length"
    /\ left = 0
    /\ phase' = "body"
    /\ left' = GetU32(buf, 1)
    /\ buf' = <<>>
    /\ UNCHANGED <<sender, out, net, sent, received>>

BodyRead ==
    /\ phase = "body"
    /\ left = 0
    /\ \/ /\ ParseBody(buf) = Throws
          /\ phase' = "thrown"
          /\ UNCHANGED <<left, buf, received>>
       \/ \E f \in ParseBody(buf) :
             /\ received' = Append(received, f)
             /\ phase' = "length"
             /\ left' = 4
             /\ buf' = <<>>
    /\ UNCHANGED <<sender, out, net, sent>>

(* Bounds: so many frames, or one strange frame alone.                     *)
FramesLeft == Len(sent) < MaxFrames /\ \A i \in DOMAIN sent : sent[i] \notin Strange

Receive == Read \/ ReadEnd \/ LengthRead \/ BodyRead

Next ==
    \/ \E m \in Messages : SendFrame(Build(m)) /\ FramesLeft
    \/ \E s \in Strange : SendFrame(s) /\ sent = <<>>  \* bound
    \/ Write \/ End \/ Receive

(* A thread in send_frame or recv_frame goes on with it.                   *)
Spec == Init /\ [][Next]_vars /\ WF_vars(Write) /\ WF_vars(Receive)
-----------------------------------------------------------------------------
TypeOK ==
    /\ sender \in {"open", "closed", "broken"}
    /\ out \in Seq(Byte)
    /\ net \in Seq(Byte)
    /\ phase \in {"length", "body", "end", "thrown"}
    /\ left \in Nat
    /\ buf \in Seq(Byte)
    /\ sent \in Seq(Seq(Byte))
    /\ \A i \in DOMAIN received :
          received[i].type \in Byte /\ received[i].payload \in Seq(Byte)

(* The frames that come out of recv_frame are those that went into         *)
(* send_frame, whole, once and in order, however writes and reads cut the  *)
(* stream, and every message is decoded to what was encoded.               *)
FramesAsSent ==
    /\ Len(received) <= Len(sent)
    /\ \A i \in DOMAIN received, m \in Messages :
          sent[i] = Build(m) => Parse(received[i]) = {m}

(* Two byte strings never stand for the same request: a request that is    *)
(* accepted, from whatever peer, encodes to the very bytes received.       *)
RequestsCanonical ==
    \A i \in DOMAIN received :
        received[i].type = REQUEST =>
            \A r \in ParseRequest(received[i]) : Build(r) = sent[i]

(* Only a strange frame makes recv_frame throw.                            *)
OwnFramesAccepted ==
    phase = "thrown" => sent[Len(received) + 1] \in Strange

-----------------------------------------------------------------------------
(* What may be sent, and what recv_frame makes of it.                      *)
Frames == Strange \cup {Build(m) : m \in Messages}

Decode(frame) == ParseBody(Skip(frame, 4))

Channel == INSTANCE FrameChannel WITH
    posted <- sent,
    got <- received,
    stopped <- phase \in {"end", "thrown"}

(* A connection is a channel of frames: however the stream is cut, and     *)
(* wherever it ends, recv_frame returns the frames one by one, whole,      *)
(* decoded and in order; it throws at the first that is no frame; it       *)
(* returns nullopt when, and not before, all that was sent whole is        *)
(* received; and one of these does come.                                   *)
ImplementsFrameChannel == Channel!Spec
=============================================================================

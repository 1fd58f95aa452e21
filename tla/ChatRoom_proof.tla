--------------------------- MODULE ChatRoom_proof ---------------------------
(***************************************************************************)
(* Proofs about the room: its clients are peers as ChatServer takes them,  *)
(* so that what is proved of the server holds here, and a client is in the *)
(* room as long as its receiver listens.                                   *)
(***************************************************************************)
EXTENDS ChatRoom, ChatServer_proof

(* A client whose main thread is not past the destructor, or whose         *)
(* receiver is in recv, has an open connection the server knows about, or  *)
(* the server has hung up.                                                 *)
Present(p) == (link[p] = "open" /\ p \in backlog \cup Connected) \/ HungUp(p)

ClientInv(p) ==
    /\ main[p] = "off" => ear[p] = "none" /\ ~stop[p]
    /\ main[p] = "send" => out[p] # <<>>
    /\ main[p] = "join" => stop[p]
    /\ main[p] = "gone" => ear[p] = "over"
    /\ main[p] \in {"send", "getline", "close"} => Present(p)
    /\ ear[p] = "recv" => Present(p)

RoomTyped ==
    /\ main \in [Peers -> {"off", "send", "getline", "close", "join", "gone"}]
    /\ ear \in [Peers -> {"none", "recv", "print", "over"}]
    /\ stop \in [Peers -> BOOLEAN]
    /\ out \in [Peers -> Stream]

RoomInv == ChatInv /\ RoomTyped /\ \A p \in Peers : ClientInv(p)
-----------------------------------------------------------------------------
LEMMA ReleaseIsHangUp ==
    ASSUME TypeOK, NEW p \in Peers, NEW n, Release(p, n), Present(p)
    PROVE  [Next]_vars
<1>1. CASE HungUp(p)
  BY <1>1 DEF Release
<1>2. CASE ~HungUp(p)
  <2>1. link[p] = "open" /\ pc # "dead"
    BY <1>2 DEF HungUp, Present
  <2>2. HangUp(p)
    BY <1>2, <2>1 DEF Release, HangUp
  <2> QED BY <2>2 DEF Next
<1> QED BY <1>1, <1>2

(* Every step of the room is a step of the chat with arbitrary peers.      *)
LEMMA RoomStepIsChatStep == RoomInv /\ [RoomNext]_roomVars => [Next]_vars
<1> SUFFICES ASSUME RoomInv, [RoomNext]_roomVars PROVE [Next]_vars
  OBVIOUS
<1>1. CASE ServerStep
  BY <1>1 DEF ServerStep, Next
<1>2. ASSUME NEW p \in Peers, Start(p) PROVE [Next]_vars
  BY <1>2 DEF Start, Next
<1>3. ASSUME NEW p \in Peers, SendPart(p) PROVE [Next]_vars
  <2>1. CASE HungUp(p)
    BY <1>3, <2>1 DEF SendPart
  <2>2. CASE ~HungUp(p)
    <3>1. Send(p, Head(out[p]))
      BY <1>3, <2>2 DEF SendPart
    <3>2. Head(out[p]) \in Chars \cup {NL}
      <4>1. out[p] \in Seq(Chars \cup {NL}) /\ out[p] # <<>>
        BY <1>3 DEF SendPart, At, RoomInv, RoomTyped, ClientInv, Stream
      <4> QED BY <4>1, HeadTailProperties
    <3> QED BY <3>1, <3>2 DEF Next
  <2> QED BY <2>1, <2>2
<1>4. ASSUME NEW p \in Peers,
             SendFails(p) \/ SendKills(p) \/ Type(p) \/ Join(p) \/ EarPrint(p) \/ EarEnds(p)
      PROVE  [Next]_vars
  BY <1>4 DEF SendFails, SendKills, Type, Join, EarPrint, EarEnds
<1>5. ASSUME NEW p \in Peers, EndOfInput(p) \/ Close(p) PROVE [Next]_vars
  <2>1. Present(p)
    BY <1>5 DEF EndOfInput, Close, At, RoomInv, ClientInv
  <2>2. UNCHANGED vars \/ Release(p, Unread(p))
    BY <1>5 DEF EndOfInput, Close, Closes
  <2> QED BY <2>1, <2>2, ReleaseIsHangUp DEF RoomInv, ChatInv, StateInv
<1>6. ASSUME NEW p \in Peers, EarRecv(p) PROVE [Next]_vars
  <2>1. Present(p)
    BY <1>6 DEF EarRecv, RoomInv, ClientInv
  <2>2. UNCHANGED vars \/ Release(p, 0)
    BY <1>6 DEF EarRecv
  <2> QED BY <2>1, <2>2, ReleaseIsHangUp DEF RoomInv, ChatInv, StateInv
<1>7. CASE Stop
  BY <1>7 DEF Next
<1>8. CASE UNCHANGED roomVars
  BY <1>8 DEF roomVars
<1> QED BY <1>1, <1>2, <1>3, <1>4, <1>5, <1>6, <1>7, <1>8 DEF RoomNext, MainStep, EarStep
-----------------------------------------------------------------------------
LEMMA RoomStart == RoomInit => RoomInv
<1> SUFFICES ASSUME RoomInit PROVE RoomInv
  OBVIOUS
<1>1. ChatInv
  BY StateStart, HearStart DEF RoomInit, ChatInv
<1>2. RoomTyped
  BY EmptySeq DEF RoomInit, RoomTyped, Stream
<1> QED BY <1>1, <1>2 DEF RoomInit, RoomInv, ClientInv

(* The server keeps whoever waits in the backlog with an open connection.  *)
LEMMA ServerKeepsWaiting ==
    ASSUME ChatInv, Server, NEW p \in backlog, link[p] = "open", pc' # "dead"
    PROVE  p \in backlog' \cup Connected' /\ link'[p] = "open"
<1>1. /\ p \in Peers /\ p \notin Connected
      /\ TypeOK /\ MapMatchesKernel /\ members \subseteq Fds
  BY DEF ChatInv, StateInv, TypeOK, HearInv, Newcomers
<1>2. \A fds \in SUBSET members : p \notin PeersOf(fds)
  BY <1>1 DEF PeersOf, Connected
<1>3. CASE EpollWait \/ AcceptEnds \/ Recv \/ RecvWouldBlock \/ ParseEnds \/ ServeUnknown
  BY <1>3 DEF EpollWait, AcceptEnds, Recv, RecvWouldBlock, ParseEnds, ServeUnknown, kernelVars
<1>4. CASE OnAccept
  <2>1. PICK q \in backlog, f \in FreeFds :
          /\ backlog' = backlog \ {q}
          /\ conn' = [conn EXCEPT ![f] = q]
          /\ UNCHANGED link \/ (link[q] = "closed" /\ link' = [link EXCEPT ![q] = "reset"])
    BY <1>4 DEF OnAccept
  <2>2. q = p => p \in Connected'
    BY <1>1, <2>1 DEF Connected, FreeFds, TypeOK
  <2> QED BY <1>1, <2>1, <2>2 DEF TypeOK
<1>5. ASSUME NEW drop \in SUBSET members, NEW hit \in SUBSET members, Drop(drop, hit)
      PROVE  link'[p] = "open"
  BY <1>1, <1>2, <1>5 DEF Drop
<1>6. ASSUME NEW m, NEW also \in SUBSET members, Broadcast(m, also)
      PROVE  link'[p] = "open"
  <2>1. PICK full \in SUBSET members, hit \in SUBSET Behind("closed") :
          Drop(full \cup Behind("reset") \cup also, hit)
    BY <1>6 DEF Broadcast
  <2> QED BY <1>5, <2>1, BehindMembers
<1>7. CASE RecvEnd
  <2>1. {cur} \in SUBSET members /\ Broadcast(Left, {cur}) /\ backlog' = backlog
    BY <1>7 DEF RecvEnd, Serving, Killed, Die
  <2> QED BY <1>6, <2>1
<1>8. CASE RecvError
  <2>1. {cur} \in SUBSET members /\ Drop({cur}, {}) /\ backlog' = backlog
    BY <1>8 DEF RecvError, Serving
  <2> QED BY <1>5, <2>1
<1>9. CASE ParseLine
  <2>1. Broadcast(Message, {}) /\ backlog' = backlog
    BY <1>9 DEF ParseLine, Killed, Die
  <2> QED BY <1>6, <2>1
<1>10. CASE ParseFreed
  <2>1. (\E m : Broadcast(m, {})) /\ backlog' = backlog
    BY <1>10 DEF ParseFreed, Killed, Die
  <2> QED BY <1>6, <2>1
<1> QED BY <1>3, <1>4, <1>7, <1>8, <1>9, <1>10 DEF Server

(* A connection the server has closed stays closed.                        *)
LEMMA GoneStays ==
    ASSUME ChatInv, Server, NEW p \in Peers, link[p] = "gone"
    PROVE  link'[p] = "gone"
<1>1. TypeOK /\ members \subseteq Fds
  BY DEF ChatInv, StateInv, TypeOK
<1>2. ASSUME NEW drop, NEW hit \in SUBSET Behind("closed"), Drop(drop, hit)
      PROVE  link'[p] = "gone"
  <2>1. p \notin PeersOf(hit)
    BY DEF PeersOf, Behind
  <2> QED BY <1>2, <2>1 DEF Drop
<1>3. ASSUME NEW m, NEW also, Broadcast(m, also) PROVE link'[p] = "gone"
  <2>1. \E drop, hit : hit \in SUBSET Behind("closed") /\ Drop(drop, hit)
    BY <1>3 DEF Broadcast
  <2> QED BY <1>2, <2>1
<1>4. CASE EpollWait \/ AcceptEnds \/ Recv \/ RecvWouldBlock \/ ParseEnds \/ ServeUnknown
  BY <1>4 DEF EpollWait, AcceptEnds, Recv, RecvWouldBlock, ParseEnds, ServeUnknown, kernelVars
<1>5. CASE OnAccept
  <2>1. PICK q : UNCHANGED link \/ (link[q] = "closed" /\ link' = [link EXCEPT ![q] = "reset"])
    BY <1>5 DEF OnAccept
  <2> QED BY <1>1, <2>1 DEF TypeOK
<1>6. CASE RecvEnd
  BY <1>3, <1>6 DEF RecvEnd, Killed, Die
<1>7. CASE RecvError
  <2>1. Drop({cur}, {}) /\ {} \in SUBSET Behind("closed")
    BY <1>7 DEF RecvError
  <2> QED BY <1>2, <2>1
<1>8. CASE ParseLine
  BY <1>3, <1>8 DEF ParseLine, Killed, Die
<1>9. CASE ParseFreed
  BY <1>3, <1>9 DEF ParseFreed, Killed, Die
<1> QED BY <1>4, <1>5, <1>6, <1>7, <1>8, <1>9 DEF Server

LEMMA ServerKeepsPresent ==
    ASSUME ChatInv, Server, NEW p \in Peers, Present(p)
    PROVE  Present(p)'
<1>1. pc # "dead" /\ StateInv
  BY DEF ChatInv, Server, EpollWait, ServeUnknown, OnAccept, AcceptEnds, Recv, RecvWouldBlock,
         RecvEnd, RecvError, ParseLine, ParseFreed, ParseEnds, Serving
<1>2. CASE pc' = "dead"
  BY <1>2 DEF Present, HungUp
<1>3. CASE link[p] = "gone"
  BY <1>3, GoneStays DEF Present, HungUp
<1>4. CASE pc' # "dead" /\ link[p] # "gone"
  <2>1. link[p] = "open" /\ p \in backlog \cup Connected
    BY <1>1, <1>4 DEF Present, HungUp
  <2>2. \/ p \in backlog' \cup Connected' /\ link'[p] = "open"
        \/ link'[p] = "gone"
    BY <1>1, <1>4, <2>1, ServerSpares, ServerKeepsWaiting DEF Spared
  <2> QED BY <2>2 DEF Present, HungUp
<1> QED BY <1>2, <1>3, <1>4

(* A client does nothing to the others.                                    *)
Apart(q) ==
    /\ UNCHANGED <<conn, pc>>
    /\ backlog \subseteq backlog'
    /\ \A p \in Peers \ {q} : /\ link'[p] = link[p] /\ main'[p] = main[p] /\ out'[p] = out[p]
                             /\ ear'[p] = ear[p] /\ stop'[p] = stop[p]

LEMMA OthersKeep ==
    ASSUME RoomInv, NEW q \in Peers, Apart(q), RoomTyped', ClientInv(q)'
    PROVE  RoomTyped' /\ \A p \in Peers : ClientInv(p)'
BY DEF RoomInv, Apart, ClientInv, Present, HungUp, Connected

LEMMA ReleaseApart ==
    ASSUME TypeOK, NEW q \in Peers, NEW n, Release(q, n) \/ UNCHANGED vars
    PROVE  /\ UNCHANGED <<conn, pc, backlog>>
           /\ \A p \in Peers \ {q} : link'[p] = link[p]
BY DEF Release, vars, kernelVars, serverVars, TypeOK
-----------------------------------------------------------------------------
LEMMA RoomTail ==
    ASSUME NEW s \in Stream, s # <<>>
    PROVE  Tail(s) \in Stream /\ (Len(s) > 1 => Tail(s) # <<>>)
<1>1. s \in Seq(Chars \cup {NL}) /\ Len(s) \in Nat
  BY LenProperties DEF Stream
<1>2. Tail(s) \in Seq(Chars \cup {NL}) /\ Len(Tail(s)) = Len(s) - 1
  BY <1>1, HeadTailProperties
<1>3. Tail(s) = <<>> => Len(Tail(s)) = 0
  BY EmptySeq
<1> QED BY <1>1, <1>2, <1>3 DEF Stream

LEMMA TypedLine ==
    ASSUME NEW s \in Typed
    PROVE  Append(s, NL) \in Stream /\ Append(s, NL) # <<>>
<1>1. s \in Seq(Chars \cup {NL})
  BY RoomAssumption, SeqMonotonic
<1>2. Append(s, NL) \in Seq(Chars \cup {NL}) /\ Len(Append(s, NL)) = Len(s) + 1 /\ Len(s) \in Nat
  BY <1>1, AppendProperties, LenProperties
<1>3. Append(s, NL) = <<>> => Len(Append(s, NL)) = 0
  BY EmptySeq
<1> QED BY <1>2, <1>3 DEF Stream

LEMMA ClientStep ==
    ASSUME RoomInv, NEW q \in Peers,
           Start(q) \/ Type(q) \/ EndOfInput(q) \/ MainStep(q) \/ EarStep(q)
    PROVE  Apart(q) /\ RoomTyped' /\ \A p \in Peers : ClientInv(p)'
<1>1. TypeOK /\ RoomTyped /\ ClientInv(q) /\ <<>> \in Stream
  BY EmptySeq DEF RoomInv, ChatInv, StateInv, Stream
<1> SUFFICES Apart(q) /\ RoomTyped' /\ ClientInv(q)'
  BY OthersKeep
<1>2. CASE Start(q)
  <2>1. /\ main[q] = "off" /\ main' = [main EXCEPT ![q] = "send"]
        /\ link' = [link EXCEPT ![q] = "open"] /\ backlog' = backlog \cup {q}
        /\ UNCHANGED <<conn, pc, ear, stop>>
    BY <1>2 DEF Start, At, GoTo, Connect, serverVars
  <2>2. PICK nick \in Typed : out' = [out EXCEPT ![q] = Append(nick, NL)]
    BY <1>2 DEF Start
  <2>3. Append(nick, NL) \in Stream /\ Append(nick, NL) # <<>>
    BY TypedLine
  <2>4. Apart(q)
    BY <1>1, <2>1, <2>2 DEF Apart, RoomTyped, TypeOK
  <2>5. RoomTyped'
    BY <1>1, <2>1, <2>2, <2>3 DEF RoomTyped
  <2>6. Present(q)'
    BY <1>1, <2>1 DEF Present, TypeOK
  <2> QED BY <1>1, <2>1, <2>2, <2>3, <2>4, <2>5, <2>6 DEF ClientInv, RoomTyped
<1>3. CASE Type(q)
  <2>1. /\ main[q] = "getline" /\ main' = [main EXCEPT ![q] = "send"]
        /\ UNCHANGED <<link, backlog, conn, pc, ear, stop>>
    BY <1>3 DEF Type, At, GoTo, vars, kernelVars, serverVars
  <2>2. PICK line \in Typed : out' = [out EXCEPT ![q] = Append(line, NL)]
    BY <1>3 DEF Type
  <2>3. Append(line, NL) \in Stream /\ Append(line, NL) # <<>>
    BY TypedLine
  <2>4. Apart(q)
    BY <1>1, <2>1, <2>2 DEF Apart, RoomTyped
  <2>5. RoomTyped'
    BY <1>1, <2>1, <2>2, <2>3 DEF RoomTyped
  <2> QED BY <1>1, <2>1, <2>2, <2>3, <2>4, <2>5 DEF ClientInv, RoomTyped, Present, HungUp, Connected
<1>4. CASE EndOfInput(q) \/ Close(q)
  <2>1. /\ main[q] \in {"getline", "close"} /\ main' = [main EXCEPT ![q] = "join"]
        /\ stop' = [stop EXCEPT ![q] = TRUE] /\ UNCHANGED out
        /\ \/ ear[q] = "recv" /\ UNCHANGED <<vars, ear>>
           \/ /\ Release(q, Unread(q))
              /\ ear' = [ear EXCEPT ![q] = IF @ = "recv" THEN "over" ELSE @]
    BY <1>4 DEF EndOfInput, Close, Closes, At, GoTo
  <2>2. UNCHANGED <<conn, pc, backlog>> /\ \A p \in Peers \ {q} : link'[p] = link[p]
    BY <1>1, <2>1, ReleaseApart
  <2>3. Apart(q) /\ RoomTyped'
    BY <1>1, <2>1, <2>2 DEF Apart, RoomTyped
  <2>4. main'[q] = "join" /\ stop'[q]
    BY <1>1, <2>1 DEF RoomTyped
  <2>5. CASE ear[q] = "recv" /\ UNCHANGED <<vars, ear>>
    <3>1. Present(q)'
      BY <1>1, <2>5 DEF ClientInv, Present, HungUp, Connected, vars, kernelVars, serverVars
    <3> QED BY <2>3, <2>4, <3>1 DEF ClientInv
  <2>6. CASE ear' = [ear EXCEPT ![q] = IF @ = "recv" THEN "over" ELSE @]
    <3>1. ear'[q] # "recv"
      BY <1>1, <2>6 DEF RoomTyped
    <3> QED BY <2>3, <2>4, <3>1 DEF ClientInv
  <2> QED BY <2>1, <2>5, <2>6
<1>5. CASE SendPart(q)
  <2>1. /\ main[q] = "send" /\ out' = [out EXCEPT ![q] = Tail(@)]
        /\ UNCHANGED <<link, backlog, conn, pc, stop>>
    BY <1>5 DEF SendPart, At, vars, kernelVars, serverVars, Send
  <2>2. out[q] \in Stream /\ out[q] # <<>> /\ Present(q)
    BY <1>1, <2>1 DEF ClientInv, RoomTyped
  <2>3. Tail(out[q]) \in Stream /\ (Len(out[q]) > 1 => Tail(out[q]) # <<>>)
    BY <2>2, RoomTail
  <2>4. Present(q)'
    BY <2>1, <2>2 DEF Present, HungUp, Connected
  <2>5. CASE Len(out[q]) > 1
    <3>1. UNCHANGED <<main, ear>>
      BY <1>5, <2>5 DEF SendPart
    <3> QED BY <1>1, <2>1, <2>3, <2>4, <2>5, <3>1 DEF Apart, RoomTyped, ClientInv
  <2>6. CASE ~(Len(out[q]) > 1)
    <3>1. /\ main' = [main EXCEPT ![q] = IF stop[q] THEN "close" ELSE "getline"]
          /\ ear' = [ear EXCEPT ![q] = IF @ = "none" THEN "recv" ELSE @]
      BY <1>5, <2>6 DEF SendPart, GoTo
    <3>2. Apart(q) /\ RoomTyped'
      BY <1>1, <2>1, <2>3, <3>1 DEF Apart, RoomTyped
    <3>3. main'[q] \in {"close", "getline"}
      BY <1>1, <3>1 DEF RoomTyped
    <3> QED BY <2>4, <3>2, <3>3 DEF ClientInv
  <2> QED BY <2>5, <2>6
<1>6. CASE SendFails(q)
  <2>1. /\ main[q] = "send" /\ out' = [out EXCEPT ![q] = <<>>]
        /\ UNCHANGED <<link, backlog, conn, pc>>
        /\ \/ /\ main' = [main EXCEPT ![q] = "getline"]
              /\ ear' = [ear EXCEPT ![q] = "recv"]
              /\ stop' = stop
           \/ /\ main' = [main EXCEPT ![q] = "close"]
              /\ stop' = [stop EXCEPT ![q] = TRUE]
              /\ ear' = ear
    BY <1>6 DEF SendFails, At, GoTo, vars, kernelVars, serverVars
  <2>2. Apart(q) /\ RoomTyped'
    BY <1>1, <2>1 DEF Apart, RoomTyped
  <2>3. Present(q)'
    BY <1>1, <2>1 DEF ClientInv, Present, HungUp, Connected
  <2>4. main'[q] \in {"getline", "close"}
    BY <1>1, <2>1 DEF RoomTyped
  <2> QED BY <2>2, <2>3, <2>4 DEF ClientInv
<1>7. CASE SendKills(q) \/ Join(q)
  <2>1. /\ main' = [main EXCEPT ![q] = "gone"]
        /\ UNCHANGED <<link, backlog, conn, pc, stop>>
        /\ ear' = [ear EXCEPT ![q] = "over"]
        /\ out' = [out EXCEPT ![q] = <<>>] \/ out' = out
    <3>1. CASE SendKills(q)
      BY <3>1 DEF SendKills, GoTo, vars, kernelVars, serverVars
    <3>2. CASE Join(q)
      BY <1>1, <3>2 DEF Join, GoTo, vars, kernelVars, serverVars, RoomTyped
    <3> QED BY <1>7, <3>1, <3>2
  <2>2. Apart(q) /\ RoomTyped'
    BY <1>1, <2>1 DEF Apart, RoomTyped
  <2>3. main'[q] = "gone" /\ ear'[q] = "over"
    BY <1>1, <2>1 DEF RoomTyped
  <2> QED BY <2>2, <2>3 DEF ClientInv
<1>8. CASE EarRecv(q)
  <2>1. /\ ear[q] = "recv" /\ ear' = [ear EXCEPT ![q] = "print"]
        /\ UNCHANGED <<main, out, stop>>
        /\ Release(q, 0) \/ UNCHANGED vars
        /\ ~At(q, "join") => UNCHANGED vars
    BY <1>8 DEF EarRecv
  <2>2. UNCHANGED <<conn, pc, backlog>> /\ \A p \in Peers \ {q} : link'[p] = link[p]
    BY <1>1, <2>1, ReleaseApart
  <2>3. Apart(q) /\ RoomTyped'
    BY <1>1, <2>1, <2>2 DEF Apart, RoomTyped
  <2>4. ear'[q] = "print"
    BY <1>1, <2>1 DEF RoomTyped
  <2>5. main[q] \in {"send", "getline", "close"} => Present(q)'
    <3>1. main[q] \in {"send", "getline", "close"} => UNCHANGED vars
      BY <2>1 DEF At
    <3> QED BY <1>1, <3>1 DEF ClientInv, Present, HungUp, Connected, vars, kernelVars, serverVars
  <2> QED BY <1>1, <2>1, <2>3, <2>4, <2>5 DEF ClientInv
<1>9. CASE EarPrint(q)
  <2>1. /\ ear[q] = "print" /\ ear' = [ear EXCEPT ![q] = IF stop[q] THEN "over" ELSE "recv"]
        /\ UNCHANGED <<link, backlog, conn, pc, main, out, stop>>
    BY <1>9 DEF EarPrint, vars, kernelVars, serverVars
  <2>2. Apart(q) /\ RoomTyped'
    BY <1>1, <2>1 DEF Apart, RoomTyped
  <2>3. ~stop[q] => main[q] \in {"send", "getline", "close"}
    BY <1>1, <2>1 DEF ClientInv, RoomTyped
  <2>4. ear'[q] = IF stop[q] THEN "over" ELSE "recv"
    BY <1>1, <2>1 DEF RoomTyped
  <2> QED BY <1>1, <2>1, <2>2, <2>3, <2>4 DEF ClientInv, Present, HungUp, Connected
<1>10. CASE EarEnds(q)
  <2>1. /\ ear[q] = "recv" /\ ear' = [ear EXCEPT ![q] = "over"]
        /\ stop' = [stop EXCEPT ![q] = TRUE]
        /\ UNCHANGED <<link, backlog, conn, pc, main, out>>
    BY <1>10 DEF EarEnds, vars, kernelVars, serverVars
  <2>2. Apart(q) /\ RoomTyped'
    BY <1>1, <2>1 DEF Apart, RoomTyped
  <2>3. ear'[q] = "over"
    BY <1>1, <2>1 DEF RoomTyped
  <2> QED BY <1>1, <2>1, <2>2, <2>3 DEF ClientInv, Present, HungUp, Connected
<1> QED BY <1>2, <1>3, <1>4, <1>5, <1>6, <1>7, <1>8, <1>9, <1>10 DEF MainStep, EarStep

LEMMA RoomStep == RoomInv /\ [RoomNext]_roomVars => RoomInv'
<1> SUFFICES ASSUME RoomInv, [RoomNext]_roomVars PROVE RoomInv'
  OBVIOUS
<1>1. ChatInv'
  BY RoomStepIsChatStep, StateStep, HearSteps DEF RoomInv, ChatInv
<1>2. RoomTyped' /\ \A p \in Peers : ClientInv(p)'
  <2>1. CASE ServerStep
    <3>1. Server /\ UNCHANGED clientVars
      BY <2>1 DEF ServerStep
    <3>2. \A p \in Peers : Present(p) => Present(p)'
      BY <3>1, ServerKeepsPresent DEF RoomInv
    <3> QED BY <3>1, <3>2 DEF RoomInv, RoomTyped, ClientInv, clientVars
  <2>2. CASE Stop /\ UNCHANGED clientVars
    <3>1. \A p \in Peers : Present(p)'
      BY <2>2 DEF Stop, Die, Present, HungUp
    <3> QED BY <2>2, <3>1 DEF RoomInv, RoomTyped, ClientInv, clientVars
  <2>3. CASE UNCHANGED roomVars
    BY <2>3 DEF RoomInv, RoomTyped, ClientInv, Present, HungUp, Connected, roomVars, clientVars,
                vars, kernelVars, serverVars
  <2> QED BY <2>1, <2>2, <2>3, ClientStep DEF RoomNext
<1> QED BY <1>1, <1>2 DEF RoomInv
-----------------------------------------------------------------------------
THEOREM RoomInvariant == RoomSpec => []RoomInv
BY RoomStart, RoomStep, PTL DEF RoomSpec

(* The room is an instance of the chat: its clients do nothing that a peer *)
(* of ChatServer cannot do, so that what holds of the server with any      *)
(* peers holds with its own client program.                                *)
THEOREM ClientsArePeers == RoomSpec => Init /\ [][Next]_vars
<1>1. RoomInit => Init
  BY DEF RoomInit
<1>2. RoomInv /\ [RoomNext]_roomVars => [Next]_vars
  BY RoomStepIsChatStep
<1> QED BY <1>1, <1>2, RoomInvariant, PTL DEF RoomSpec

(* The chat of these clients is one conversation too, and what is heard of *)
(* each of them from its Client are the lines its send_all has written.    *)
THEOREM RoomIsAChat ==
    RoomSpec => [](MapMatchesKernel /\ EveryoneHearsTheSame /\ LinesAsSent)
<1>1. Init => ChatInv /\ LinesInv
  BY StateStart, HearStart, LinesStart DEF ChatInv
<1>2. ChatInv /\ LinesInv /\ [Next]_vars => ChatInv' /\ LinesInv'
  BY StateStep, HearSteps, LinesStep DEF ChatInv
<1>3. ChatInv /\ LinesInv => MapMatchesKernel /\ EveryoneHearsTheSame /\ LinesAsSent
  BY InStepIsStretch, InOrderIsAsSent DEF ChatInv, StateInv, LinesInv
<1> QED BY <1>1, <1>2, <1>3, ClientsArePeers, PTL

(* Whoever is in the room, or waits for it, stays, unless a client's own   *)
(* message does not fit.                                                   *)
LEMMA RoomKeeps ==
    ASSUME RoomInv, RoomNext, NEW p \in Peers, link[p] = "open", p \in backlog \cup Connected
    PROVE  p \in (backlog \cup Connected)' \/ pc' = "dead" \/ (p \in Connected /\ Refused(p))
<1>1. ChatInv /\ StateInv
  BY DEF RoomInv, ChatInv
<1>2. CASE ServerStep
  <2>1. Server
    BY <1>2 DEF ServerStep
  <2>2. CASE p \in Connected
    BY <1>1, <2>1, <2>2, ServerSpares DEF Spared
  <2>3. CASE p \in backlog
    BY <1>1, <2>1, <2>3, ServerKeepsWaiting
  <2> QED BY <2>2, <2>3
<1>3. CASE Stop
  BY <1>3 DEF Stop, Die
<1>4. ASSUME NEW q \in Peers, Start(q) \/ Type(q) \/ EndOfInput(q) \/ MainStep(q) \/ EarStep(q)
      PROVE  p \in (backlog \cup Connected)'
  <2>1. conn' = conn /\ backlog \subseteq backlog'
    BY <1>4, ClientStep DEF Apart
  <2> QED BY <2>1 DEF Connected
<1> QED BY <1>2, <1>3, <1>4 DEF RoomNext

(* A client is in the room while its receiver listens, with any number of  *)
(* clients: a stale event, somebody else's failure or the destructor that  *)
(* waits in another thread never puts it out, only the end of the server   *)
(* or a message that its own send buffer has no room for.                  *)
THEOREM RoomListens == RoomSpec => ListenersInRoom
<1> DEFINE Listens ==
       \A p \in Peers : ear[p] = "recv" /\ ~HungUp(p) =>
          /\ link[p] = "open" /\ p \in backlog \cup Connected
          /\ \/ p \in (backlog \cup Connected)' \/ pc' = "dead"
             \/ p \in Connected /\ Refused(p)
<1>1. RoomInv /\ [RoomNext]_roomVars => [Listens]_roomVars
  <2> SUFFICES ASSUME RoomInv, RoomNext, NEW p \in Peers, ear[p] = "recv", ~HungUp(p)
               PROVE  /\ link[p] = "open" /\ p \in backlog \cup Connected
                      /\ \/ p \in (backlog \cup Connected)' \/ pc' = "dead"
                         \/ p \in Connected /\ Refused(p)
    OBVIOUS
  <2>1. link[p] = "open" /\ p \in backlog \cup Connected
    BY DEF RoomInv, ClientInv, Present
  <2> QED BY <2>1, RoomKeeps
<1> HIDE DEF Listens
<1>2. RoomSpec => [][Listens]_roomVars
  BY <1>1, RoomInvariant, PTL DEF RoomSpec
<1> QED BY <1>2 DEF Listens, ListenersInRoom
=============================================================================

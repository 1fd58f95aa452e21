-------------------------- MODULE ChatServer_proof --------------------------
(***************************************************************************)
(* Proofs about the chat server, for any peers, any finite set of          *)
(* descriptors and any bound on what the peers send.                       *)
(***************************************************************************)
EXTENDS ChatServer, FiniteSetTheorems, SequenceTheorems, WellFoundedInduction, TLAPS

(* While on_readable goes through the lines of inbuf, the first event of   *)
(* the batch is about a descriptor, open or not.                           *)
Parsing == pc = "parse" => batch # <<>> /\ cur \in Fds

StateInv == TypeOK /\ MapMatchesKernel /\ Parsing
-----------------------------------------------------------------------------
(* What the parser makes of the first complete line.                       *)

LEMMA MinOfNats ==
    ASSUME NEW I \in SUBSET Nat, I # {}
    PROVE  Min(I) \in I /\ \A j \in I : Min(I) <= j
<1> DEFINE less == {ss \in Nat \X Nat : ss[1] < ss[2]}
<1>1. IsWellFoundedOn(less, Nat)
  BY NatLessThanWellFounded DEF OpToRel
<1>2. PICK i \in I : \A j \in I : ~(<<j, i>> \in less)
  <2> HIDE DEF less
  <2> QED BY <1>1, WFMin
<1>3. ASSUME NEW j \in I PROVE i <= j
  <2>1. i \in Nat /\ j \in Nat
    OBVIOUS
  <2>2. <<j, i>> \in less <=> j < i
    BY <2>1
  <2> QED BY <1>2, <2>1, <2>2
<1> QED BY <1>3 DEF Min

LEMMA LineTyped ==
    ASSUME TypeOK, Parsing, pc = "parse", LineEnd # 0
    PROVE  /\ Line \in Seq(Chars)
           /\ SubSeq(node[cur].inbuf, LineEnd + 1, Len(node[cur].inbuf)) \in Stream
<1> DEFINE s == node[cur].inbuf
           I == {i \in 1 .. Len(s) : s[i] = NL}
<1>1. s \in Seq(Chars \cup {NL})
  BY DEF TypeOK, Parsing, Stream
<1>2. LineEnd = Min(I) /\ I # {}
  BY DEF LineEnd, SelectInSeq
<1>3. I \in SUBSET Nat
  BY <1>1
<1>4. LineEnd \in I /\ \A j \in I : LineEnd <= j
  BY <1>2, <1>3, MinOfNats
<1>5. LineEnd \in 1 .. Len(s) /\ Len(s) \in Nat
  BY <1>1, <1>4
<1>6. \A i \in 1 .. LineEnd - 1 : s[i] \in Chars
  <2> SUFFICES ASSUME NEW i \in 1 .. LineEnd - 1 PROVE s[i] \in Chars
    OBVIOUS
  <2>1. i \in 1 .. Len(s) /\ ~(LineEnd <= i)
    BY <1>5
  <2>2. i \notin I
    BY <2>1, <1>4
  <2> QED BY <2>1, <2>2, <1>1
<1>7. Line \in Seq(Chars)
  <2>1. LineEnd - 1 \in Int
    BY <1>5
  <2> QED BY <2>1, <1>6, SubSeqProperties DEF Line
<1>8. SubSeq(s, LineEnd + 1, Len(s)) \in Stream
  <2>1. \A i \in LineEnd + 1 .. Len(s) : s[i] \in Chars \cup {NL}
    BY <1>1, <1>5
  <2> QED BY <2>1, <1>5, SubSeqProperties DEF Stream
<1> QED BY <1>7, <1>8

LEMMA MessageTyped ==
    ASSUME TypeOK, MapMatchesKernel, Parsing, pc = "parse", cur \in members, LineEnd # 0
    PROVE  Message \in Messages /\ Message.who \in Names
<1>1. /\ cur \in Fds /\ node[cur].peer \in Peers /\ node[cur].name \in Names
  <2>1. cur \in Fds /\ conn[cur] # None /\ node[cur].peer = conn[cur]
    BY DEF TypeOK, MapMatchesKernel
  <2> QED BY <2>1 DEF TypeOK
<1>2. Line \in Seq(Chars)
  BY LineTyped
<1>3. Line \in Names /\ <<"#", cur>> \in Names
  BY <1>1, <1>2 DEF Names
<1> QED BY <1>1, <1>2, <1>3 DEF Message, Messages

LEMMA GarbledTyped == Garbled \subseteq Messages
  BY ChatAssumption DEF Garbled, Messages, Names

LEMMA LeftTyped ==
    ASSUME TypeOK, MapMatchesKernel, Serving(members)
    PROVE  Left \in Messages /\ Peer \in Peers /\ cur \in members
<1>1. cur \in members /\ members \subseteq Fds
  BY DEF Serving, TypeOK
<1>2. conn[cur] \in Peers /\ node[cur].peer = conn[cur]
  BY <1>1 DEF TypeOK, MapMatchesKernel
<1>3. DisplayName \in Names
  BY <1>1 DEF DisplayName, TypeOK, Names
<1>4. <<>> \in Seq(Chars)
  BY EmptySeq
<1> QED BY <1>1, <1>2, <1>3, <1>4 DEF Left, Messages, Peer
-----------------------------------------------------------------------------
(* What a broadcast does to the room.                                      *)

LEMMA DropStep ==
    ASSUME TypeOK, MapMatchesKernel, NEW drop \in SUBSET members, NEW hit \in SUBSET members,
           Drop(drop, hit)
    PROVE  /\ members' \in SUBSET Fds
           /\ conn' \in [Fds -> Peers \cup {None}]
           /\ link' \in [Peers -> Links]
           /\ wire' \in [Peers -> Stream]
           /\ \A f \in Fds : f \in members' <=> conn'[f] # None
           /\ \A f \in members' : f \in members /\ conn'[f] = conn[f]
<1>1. <<>> \in Stream
  BY EmptySeq DEF Stream
<1>2. conn' \in [Fds -> Peers \cup {None}]
  BY DEF Drop, TypeOK
<1>3. link' \in [Peers -> Links]
  BY DEF Drop, TypeOK, Links
<1>4. wire' \in [Peers -> Stream]
  BY <1>1 DEF Drop, TypeOK
<1> QED BY <1>2, <1>3, <1>4 DEF Drop, TypeOK, MapMatchesKernel

LEMMA HearStep ==
    ASSUME TypeOK, NEW m \in Messages, NEW fds, Hear(m, fds), log' = Append(log, m)
    PROVE  inbox' \in [Peers -> Seq(Messages)] /\ log' \in Seq(Messages)
<1>1. \A p \in Peers : inbox[p] \in Seq(Messages) /\ Append(inbox[p], m) \in Seq(Messages)
  BY AppendProperties DEF TypeOK
<1>2. log' \in Seq(Messages)
  BY AppendProperties DEF TypeOK
<1> QED BY <1>1, <1>2 DEF Hear

LEMMA ForgetTyped ==
    ASSUME TypeOK, NEW fds
    PROVE  /\ Forget(fds) \in [Fds -> [name : Names, inbuf : Stream, peer : Peers \cup {None}]]
           /\ \A f \in Fds \ fds : Forget(fds)[f] = node[f]
<1>1. NoClient \in [name : Names, inbuf : Stream, peer : Peers \cup {None}]
  BY EmptySeq DEF NoClient, Names, Stream
<1> QED BY <1>1 DEF Forget, TypeOK

LEMMA BehindMembers == \A s : Behind(s) \subseteq members
  BY DEF Behind

LEMMA BroadcastParts ==
    ASSUME NEW m, Broadcast(m, {})
    PROVE  \E drop \in SUBSET members, hit \in SUBSET members :
              /\ \E fds : Hear(m, fds)
              /\ Drop(drop, hit)
              /\ log' = Append(log, m)
<1>1. PICK full \in SUBSET members, hit \in SUBSET Behind("closed") :
        /\ Hear(m, Behind("open") \ full)
        /\ Drop(full \cup Behind("reset") \cup {}, hit)
  BY DEF Broadcast
<1>2. full \cup Behind("reset") \cup {} \in SUBSET members /\ hit \in SUBSET members
  BY BehindMembers
<1> QED BY <1>1, <1>2 DEF Broadcast

LEMMA DieStep ==
    ASSUME TypeOK, MapMatchesKernel, Die, log' \in Seq(Messages),
           inbox' \in [Peers -> Seq(Messages)]
    PROVE  StateInv'
<1>1. <<>> \in Stream /\ NoClient \in [name : Names, inbuf : Stream, peer : Peers \cup {None}]
  BY EmptySeq DEF NoClient, Names, Stream
<1>2. TypeOK'
  BY <1>1, EmptySeq DEF TypeOK, Die
<1> QED BY <1>2 DEF StateInv, MapMatchesKernel, Parsing, Die, cur

LEMMA KilledStep ==
    ASSUME StateInv, NEW m \in Messages, Killed(m)
    PROVE  StateInv'
<1>1. PICK reached : Hear(m, reached)
  BY DEF Killed
<1> QED BY <1>1, HearStep, DieStep DEF StateInv, Killed
-----------------------------------------------------------------------------
LEMMA StateStart == Init => StateInv
<1> SUFFICES ASSUME Init PROVE StateInv
  OBVIOUS
<1>1. NoClient \in [name : Names, inbuf : Stream, peer : Peers \cup {None}]
  BY EmptySeq DEF NoClient, Names, Stream
<1>2. TypeOK
  BY <1>1, EmptySeq DEF Init, TypeOK, Links, Stream
<1> QED BY <1>2 DEF Init, StateInv, MapMatchesKernel, Parsing

(* Server steps leave the peers' history alone, and a batch is consumed    *)
(* from its head.                                                          *)
LEMMA NextEventTyped ==
    ASSUME TypeOK, NextEvent, batch # <<>>
    PROVE  batch' \in Seq(Fds \cup {Listen}) /\ pc' = "serve"
BY HeadTailProperties DEF TypeOK, NextEvent

LEMMA StateStep == StateInv /\ [Next]_vars => StateInv'
<1> SUFFICES ASSUME StateInv, [Next]_vars PROVE StateInv'
  OBVIOUS
<1> USE DEF StateInv
<1>1. ASSUME NEW p \in Peers, Connect(p) PROVE StateInv'
  BY <1>1 DEF Connect, TypeOK, MapMatchesKernel, Parsing, Links, cur, serverVars, historyVars
<1>2. ASSUME NEW p \in Peers, HangUp(p) PROVE StateInv'
  BY <1>2 DEF HangUp, TypeOK, MapMatchesKernel, Parsing, Links, cur, serverVars, historyVars
<1>3. ASSUME NEW p \in Peers, NEW c \in Chars \cup {NL}, Send(p, c) PROVE StateInv'
  <2>1. Append(wire[p], c) \in Stream /\ Append(sent[p], c) \in Stream
    BY AppendProperties DEF TypeOK, Stream
  <2>2. TypeOK'
    BY <1>3, <2>1 DEF Send, TypeOK, serverVars
  <2> QED BY <1>3, <2>2 DEF Send, MapMatchesKernel, Parsing, cur, serverVars
<1>4. CASE EpollWait
  <2>1. IsFiniteSet(Ready) /\ Ready \subseteq Fds \cup {Listen}
    <3>1. Ready \in SUBSET (Fds \cup {Listen})
      BY DEF Ready
    <3>2. IsFiniteSet(Fds \cup {Listen})
      BY ChatAssumption, FS_AddElement
    <3> QED BY <3>1, <3>2, FS_Subset
  <2>2. Cardinality(Ready) \in Nat
    BY <2>1, FS_CardinalityType
  <2>3. batch' \in [1 .. Cardinality(Ready) -> Ready]
    BY <1>4 DEF EpollWait, SetToSeqs
  <2>4. batch' \in Seq(Ready)
    BY <2>2, <2>3, SeqDef
  <2>5. batch' \in Seq(Fds \cup {Listen})
    BY <2>1, <2>4, SeqMonotonic
  <2>6. TypeOK'
    BY <1>4, <2>5 DEF EpollWait, TypeOK, kernelVars, historyVars
  <2> QED BY <1>4, <2>6 DEF EpollWait, MapMatchesKernel, Parsing, kernelVars
<1>5. CASE ServeUnknown
  <2>1. batch' \in Seq(Fds \cup {Listen}) /\ pc' = "serve"
    BY <1>5, NextEventTyped DEF ServeUnknown, Serving
  <2>2. TypeOK'
    BY <1>5, <2>1 DEF ServeUnknown, TypeOK, historyVars
  <2>3. conn' = conn
    BY <1>5 DEF ServeUnknown, Serving, MapMatchesKernel, TypeOK
  <2> QED BY <1>5, <2>1, <2>2, <2>3 DEF ServeUnknown, MapMatchesKernel, Parsing
<1>6. CASE OnAccept
  <2>1. PICK p \in backlog, f \in FreeFds :
          /\ backlog' = backlog \ {p}
          /\ conn' = [conn EXCEPT ![f] = p]
          /\ members' = members \cup {f}
          /\ node' = [node EXCEPT ![f] = [NoClient EXCEPT !.peer = p]]
          /\ since' = [since EXCEPT ![p] = Len(log)]
          /\ UNCHANGED link \/ link' = [link EXCEPT ![p] = "reset"]
    BY <1>6 DEF OnAccept
  <2>2. p \in Peers /\ p # None /\ f \in Fds /\ Len(log) \in Nat
    BY ChatAssumption DEF TypeOK, FreeFds
  <2>3. /\ [NoClient EXCEPT !.peer = p].peer = p
        /\ [NoClient EXCEPT !.peer = p] \in
              [name : Names, inbuf : Stream, peer : Peers \cup {None}]
    BY <2>2, EmptySeq DEF NoClient, Names, Stream
  <2>4. TypeOK'
    BY <1>6, <2>1, <2>2, <2>3 DEF OnAccept, TypeOK, Links
  <2> HIDE DEF NoClient
  <2>5. MapMatchesKernel'
    BY <2>1, <2>2, <2>3 DEF MapMatchesKernel, TypeOK
  <2> QED BY <1>6, <2>4, <2>5 DEF OnAccept, Serving, Parsing
<1>7. CASE AcceptEnds
  <2>1. batch' \in Seq(Fds \cup {Listen}) /\ pc' = "serve"
    BY <1>7, NextEventTyped DEF AcceptEnds, Serving
  <2> QED BY <1>7, <2>1 DEF AcceptEnds, TypeOK, MapMatchesKernel, Parsing, kernelVars, historyVars
<1>8. CASE Recv
  <2>1. cur \in members /\ cur \in Fds /\ Peer \in Peers /\ pc = "serve"
    BY <1>8, LeftTyped DEF Recv, Serving, TypeOK
  <2>2. node[cur].inbuf \o wire[Peer] \in Stream /\ <<>> \in Stream
    BY <2>1, ConcatProperties, EmptySeq DEF TypeOK, Stream
  <2>3. TypeOK'
    BY <1>8, <2>1, <2>2 DEF Recv, TypeOK, historyVars
  <2>4. MapMatchesKernel'
    BY <1>8, <2>1 DEF Recv, TypeOK, MapMatchesKernel
  <2> QED BY <1>8, <2>1, <2>3, <2>4 DEF Recv, Parsing
<1>9. CASE RecvWouldBlock
  <2>1. cur \in members /\ cur \in Fds /\ Peer \in Peers
    BY <1>9, LeftTyped DEF RecvWouldBlock, TypeOK
  <2>2. TypeOK' /\ MapMatchesKernel'
    BY <1>9 DEF RecvWouldBlock, TypeOK, MapMatchesKernel, kernelVars, historyVars
  <2>3. batch' # <<>> /\ cur' = cur
    BY <1>9 DEF RecvWouldBlock, Serving, cur
  <2> QED BY <2>1, <2>2, <2>3 DEF Parsing
<1>10. CASE RecvEnd
  <2>1. Left \in Messages /\ Peer \in Peers /\ cur \in members
    BY <1>10, LeftTyped DEF RecvEnd
  <2>2. CASE Killed(Left)
    BY <2>1, <2>2, KilledStep
  <2>3. CASE /\ Broadcast(Left, {cur})
             /\ NextEvent
             /\ node' = Forget(Fds \ members')
             /\ UNCHANGED <<backlog, since, sent>>
    <3>1. PICK full \in SUBSET members, hit \in SUBSET Behind("closed") :
            /\ Hear(Left, Behind("open") \ full)
            /\ Drop(full \cup Behind("reset") \cup {cur}, hit)
      BY <2>3 DEF Broadcast
    <3>2. full \cup Behind("reset") \cup {cur} \in SUBSET members /\ hit \in SUBSET members
      BY <2>1, BehindMembers
    <3>3. inbox' \in [Peers -> Seq(Messages)] /\ log' \in Seq(Messages)
      BY <2>1, <2>3, <3>1, HearStep DEF Broadcast
    <3>4. batch' \in Seq(Fds \cup {Listen}) /\ pc' = "serve"
      BY <1>10, <2>3, NextEventTyped DEF RecvEnd, Serving, Killed, Die
    <3>5. /\ node' \in [Fds -> [name : Names, inbuf : Stream, peer : Peers \cup {None}]]
          /\ \A f \in Fds \ (Fds \ members') : node'[f] = node[f]
      BY <2>3, ForgetTyped
    <3>6. TypeOK'
      BY <2>3, <3>1, <3>2, <3>3, <3>4, <3>5, DropStep DEF TypeOK
    <3>7. MapMatchesKernel'
      BY <3>1, <3>2, <3>5, DropStep DEF MapMatchesKernel
    <3> QED BY <3>4, <3>6, <3>7 DEF Parsing
  <2> QED BY <1>10, <2>2, <2>3 DEF RecvEnd
<1>11. CASE RecvError
  <2>1. cur \in members
    BY <1>11, LeftTyped DEF RecvError
  <2>2. Drop({cur}, {}) /\ {cur} \in SUBSET members
    BY <1>11, <2>1 DEF RecvError
  <2>3. batch' \in Seq(Fds \cup {Listen}) /\ pc' = "serve"
    BY <1>11, NextEventTyped DEF RecvError, Serving
  <2>4. /\ node' \in [Fds -> [name : Names, inbuf : Stream, peer : Peers \cup {None}]]
        /\ \A f \in Fds \ {cur} : node'[f] = node[f]
    BY <1>11, ForgetTyped DEF RecvError
  <2>5. TypeOK'
    BY <1>11, <2>2, <2>3, <2>4, DropStep DEF RecvError, TypeOK, historyVars
  <2>6. MapMatchesKernel'
    <3>1. /\ members' \in SUBSET Fds /\ cur \notin members'
          /\ \A f \in Fds : f \in members' <=> conn'[f] # None
          /\ \A f \in members' : f \in members /\ conn'[f] = conn[f]
      <4>1. members' = members \ {cur}
        BY <2>2 DEF Drop
      <4> QED BY <2>2, <4>1, DropStep
    <3> QED BY <2>4, <3>1 DEF MapMatchesKernel
  <2> QED BY <2>3, <2>5, <2>6 DEF Parsing
<1>12. CASE ParseLine
  <2>1. /\ pc = "parse" /\ LineEnd # 0 /\ cur \in Fds /\ cur \in members
        /\ Message \in Messages /\ Message.who \in Names
    BY <1>12, MessageTyped DEF ParseLine, Parsing
  <2>2. CASE Killed(Message)
    BY <2>1, <2>2, KilledStep
  <2>3. CASE /\ Broadcast(Message, {})
             /\ node' = [Forget(Fds \ members') EXCEPT ![cur] =
                           IF cur \in members'
                           THEN [name |-> Message.who, peer |-> @.peer,
                                 inbuf |-> SubSeq(@.inbuf, LineEnd + 1, Len(@.inbuf))]
                           ELSE NoClient]
             /\ UNCHANGED <<pc, batch, backlog, since, sent>>
    <3>1. PICK drop \in SUBSET members, hit \in SUBSET members :
            /\ \E fds : Hear(Message, fds)
            /\ Drop(drop, hit)
            /\ log' = Append(log, Message)
      BY <2>3, BroadcastParts
    <3>2. inbox' \in [Peers -> Seq(Messages)] /\ log' \in Seq(Messages)
      BY <2>1, <3>1, HearStep
    <3> DEFINE kept == Forget(Fds \ members')
               next == [name |-> Message.who, peer |-> kept[cur].peer,
                        inbuf |-> SubSeq(kept[cur].inbuf, LineEnd + 1, Len(kept[cur].inbuf))]
    <3>3. /\ kept \in [Fds -> [name : Names, inbuf : Stream, peer : Peers \cup {None}]]
          /\ \A f \in Fds : f \in members' => kept[f] = node[f]
      BY ForgetTyped
    <3>4. cur \in members' =>
            next \in [name : Names, inbuf : Stream, peer : Peers \cup {None}]
      BY <2>1, <3>3, LineTyped
    <3>5. NoClient \in [name : Names, inbuf : Stream, peer : Peers \cup {None}]
      BY EmptySeq DEF NoClient, Names, Stream
    <3>6. node' = [kept EXCEPT ![cur] = IF cur \in members' THEN next ELSE NoClient]
      BY <2>3
    <3>7. next.peer = kept[cur].peer
      OBVIOUS
    <3> HIDE DEF kept, next
    <3>8. /\ node' \in [Fds -> [name : Names, inbuf : Stream, peer : Peers \cup {None}]]
          /\ \A f \in Fds : f \in members' => node'[f].peer = node[f].peer
      BY <2>1, <3>3, <3>4, <3>5, <3>6, <3>7
    <3>9. TypeOK'
      BY <2>3, <3>1, <3>2, <3>8, DropStep DEF TypeOK
    <3>10. MapMatchesKernel'
      BY <3>1, <3>8, DropStep DEF MapMatchesKernel
    <3>11. Parsing'
      BY <2>1, <2>3 DEF Parsing, cur
    <3> QED BY <3>9, <3>10, <3>11
  <2> QED BY <1>12, <2>2, <2>3 DEF ParseLine
<1>13. CASE ParseFreed
  <2>1. PICK m \in Garbled :
          \/ /\ Broadcast(m, {})
             /\ node' = Forget(Fds \ members')
             /\ UNCHANGED <<pc, batch, backlog, since, sent>>
          \/ Killed(m)
    BY <1>13 DEF ParseFreed
  <2>2. m \in Messages /\ pc = "parse"
    BY <1>13, GarbledTyped DEF ParseFreed
  <2>3. CASE Killed(m)
    BY <2>2, <2>3, KilledStep
  <2>4. CASE /\ Broadcast(m, {})
             /\ node' = Forget(Fds \ members')
             /\ UNCHANGED <<pc, batch, backlog, since, sent>>
    <3>1. PICK drop \in SUBSET members, hit \in SUBSET members :
            /\ \E fds : Hear(m, fds)
            /\ Drop(drop, hit)
            /\ log' = Append(log, m)
      BY <2>4, BroadcastParts
    <3>2. inbox' \in [Peers -> Seq(Messages)] /\ log' \in Seq(Messages)
      BY <2>2, <3>1, HearStep
    <3>3. /\ node' \in [Fds -> [name : Names, inbuf : Stream, peer : Peers \cup {None}]]
          /\ \A f \in Fds : f \in members' => node'[f] = node[f]
      BY <2>4, ForgetTyped
    <3>4. TypeOK'
      BY <2>4, <3>1, <3>2, <3>3, DropStep DEF TypeOK
    <3>5. MapMatchesKernel'
      BY <3>1, <3>3, DropStep DEF MapMatchesKernel
    <3>6. Parsing'
      BY <2>2, <2>4 DEF Parsing, cur
    <3> QED BY <3>4, <3>5, <3>6
  <2> QED BY <2>1, <2>3, <2>4
<1>14. CASE ParseEnds
  <2>1. batch' \in Seq(Fds \cup {Listen}) /\ pc' = "serve"
    BY <1>14, NextEventTyped DEF ParseEnds, Parsing
  <2> QED BY <1>14, <2>1 DEF ParseEnds, TypeOK, MapMatchesKernel, Parsing, kernelVars, historyVars
<1>15. CASE Stop
  BY <1>15, DieStep DEF Stop, TypeOK
<1>16. CASE UNCHANGED vars
  BY <1>16 DEF vars, kernelVars, serverVars, historyVars, TypeOK, MapMatchesKernel, Parsing, cur
<1> QED BY <1>1, <1>2, <1>3, <1>4, <1>5, <1>6, <1>7, <1>8, <1>9, <1>10, <1>11, <1>12,
           <1>13, <1>14, <1>15, <1>16 DEF Next, Server
-----------------------------------------------------------------------------
(* Nobody hears anything before the server has accepted its connection.    *)
Newcomers ==
    \A p \in Peers :
        /\ link[p] = "away" => p \notin backlog
        /\ link[p] = "away" \/ p \in backlog => p \notin Connected /\ inbox[p] = <<>>

(* What a peer has heard, message by message.  One that is connected has   *)
(* missed nothing: the first send that fails ends its connection.          *)
InStep(p) ==
    /\ since[p] + Len(inbox[p]) <= Len(log)
    /\ \A i \in 1 .. Len(inbox[p]) : inbox[p][i] = log[since[p] + i]

UpToDate(p) ==
    p \in Connected /\ link[p] = "open" => since[p] + Len(inbox[p]) = Len(log)

HearInv == Newcomers /\ \A p \in Peers : InStep(p) /\ UpToDate(p)

ChatInv == StateInv /\ HearInv

(* A message goes to some of the peers that are up to date.                *)
LEMMA HeardInStep ==
    ASSUME ChatInv, NEW m \in Messages, NEW fds \in SUBSET Behind("open"),
           Hear(m, fds), log' = Append(log, m), since' = since, NEW p \in Peers
    PROVE  /\ InStep(p)'
           /\ p \in PeersOf(fds) => since'[p] + Len(inbox'[p]) = Len(log')
           /\ p \notin PeersOf(fds) => inbox'[p] = inbox[p]
<1>1. /\ inbox[p] \in Seq(Messages) /\ log \in Seq(Messages) /\ since[p] \in Nat
      /\ InStep(p) /\ UpToDate(p)
  BY DEF ChatInv, StateInv, HearInv, TypeOK
<1>2. /\ Len(log') = Len(log) + 1 /\ Len(log) \in Nat /\ log'[Len(log) + 1] = m
      /\ \A i \in 1 .. Len(log) : log'[i] = log[i]
  BY <1>1, AppendProperties, LenProperties
<1>3. Len(inbox[p]) \in Nat
  BY <1>1, LenProperties
<1>4. CASE p \notin PeersOf(fds)
  <2>1. inbox'[p] = inbox[p]
    BY <1>4 DEF Hear
  <2> QED BY <1>1, <1>2, <1>3, <1>4, <2>1 DEF InStep
<1>5. CASE p \in PeersOf(fds)
  <2>1. since[p] + Len(inbox[p]) = Len(log)
    <3>1. PICK f \in members : link[conn[f]] = "open" /\ conn[f] = p
      BY <1>5 DEF PeersOf, Behind
    <3>2. p \in Connected
      BY <3>1 DEF ChatInv, StateInv, TypeOK, Connected
    <3> QED BY <1>1, <3>1, <3>2 DEF UpToDate
  <2>2. inbox'[p] = Append(inbox[p], m)
    BY <1>5 DEF Hear
  <2>3. /\ Len(inbox'[p]) = Len(inbox[p]) + 1 /\ inbox'[p][Len(inbox[p]) + 1] = m
        /\ \A i \in 1 .. Len(inbox[p]) : inbox'[p][i] = inbox[p][i]
    BY <1>1, <2>2, AppendProperties
  <2> DEFINE n == Len(inbox[p])
             k == Len(log)
             b == since[p]
  <2> HIDE DEF n, k, b
  <2>0. /\ n \in Nat /\ k \in Nat /\ b \in Nat /\ b + n = k
        /\ Len(inbox'[p]) = n + 1 /\ Len(log') = k + 1 /\ since'[p] = b
    BY <1>1, <1>2, <1>3, <2>1, <2>3 DEF n, k, b
  <2>4. since'[p] + Len(inbox'[p]) = Len(log') /\ Len(log') \in Nat
    BY <2>0
  <2>5. ASSUME NEW i \in 1 .. Len(inbox'[p]) PROVE inbox'[p][i] = log'[since'[p] + i]
    <3>1. CASE i = Len(inbox[p]) + 1
      <4>1. i = n + 1 /\ since'[p] + i = k + 1
        BY <2>0, <3>1 DEF n
      <4> QED BY <1>2, <2>3, <4>1 DEF n, k
    <3>2. CASE i # Len(inbox[p]) + 1
      <4>1. i \in 1 .. Len(inbox[p]) /\ since[p] + i \in 1 .. Len(log)
        <5>1. i \in 1 .. n /\ b + i \in 1 .. k
          BY <2>0, <3>2 DEF n
        <5> QED BY <5>1 DEF n, k, b
      <4>2. inbox[p][i] = log[since[p] + i]
        BY <1>1, <4>1 DEF InStep
      <4> QED BY <1>2, <2>3, <4>1, <4>2
    <3> QED BY <3>1, <3>2
  <2>6. since'[p] + Len(inbox'[p]) <= Len(log')
    BY <2>4
  <2>7. InStep(p)'
    BY <2>5, <2>6 DEF InStep
  <2> QED BY <1>5, <2>4, <2>7
<1> QED BY <1>4, <1>5

LEMMA BroadcastHeard ==
    ASSUME ChatInv, NEW m \in Messages, NEW also \in SUBSET members, Broadcast(m, also),
           backlog' = backlog, since' = since
    PROVE  HearInv'
<1>1. PICK full \in SUBSET members, hit \in SUBSET Behind("closed") :
        /\ Hear(m, Behind("open") \ full)
        /\ Drop(full \cup Behind("reset") \cup also, hit)
  BY DEF Broadcast
<1> DEFINE drop == full \cup Behind("reset") \cup also
           hear == Behind("open") \ full
<1>2. drop \in SUBSET members /\ hit \in SUBSET members /\ hear \in SUBSET Behind("open")
  BY BehindMembers
<1>3. Hear(m, hear) /\ Drop(drop, hit) /\ log' = Append(log, m)
  BY <1>1 DEF Broadcast
<1>4. TypeOK /\ MapMatchesKernel /\ members \in SUBSET Fds
  BY DEF ChatInv, StateInv, TypeOK
<1>5. \A p \in Peers : p \in Connected' => p \in Connected
  BY <1>3, ChatAssumption DEF Connected, Drop
<1>6. Newcomers'
  <2> SUFFICES ASSUME NEW p \in Peers
               PROVE  /\ link'[p] = "away" => p \notin backlog'
                      /\ link'[p] = "away" \/ p \in backlog' =>
                            p \notin Connected' /\ inbox'[p] = <<>>
    BY DEF Newcomers
  <2>1. link'[p] = "away" => link[p] = "away"
    BY <1>3 DEF Drop
  <2>2. p \notin Connected => inbox'[p] = inbox[p]
    <3>1. p \notin Connected => p \notin PeersOf(hear)
      BY <1>4 DEF PeersOf, Behind, Connected
    <3> QED BY <1>3, <3>1 DEF Hear
  <2> QED BY <1>5, <2>1, <2>2 DEF ChatInv, HearInv, Newcomers
<1>7. ASSUME NEW p \in Peers PROVE InStep(p)' /\ UpToDate(p)'
  <2>1. /\ InStep(p)'
        /\ p \in PeersOf(hear) => since'[p] + Len(inbox'[p]) = Len(log')
    BY <1>2, <1>3, HeardInStep
  <2>2. ASSUME p \in Connected', link'[p] = "open"
        PROVE  p \in PeersOf(hear)
    <3>1. PICK f \in Fds : conn'[f] = p
      BY <2>2 DEF Connected
    <3>2. f \in members' /\ f \in members /\ f \notin drop /\ conn[f] = p
      <4>1. conn'[f] # None
        BY <3>1, ChatAssumption
      <4> QED BY <1>2, <1>3, <1>4, <3>1, <4>1, DropStep DEF Drop
    <3>3. link[p] = "open" /\ f \notin full
      BY <1>3, <2>2, <3>2 DEF Drop
    <3> QED BY <3>2, <3>3 DEF PeersOf, Behind
  <2> QED BY <2>1, <2>2 DEF UpToDate
<1> QED BY <1>6, <1>7 DEF HearInv

LEMMA KilledHeard ==
    ASSUME ChatInv, NEW m \in Messages, Killed(m)
    PROVE  HearInv'
<1>1. PICK reached \in SUBSET Behind("open") : Hear(m, reached)
  BY DEF Killed
<1>2. log' = Append(log, m) /\ since' = since /\ link' = link /\ backlog' = backlog
  BY DEF Killed, Die
<1>3. TypeOK
  BY DEF ChatInv, StateInv
<1>4. Connected' = {}
  BY ChatAssumption DEF Killed, Die, Connected
<1>5. \A p \in Peers : InStep(p)'
  BY <1>1, <1>2, HeardInStep
<1>6. Newcomers'
  <2>1. \A p \in Peers : p \notin Connected => inbox'[p] = inbox[p]
    <3>1. \A p \in Peers : p \notin Connected => p \notin PeersOf(reached)
      BY <1>3 DEF PeersOf, Behind, Connected, TypeOK
    <3> QED BY <1>1, <3>1 DEF Hear
  <2> QED BY <1>2, <1>4, <2>1 DEF ChatInv, HearInv, Newcomers
<1> QED BY <1>4, <1>5, <1>6 DEF HearInv, UpToDate

(* Steps that broadcast nothing and let nobody in.                         *)
LEMMA QuietStep ==
    ASSUME ChatInv, UNCHANGED <<log, inbox, since>>,
           \A p \in Peers : p \in Connected' => p \in Connected,
           \A p \in backlog' : p \in backlog \/ (p \in Peers /\ link[p] = "away"),
           \A p \in Peers :
               /\ link'[p] = "away" => link[p] = "away" /\ p \notin backlog'
               /\ link'[p] = "open" => link[p] \in {"open", "away"}
    PROVE  HearInv'
<1>1. Newcomers'
  <2> SUFFICES ASSUME NEW p \in Peers
               PROVE  /\ link'[p] = "away" => p \notin backlog'
                      /\ link'[p] = "away" \/ p \in backlog' =>
                            p \notin Connected' /\ inbox'[p] = <<>>
    BY DEF Newcomers
  <2>1. /\ link[p] = "away" => p \notin backlog
        /\ link[p] = "away" \/ p \in backlog => p \notin Connected /\ inbox[p] = <<>>
    BY DEF ChatInv, HearInv, Newcomers
  <2>2. link'[p] = "away" \/ p \in backlog' => link[p] = "away" \/ p \in backlog
    OBVIOUS
  <2>3. /\ link'[p] = "away" => p \notin backlog'
        /\ p \in Connected' => p \in Connected
        /\ inbox'[p] = inbox[p]
    OBVIOUS
  <2> QED BY <2>1, <2>2, <2>3
<1>2. \A p \in Peers : InStep(p)' /\ UpToDate(p)'
  BY DEF ChatInv, HearInv, Newcomers, InStep, UpToDate
<1> QED BY <1>1, <1>2 DEF HearInv

LEMMA HearStart == Init => HearInv
<1> SUFFICES ASSUME Init PROVE HearInv
  OBVIOUS
<1>1. Connected = {}
  BY ChatAssumption DEF Init, Connected
<1> QED BY <1>1 DEF Init, HearInv, Newcomers, InStep, UpToDate

LEMMA HearSteps == ChatInv /\ [Next]_vars => HearInv'
<1> SUFFICES ASSUME ChatInv, [Next]_vars PROVE HearInv'
  OBVIOUS
<1>1. /\ TypeOK /\ MapMatchesKernel
      /\ \A p \in Peers : /\ link[p] = "away" => p \notin backlog
                          /\ link[p] = "away" \/ p \in backlog =>
                                p \notin Connected /\ inbox[p] = <<>>
  BY DEF ChatInv, StateInv, HearInv, Newcomers
<1>2. ASSUME NEW p \in Peers, Connect(p) PROVE HearInv'
  BY <1>1, <1>2, QuietStep DEF Connect, TypeOK, Connected, serverVars, historyVars
<1>3. ASSUME NEW p \in Peers, HangUp(p) PROVE HearInv'
  BY <1>1, <1>3, QuietStep DEF HangUp, TypeOK, Connected, serverVars, historyVars
<1>4. ASSUME NEW p \in Peers, NEW c \in Chars \cup {NL}, Send(p, c) PROVE HearInv'
  BY <1>1, <1>4, QuietStep DEF Send, TypeOK, Connected, serverVars
<1>5. CASE EpollWait \/ AcceptEnds \/ Recv \/ RecvWouldBlock \/ ParseEnds
  <2>1. UNCHANGED <<log, inbox, since, conn, backlog, link>>
    BY <1>5 DEF EpollWait, AcceptEnds, Recv, RecvWouldBlock, ParseEnds, kernelVars, historyVars
  <2> QED BY <1>1, <2>1, QuietStep DEF Connected, TypeOK
<1>6. CASE ServeUnknown
  <2>1. UNCHANGED <<log, inbox, since, backlog, link>> /\ conn' = [conn EXCEPT ![cur] = None]
    BY <1>6 DEF ServeUnknown, historyVars
  <2> QED BY <1>1, <2>1, QuietStep, ChatAssumption DEF Connected, TypeOK
<1>7. CASE OnAccept
  <2>1. PICK p \in backlog, f \in FreeFds :
          /\ backlog' = backlog \ {p}
          /\ conn' = [conn EXCEPT ![f] = p]
          /\ since' = [since EXCEPT ![p] = Len(log)]
          /\ UNCHANGED link \/ link' = [link EXCEPT ![p] = "reset"]
    BY <1>7 DEF OnAccept
  <2>2. UNCHANGED <<log, inbox>> /\ p \in Peers /\ f \in Fds /\ inbox[p] = <<>>
    BY <1>1, <1>7, <2>1 DEF OnAccept, TypeOK, FreeFds
  <2>3. \A q \in Peers \ {p} : since'[q] = since[q] /\ link'[q] = link[q] /\
                                (q \in Connected' => q \in Connected)
    BY <1>1, <2>1, <2>2 DEF TypeOK, Connected
  <2>4. since'[p] = Len(log) /\ Len(inbox[p]) = 0 /\ Len(log) \in Nat
    BY <1>1, <2>1, <2>2, EmptySeq, LenProperties DEF TypeOK
  <2>5. Newcomers'
    BY <1>1, <2>1, <2>2, <2>3 DEF Newcomers, TypeOK
  <2>6. ASSUME NEW q \in Peers PROVE InStep(q)' /\ UpToDate(q)'
    <3>1. CASE q = p
      BY <2>2, <2>4, <3>1 DEF InStep, UpToDate
    <3>2. CASE q # p
      BY <2>2, <2>3, <3>2 DEF ChatInv, HearInv, InStep, UpToDate
    <3> QED BY <3>1, <3>2
  <2> QED BY <2>5, <2>6 DEF HearInv
<1>8. CASE RecvEnd
  <2>1. Left \in Messages /\ {cur} \in SUBSET members
    BY <1>1, <1>8, LeftTyped DEF RecvEnd
  <2> QED BY <1>8, <2>1, BroadcastHeard, KilledHeard DEF RecvEnd
<1>9. CASE RecvError
  <2>1. Drop({cur}, {}) /\ UNCHANGED <<log, inbox, since, backlog>>
    BY <1>9 DEF RecvError, historyVars
  <2>2. \A p \in Peers : link'[p] \in {link[p], "gone", "reset"}
    BY <2>1 DEF Drop
  <2>3. \A p \in Peers : p \in Connected' => p \in Connected
    BY <2>1, ChatAssumption DEF Drop, Connected
  <2> QED BY <1>1, <2>1, <2>2, <2>3, QuietStep
<1>10. CASE ParseLine
  <2>1. Message \in Messages /\ {} \in SUBSET members
    BY <1>10, MessageTyped DEF ParseLine, ChatInv, StateInv
  <2> QED BY <1>10, <2>1, BroadcastHeard, KilledHeard DEF ParseLine
<1>11. CASE ParseFreed
  <2>1. {} \in SUBSET members
    OBVIOUS
  <2> QED BY <1>11, <2>1, GarbledTyped, BroadcastHeard, KilledHeard DEF ParseFreed
<1>13. CASE Stop
  <2>1. UNCHANGED <<log, inbox, since, backlog, link>>
    BY <1>13 DEF Stop, Die
  <2>2. Connected' = {}
    BY <1>13, ChatAssumption DEF Stop, Die, Connected
  <2> QED BY <1>1, <2>1, <2>2, QuietStep
<1>12. CASE UNCHANGED vars
  BY <1>1, <1>12, QuietStep DEF vars, kernelVars, serverVars, historyVars, Connected, TypeOK
<1> QED BY <1>2, <1>3, <1>4, <1>5, <1>6, <1>7, <1>8, <1>9, <1>10, <1>11, <1>12, <1>13
        DEF Next, Server

LEMMA InStepIsStretch ==
    ASSUME ChatInv PROVE EveryoneHearsTheSame
<1> SUFFICES ASSUME NEW p \in Peers
             PROVE  /\ inbox[p] = SubSeq(log, since[p] + 1, since[p] + Len(inbox[p]))
                    /\ p \in Connected /\ link[p] = "open" =>
                          since[p] + Len(inbox[p]) = Len(log)
  BY DEF EveryoneHearsTheSame
<1>1. /\ inbox[p] \in Seq(Messages) /\ log \in Seq(Messages) /\ since[p] \in Nat
      /\ InStep(p) /\ UpToDate(p)
  BY DEF ChatInv, StateInv, HearInv, TypeOK
<1> DEFINE n == Len(inbox[p])
           part == SubSeq(log, since[p] + 1, since[p] + n)
<1>2. n \in Nat /\ Len(log) \in Nat /\ since[p] + n <= Len(log)
  BY <1>1, LenProperties DEF InStep
<1>3. \A i \in since[p] + 1 .. since[p] + n : log[i] \in Messages
  <2>1. \A i \in since[p] + 1 .. since[p] + n : i \in 1 .. Len(log)
    BY <1>1, <1>2
  <2> QED BY <1>1, <2>1, ElementOfSeq
<1>4. /\ part \in Seq(Messages)
      /\ Len(part) = n
      /\ \A i \in 1 .. n : part[i] = log[since[p] + i]
  <2>1. /\ part \in Seq(Messages)
        /\ Len(part) = IF since[p] + 1 <= since[p] + n THEN (since[p] + n) - (since[p] + 1) + 1 ELSE 0
        /\ \A i \in 1 .. (since[p] + n) - (since[p] + 1) + 1 : part[i] = log[since[p] + 1 + i - 1]
    <3> DEFINE a == since[p] + 1
               z == since[p] + n
    <3>1. a \in Int /\ z \in Int /\ \A i \in a .. z : log[i] \in Messages
      BY <1>1, <1>2, <1>3
    <3> HIDE DEF a, z
    <3>2. /\ SubSeq(log, a, z) \in Seq(Messages)
          /\ Len(SubSeq(log, a, z)) = IF a <= z THEN z - a + 1 ELSE 0
          /\ \A i \in 1 .. z - a + 1 : SubSeq(log, a, z)[i] = log[a + i - 1]
      BY <3>1, SubSeqProperties
    <3> QED BY <3>2 DEF a, z
  <2> HIDE DEF part
  <2>2. Len(part) = n
    BY <1>1, <1>2, <2>1
  <2>3. ASSUME NEW i \in 1 .. n PROVE part[i] = log[since[p] + i]
    <3>1. i \in 1 .. (since[p] + n) - (since[p] + 1) + 1 /\ since[p] + 1 + i - 1 = since[p] + i
      BY <1>1, <1>2
    <3> QED BY <2>1, <3>1
  <2> QED BY <2>1, <2>2, <2>3
<1>5. \A i \in 1 .. n : inbox[p][i] = part[i]
  BY <1>1, <1>4 DEF InStep
<1>6. inbox[p] = part
  BY <1>1, <1>4, <1>5, SeqEqual
<1> QED BY <1>1, <1>6 DEF UpToDate
-----------------------------------------------------------------------------
(* A step of the server that does not end it leaves a connection that is   *)
(* open alone, or closes it because a message did not go through.          *)
Spared(p) ==
    \/ p \in Connected' /\ link'[p] = "open"
    \/ link'[p] = "gone" /\ (p \in Connected' \/ Refused(p))

LEMMA DropSpares ==
    ASSUME StateInv, NEW drop \in SUBSET members, NEW hit \in SUBSET Behind("closed"),
           Drop(drop, hit), NEW p \in Connected, link[p] = "open"
    PROVE  \/ p \in Connected' /\ link'[p] = "open"
           \/ p \in PeersOf(drop) /\ link'[p] = "gone"
<1>1. PICK f \in Fds : conn[f] = p
  BY DEF Connected
<1>2. p \in Peers /\ p \notin PeersOf(hit)
  BY DEF PeersOf, Behind, Connected
<1>3. CASE p \in PeersOf(drop)
  BY <1>2, <1>3 DEF Drop
<1>4. CASE p \notin PeersOf(drop)
  <2>1. f \notin drop
    BY <1>1, <1>4 DEF PeersOf
  <2>2. conn'[f] = p
    BY <1>1, <2>1 DEF Drop
  <2> QED BY <1>2, <1>4, <2>2 DEF Drop, Connected
<1> QED BY <1>3, <1>4

LEMMA LenOfAppend ==
    ASSUME NEW S, NEW s \in Seq(S), NEW m PROVE Len(Append(s, m)) = Len(s) + 1
<1>1. s \in Seq(S \cup {m}) /\ m \in S \cup {m}
  BY SeqMonotonic
<1> QED BY <1>1, AppendProperties

LEMMA BroadcastSpares ==
    ASSUME StateInv, NEW m, NEW also \in SUBSET members, Broadcast(m, also),
           \A f \in also : link[conn[f]] # "open", NEW p \in Connected, link[p] = "open"
    PROVE  Spared(p)
<1>1. PICK full \in SUBSET members, hit \in SUBSET Behind("closed") :
        /\ Hear(m, Behind("open") \ full)
        /\ Drop(full \cup Behind("reset") \cup also, hit)
  BY DEF Broadcast
<1> DEFINE drop == full \cup Behind("reset") \cup also
           hear == Behind("open") \ full
<1>2. drop \in SUBSET members
  BY BehindMembers
<1>3. p \in Peers /\ Len(log') > Len(log)
  <2>1. log \in Seq(Messages) /\ log' = Append(log, m)
    BY DEF StateInv, TypeOK, Broadcast
  <2>2. Len(log) \in Nat /\ Len(log') = Len(log) + 1
    BY <2>1, LenProperties, LenOfAppend
  <2> QED BY <2>2 DEF Connected
<1>4. CASE p \in PeersOf(hear)
  <2>1. PICK f \in hear : conn[f] = p
    BY <1>4 DEF PeersOf
  <2>2. f \in Fds /\ f \notin drop
    BY <2>1 DEF Behind, StateInv, TypeOK
  <2>3. conn'[f] = p
    BY <1>1, <2>1, <2>2 DEF Drop
  <2> QED BY <1>1, <1>2, <1>3, <2>2, <2>3, DropSpares DEF Spared, Connected
<1>5. CASE p \notin PeersOf(hear)
  <2>1. inbox'[p] = inbox[p]
    BY <1>1, <1>3, <1>5 DEF Hear
  <2> QED BY <1>1, <1>2, <1>3, <2>1, DropSpares DEF Spared, Refused
<1> QED BY <1>4, <1>5

LEMMA ServerSpares ==
    ASSUME StateInv, Server, NEW p \in Connected, link[p] = "open", pc' # "dead"
    PROVE  Spared(p)
<1>1. CASE EpollWait \/ AcceptEnds \/ Recv \/ RecvWouldBlock \/ ParseEnds
  BY <1>1 DEF EpollWait, AcceptEnds, Recv, RecvWouldBlock, ParseEnds, kernelVars, Connected,
              Spared
<1>2. CASE ServeUnknown
  <2>1. conn' = conn /\ link' = link
    BY <1>2 DEF StateInv, ServeUnknown, Serving, MapMatchesKernel, TypeOK
  <2> QED BY <2>1 DEF Connected, Spared
<1>3. CASE OnAccept
  <2>1. PICK q \in backlog, f \in FreeFds :
          /\ conn' = [conn EXCEPT ![f] = q]
          /\ UNCHANGED link \/ (link[q] = "closed" /\ link' = [link EXCEPT ![q] = "reset"])
    BY <1>3 DEF OnAccept
  <2>2. PICK g \in Fds : conn[g] = p
    BY DEF Connected
  <2>3. p \in Peers /\ p # None /\ f # g
    BY <2>2, ChatAssumption DEF Connected, FreeFds
  <2>4. conn'[g] = p
    BY <2>1, <2>2, <2>3 DEF StateInv, TypeOK
  <2> QED BY <2>1, <2>2, <2>3, <2>4 DEF Connected, StateInv, TypeOK, Spared
<1>4. CASE RecvEnd
  <2>1. /\ {cur} \in SUBSET members /\ link[conn[cur]] # "open"
        /\ Broadcast(Left, {cur})
    BY <1>4, LeftTyped DEF RecvEnd, StateInv, Killed, Die, Peer
  <2> QED BY <2>1, BroadcastSpares
<1>5. CASE RecvError
  <2>1. {cur} \in SUBSET members /\ Drop({cur}, {}) /\ link[conn[cur]] # "open"
    BY <1>5, LeftTyped DEF RecvError, StateInv, Peer
  <2>2. p \notin PeersOf({cur}) /\ {} \in SUBSET Behind("closed")
    BY <2>1 DEF PeersOf
  <2> QED BY <2>1, <2>2, DropSpares DEF Spared
<1>6. CASE ParseLine
  <2>1. Broadcast(Message, {})
    BY <1>6 DEF ParseLine, Killed, Die
  <2> QED BY <2>1, BroadcastSpares
<1>7. CASE ParseFreed
  <2>1. PICK m : Broadcast(m, {})
    BY <1>7 DEF ParseFreed, Killed, Die
  <2> QED BY <2>1, BroadcastSpares
<1> QED BY <1>1, <1>2, <1>3, <1>4, <1>5, <1>6, <1>7 DEF Server
-----------------------------------------------------------------------------
(* The numbers of a set in ascending order.                                *)

LEMMA NatSetInduction ==
    ASSUME NEW I, 0 \in I, \A n \in Nat : n \in I => n + 1 \in I
    PROVE  Nat \subseteq I
<1>1. CASE Nat \ I = {}
  BY <1>1
<1>2. CASE Nat \ I # {}
  <2> DEFINE i == Min(Nat \ I)
  <2>1. i \in Nat \ I /\ \A j \in Nat \ I : i <= j
    BY <1>2, MinOfNats
  <2>2. i # 0 /\ i - 1 \in Nat /\ (i - 1) + 1 = i /\ ~(i <= i - 1)
    BY <2>1
  <2>3. i - 1 \in I
    BY <2>1, <2>2
  <2> QED BY <2>1, <2>2, <2>3
<1> QED BY <1>1, <1>2

(* e lists the m numbers of I in ascending order.                          *)
Lists(e, m, I) ==
    /\ e \in [1 .. m -> I]
    /\ \A i, j \in 1 .. m : i < j => e[i] < e[j]
    /\ \A x \in I : \E i \in 1 .. m : e[i] = x

(* The list of an initial part of a set is the beginning of that of the    *)
(* set.                                                                    *)
LEMMA ListsAgree ==
    ASSUME NEW J \in SUBSET Nat, NEW I \in SUBSET J, \A x \in I, y \in J : y <= x => y \in I,
           NEW m \in Nat, NEW n \in Nat, m <= n, NEW a, NEW e, Lists(a, m, I), Lists(e, n, J)
    PROVE  \A i \in 1 .. m : a[i] = e[i]
<1> DEFINE T == {k \in Nat : \A i \in 1 .. m : i <= k => a[i] = e[i]}
<1>1. 0 \in T
  OBVIOUS
<1>2. ASSUME NEW k \in Nat, k \in T PROVE k + 1 \in T
  <2> SUFFICES ASSUME k + 1 \in 1 .. m PROVE a[k + 1] = e[k + 1]
    BY <1>2
  <2> DEFINE i == k + 1
  <2>1. i \in 1 .. m /\ i \in 1 .. n /\ \A j \in 1 .. m : j < i => a[j] = e[j]
    BY <1>2
  <2> HIDE DEF i
  <2>2. a[i] \in I /\ a[i] \in Nat /\ e[i] \in J /\ e[i] \in Nat
    BY <2>1 DEF Lists
  <2>3. PICK l \in 1 .. n : e[l] = a[i]
    BY <2>2 DEF Lists
  <2>4. ~(l < i)
    <3> SUFFICES ASSUME l < i PROVE FALSE
      OBVIOUS
    <3>1. l \in 1 .. m
      BY <2>1
    <3>2. a[l] = e[l] /\ a[l] < a[i] /\ a[l] \in I
      BY <2>1, <3>1 DEF Lists
    <3> QED BY <2>2, <2>3, <3>2
  <2>5. e[i] <= a[i]
    <3>1. CASE l = i
      BY <2>2, <2>3, <3>1
    <3>2. CASE i < l
      BY <2>1, <2>2, <2>3, <3>2 DEF Lists
    <3> QED BY <2>1, <2>4, <3>1, <3>2
  <2>6. e[i] \in I
    BY <2>2, <2>5
  <2>7. PICK j \in 1 .. m : a[j] = e[i]
    BY <2>6 DEF Lists
  <2>8. ~(j < i)
    <3> SUFFICES ASSUME j < i PROVE FALSE
      OBVIOUS
    <3>1. j \in 1 .. n
      BY <2>1
    <3>2. a[j] = e[j] /\ e[j] < e[i] /\ e[j] \in J
      BY <2>1, <3>1 DEF Lists
    <3> QED BY <2>2, <2>7, <3>2
  <2>9. a[i] <= e[i]
    <3>1. CASE j = i
      BY <2>2, <2>7, <3>1
    <3>2. CASE i < j
      BY <2>1, <2>2, <2>7, <3>2 DEF Lists
    <3> QED BY <2>1, <2>8, <3>1, <3>2
  <2> QED BY <2>2, <2>5, <2>9 DEF i
<1> HIDE DEF T
<1>3. m \in T
  BY <1>1, <1>2, NatSetInduction
<1> QED BY <1>3 DEF T

LEMMA ListsCount ==
    ASSUME NEW I \in SUBSET Nat, NEW m \in Nat, NEW e, Lists(e, m, I)
    PROVE  /\ IsFiniteSet(I) /\ Cardinality(I) = m
           /\ Lists(Ascending(I), m, I)
           /\ \A i \in 1 .. m : Ascending(I)[i] = e[i]
<1>1. IsFiniteSet(1 .. m) /\ Cardinality(1 .. m) = m
  BY FS_Interval
<1>2. e \in Bijection(1 .. m, I)
  <2>1. \A i, j \in 1 .. m : e[i] = e[j] => i = j
    <3> SUFFICES ASSUME NEW i \in 1 .. m, NEW j \in 1 .. m, i < j PROVE e[i] # e[j]
      OBVIOUS
    <3>1. e[i] \in Nat /\ e[j] \in Nat /\ e[i] < e[j]
      BY DEF Lists
    <3> QED BY <3>1
  <2> QED BY <2>1 DEF Lists, Bijection, Injection, Surjection, IsInjective
<1>3. IsFiniteSet(I) /\ Cardinality(I) = m
  BY <1>1, <1>2, FS_Bijection DEF ExistsBijection
<1> DEFINE a == Ascending(I)
<1>4. a \in [1 .. m -> I] /\ \A i, j \in DOMAIN a : i < j => a[i] < a[j]
  <2>1. e \in [1 .. m -> I] /\ \A i, j \in DOMAIN e : i < j => e[i] < e[j]
    BY DEF Lists
  <2> QED BY <1>3, <2>1 DEF Ascending
<1> HIDE DEF a
<1>5. \A i, j \in 1 .. m : a[i] = a[j] => i = j
  <2> SUFFICES ASSUME NEW i \in 1 .. m, NEW j \in 1 .. m, i < j PROVE a[i] # a[j]
    BY <1>4
  <2>1. a[i] \in Nat /\ a[j] \in Nat /\ a[i] < a[j]
    BY <1>4
  <2> QED BY <2>1
<1>6. a \in Surjection(1 .. m, I)
  <2>1. a \in Injection(1 .. m, I)
    BY <1>4, <1>5 DEF Injection, IsInjective
  <2> QED BY <1>1, <1>3, <2>1, FS_Injection
<1>7. Lists(a, m, I)
  BY <1>4, <1>6 DEF Lists, Surjection
<1>8. \A i \in 1 .. m : a[i] = e[i]
  BY <1>7, ListsAgree
<1> QED BY <1>3, <1>7, <1>8 DEF a

LEMMA ListExists ==
    ASSUME NEW n \in Nat, NEW I \in SUBSET (1 .. n)
    PROVE  \E m \in Nat : \E e : Lists(e, m, I)
<1> DEFINE T == {k \in Nat : \A K \in SUBSET (1 .. k) : \E m \in Nat : \E e : Lists(e, m, K)}
<1>1. 0 \in T
  <2> SUFFICES ASSUME NEW K \in SUBSET (1 .. 0) PROVE \E m \in Nat : \E e : Lists(e, m, K)
    OBVIOUS
  <2>1. K = {}
    OBVIOUS
  <2>2. Lists(<<>>, 0, K)
    BY <2>1 DEF Lists
  <2> QED BY <2>2
<1>2. ASSUME NEW k \in Nat, k \in T PROVE k + 1 \in T
  <2> SUFFICES ASSUME NEW K \in SUBSET (1 .. k + 1) PROVE \E m \in Nat : \E e : Lists(e, m, K)
    OBVIOUS
  <2> DEFINE L == K \ {k + 1}
  <2>1. L \in SUBSET (1 .. k) /\ \A x \in L : x \in Nat /\ x < k + 1
    OBVIOUS
  <2>2. PICK m \in Nat : \E e : Lists(e, m, L)
    BY <1>2, <2>1
  <2>3. PICK e : Lists(e, m, L)
    BY <2>2
  <2>4. CASE k + 1 \notin K
    BY <2>3, <2>4
  <2>5. CASE k + 1 \in K
    <3> DEFINE d == [i \in 1 .. m + 1 |-> IF i <= m THEN e[i] ELSE k + 1]
    <3>1. d \in [1 .. m + 1 -> K]
      BY <2>3, <2>5 DEF Lists
    <3>2. ASSUME NEW i \in 1 .. m + 1, NEW j \in 1 .. m + 1, i < j PROVE d[i] < d[j]
      <4>1. i \in 1 .. m /\ d[i] = e[i] /\ e[i] \in L
        BY <2>3, <3>2 DEF Lists
      <4>2. CASE j = m + 1
        <5>1. d[j] = k + 1
          BY <4>2
        <5> QED BY <2>1, <4>1, <5>1
      <4>3. CASE j # m + 1
        <5>1. j \in 1 .. m /\ d[j] = e[j]
          BY <4>3
        <5> QED BY <2>3, <3>2, <4>1, <5>1 DEF Lists
      <4> QED BY <4>2, <4>3
    <3>3. ASSUME NEW x \in K PROVE \E i \in 1 .. m + 1 : d[i] = x
      <4>1. CASE x = k + 1
        <5>1. m + 1 \in 1 .. m + 1 /\ d[m + 1] = x
          BY <4>1
        <5> QED BY <5>1
      <4>2. CASE x # k + 1
        <5>1. PICK i \in 1 .. m : e[i] = x
          BY <2>3, <4>2 DEF Lists
        <5>2. i \in 1 .. m + 1 /\ d[i] = x
          BY <5>1
        <5> QED BY <5>2
      <4> QED BY <4>1, <4>2
    <3> HIDE DEF d
    <3>4. Lists(d, m + 1, K)
      BY <3>1, <3>2, <3>3 DEF Lists
    <3> QED BY <3>4
  <2> QED BY <2>4, <2>5
<1> HIDE DEF T
<1>3. n \in T
  BY <1>1, <1>2, NatSetInduction
<1> QED BY <1>3 DEF T

LEMMA AscendingLists ==
    ASSUME NEW n \in Nat, NEW I \in SUBSET (1 .. n)
    PROVE  Cardinality(I) \in Nat /\ Lists(Ascending(I), Cardinality(I), I)
<1>1. PICK m \in Nat : \E e : Lists(e, m, I)
  BY ListExists
<1>2. PICK e : Lists(e, m, I)
  BY <1>1
<1>3. I \in SUBSET Nat
  OBVIOUS
<1> QED BY <1>2, <1>3, ListsCount

LEMMA AscendingAgree ==
    ASSUME NEW n \in Nat, NEW J \in SUBSET (1 .. n), NEW I \in SUBSET J,
           \A x \in I, y \in J : y <= x => y \in I
    PROVE  /\ Cardinality(I) <= Cardinality(J)
           /\ \A i \in 1 .. Cardinality(I) : Ascending(I)[i] = Ascending(J)[i]
<1>1. /\ Cardinality(I) \in Nat /\ Lists(Ascending(I), Cardinality(I), I)
      /\ Cardinality(J) \in Nat /\ Lists(Ascending(J), Cardinality(J), J)
      /\ J \in SUBSET Nat /\ IsFiniteSet(J)
  <2>1. I \in SUBSET (1 .. n) /\ J \in SUBSET Nat
    OBVIOUS
  <2>2. IsFiniteSet(J)
    <3>1. 1 \in Int /\ n \in Int
      OBVIOUS
    <3> QED BY <3>1, FS_Interval, FS_Subset
  <2> QED BY <2>1, <2>2, AscendingLists
<1>2. Cardinality(I) <= Cardinality(J)
  BY <1>1, FS_Subset
<1>3. \A i \in 1 .. Cardinality(I) : Ascending(I)[i] = Ascending(J)[i]
  <2> DEFINE m == Cardinality(I)
             k == Cardinality(J)
             a == Ascending(I)
             e == Ascending(J)
  <2>1. m \in Nat /\ k \in Nat /\ m <= k /\ Lists(a, m, I) /\ Lists(e, k, J) /\ J \in SUBSET Nat
    BY <1>1, <1>2
  <2> HIDE DEF m, k, a, e
  <2>2. \A i \in 1 .. m : a[i] = e[i]
    BY <2>1, ListsAgree
  <2> QED BY <2>2 DEF m, a, e
<1> QED BY <1>2, <1>3

(* A number greater than the others comes last.                            *)
LEMMA AscendingAdd ==
    ASSUME NEW n \in Nat, NEW I \in SUBSET (1 .. n)
    PROVE  /\ Cardinality(I \cup {n + 1}) = Cardinality(I) + 1
           /\ \A i \in 1 .. Cardinality(I) : Ascending(I \cup {n + 1})[i] = Ascending(I)[i]
           /\ Ascending(I \cup {n + 1})[Cardinality(I) + 1] = n + 1
<1> DEFINE J == I \cup {n + 1}
           m == Cardinality(I)
           d == Ascending(J)
<1>0. J \in SUBSET (1 .. n + 1) /\ n + 1 \in Nat /\ n + 1 \notin I /\ I \in SUBSET Nat /\ J \in SUBSET Nat
  OBVIOUS
<1>1. m \in Nat /\ Lists(Ascending(I), m, I) /\ Cardinality(J) \in Nat /\ Lists(d, Cardinality(J), J)
  BY <1>0, AscendingLists
<1>2. Cardinality(J) = m + 1
  BY <1>0, <1>1, ListsCount, FS_AddElement
<1>3. \A i \in 1 .. m : Ascending(I)[i] = d[i]
  <2>1. \A x \in I, y \in J : y <= x => y \in I
    OBVIOUS
  <2> QED BY <1>0, <2>1, AscendingAgree
<1> HIDE DEF d, m, J
<1>4. PICK i \in 1 .. m + 1 : d[i] = n + 1
  BY <1>1, <1>2 DEF Lists, J
<1>5. ~(i < m + 1)
  <2> SUFFICES ASSUME i < m + 1 PROVE FALSE
    OBVIOUS
  <2>1. m + 1 \in 1 .. m + 1 /\ d[i] < d[m + 1] /\ d[m + 1] \in J
    BY <1>1, <1>2 DEF Lists
  <2>2. d[m + 1] \in 1 .. n + 1
    BY <1>0, <2>1
  <2> QED BY <1>4, <2>1, <2>2
<1>6. i = m + 1
  BY <1>1, <1>5
<1> QED BY <1>2, <1>3, <1>4, <1>6 DEF d, m, J
-----------------------------------------------------------------------------
(* The lines of a stream, and those of a peer in a log.                    *)

LEMMA AgreeIsPrefix ==
    ASSUME NEW S, NEW s \in Seq(S), NEW t \in Seq(S), Len(s) <= Len(t),
           \A i \in 1 .. Len(s) : s[i] = t[i]
    PROVE  IsPrefix(s, t)
<1> DEFINE n == Len(s)
           a == SubSeq(s, 1, n)
           b == SubSeq(t, 1, n)
<1>1. n \in Nat /\ n <= Len(t) /\ Len(t) \in Nat /\ 1 \in Int /\ n \in Int
  BY LenProperties
<1>2. (\A i \in 1 .. n : s[i] \in S) /\ (\A i \in 1 .. n : t[i] \in S)
  BY <1>1, ElementOfSeq
<1> HIDE DEF n
<1>3. /\ a \in Seq(S) /\ Len(a) = (IF 1 <= n THEN n - 1 + 1 ELSE 0)
      /\ \A i \in 1 .. n - 1 + 1 : a[i] = s[1 + i - 1]
      /\ b \in Seq(S) /\ Len(b) = (IF 1 <= n THEN n - 1 + 1 ELSE 0)
      /\ \A i \in 1 .. n - 1 + 1 : b[i] = t[1 + i - 1]
  BY <1>1, <1>2, SubSeqProperties
<1> HIDE DEF a, b
<1>4. Len(a) = n /\ Len(b) = n /\ \A i \in 1 .. n : a[i] = s[i] /\ b[i] = t[i]
  BY <1>1, <1>3
<1>5. a = b
  BY <1>3, <1>4, SeqEqual DEF n
<1> QED BY <1>1, <1>5 DEF IsPrefix, n, a, b

OwnIn(l, p) == {i \in DOMAIN l : l[i].by = p /\ l[i].kind # "left"}

Said(l, p) ==
    LET own == Ascending(OwnIn(l, p))
    IN  [i \in DOMAIN own |-> l[own[i]].text]

LEMMA SaidTyped ==
    ASSUME NEW l \in Seq(Messages), NEW p
    PROVE  /\ Cardinality(OwnIn(l, p)) \in Nat
           /\ Lists(Ascending(OwnIn(l, p)), Cardinality(OwnIn(l, p)), OwnIn(l, p))
           /\ Len(Said(l, p)) = Cardinality(OwnIn(l, p))
           /\ Said(l, p) \in Seq(Seq(Chars))
           /\ \A i \in 1 .. Len(Said(l, p)) : Said(l, p)[i] = l[Ascending(OwnIn(l, p))[i]].text
<1> DEFINE O == OwnIn(l, p)
           n == Cardinality(O)
           a == Ascending(O)
<1>1. Len(l) \in Nat /\ DOMAIN l = 1 .. Len(l) /\ O \in SUBSET (1 .. Len(l))
  BY LenProperties DEF OwnIn
<1>2. n \in Nat /\ Lists(a, n, O)
  BY <1>1, AscendingLists
<1>3. a \in [1 .. n -> O] /\ \A i \in 1 .. n : a[i] \in 1 .. Len(l)
  BY <1>1, <1>2 DEF Lists
<1> HIDE DEF n, a, O
<1>4. \A i \in 1 .. n : l[a[i]] \in Messages
  BY <1>1, <1>3, ElementOfSeq
<1>5. \A i \in 1 .. n : l[a[i]].text \in Seq(Chars)
  BY <1>4 DEF Messages
<1>6. Said(l, p) = [i \in 1 .. n |-> l[a[i]].text]
  BY <1>3 DEF Said, a, O
<1>7. Said(l, p) \in Seq(Seq(Chars)) /\ Len(Said(l, p)) = n
  BY <1>2, <1>5, <1>6, IsASeq
<1> QED BY <1>2, <1>6, <1>7 DEF n, a, O

LEMMA SaidMore ==
    ASSUME NEW l \in Seq(Messages), NEW m \in Messages, NEW p
    PROVE  Said(Append(l, m), p) =
              IF m.by = p /\ m.kind # "left" THEN Append(Said(l, p), m.text) ELSE Said(l, p)
<1> DEFINE k == Append(l, m)
           n == Len(l)
           O == OwnIn(l, p)
<1>1. /\ k \in Seq(Messages) /\ n \in Nat /\ Len(k) = n + 1 /\ k[n + 1] = m
      /\ \A i \in 1 .. n : k[i] = l[i]
      /\ DOMAIN l = 1 .. n /\ DOMAIN k = 1 .. n + 1 /\ O \in SUBSET (1 .. n)
  BY AppendProperties, LenProperties DEF OwnIn
<1>2. O = {i \in 1 .. n : l[i].by = p /\ l[i].kind # "left"}
  BY <1>1 DEF OwnIn
<1>3. OwnIn(k, p) = {i \in 1 .. n + 1 : k[i].by = p /\ k[i].kind # "left"}
  BY <1>1 DEF OwnIn
<1> DEFINE c == Cardinality(O)
           a == Ascending(O)
<1>4. c \in Nat /\ Lists(a, c, O) /\ a \in [1 .. c -> O] /\ \A i \in 1 .. c : a[i] \in 1 .. n
  <2>1. c \in Nat /\ Lists(a, c, O)
    BY SaidTyped
  <2> QED BY <1>1, <2>1 DEF Lists
<1> HIDE DEF k, n, O, c, a
<1>5. Said(l, p) = [i \in 1 .. c |-> l[a[i]].text]
  BY <1>4 DEF Said, O, a
<1>6. CASE ~(m.by = p /\ m.kind # "left")
  <2>1. OwnIn(k, p) = O
    BY <1>1, <1>2, <1>3, <1>6
  <2>2. Said(k, p) = [i \in 1 .. c |-> k[a[i]].text]
    BY <1>4, <2>1 DEF Said, a
  <2>3. \A i \in 1 .. c : k[a[i]].text = l[a[i]].text
    BY <1>1, <1>4
  <2> QED BY <1>5, <1>6, <2>2, <2>3 DEF k
<1>7. CASE m.by = p /\ m.kind # "left"
  <2>1. OwnIn(k, p) = O \cup {n + 1}
    BY <1>1, <1>2, <1>3, <1>7
  <2> DEFINE d == Ascending(O \cup {n + 1})
  <2>2. /\ Cardinality(O \cup {n + 1}) = c + 1
        /\ \A i \in 1 .. c : d[i] = a[i]
        /\ d[c + 1] = n + 1
    BY <1>1, AscendingAdd DEF c, a
  <2>3. /\ Said(k, p) \in Seq(Seq(Chars)) /\ Len(Said(k, p)) = c + 1
        /\ \A i \in 1 .. c + 1 : Said(k, p)[i] = k[d[i]].text
    <3>1. /\ Said(k, p) \in Seq(Seq(Chars)) /\ Len(Said(k, p)) = Cardinality(OwnIn(k, p))
          /\ \A i \in 1 .. Len(Said(k, p)) : Said(k, p)[i] = k[Ascending(OwnIn(k, p))[i]].text
      BY <1>1, SaidTyped
    <3>2. Ascending(OwnIn(k, p)) = d /\ Cardinality(OwnIn(k, p)) = c + 1
      BY <2>1, <2>2
    <3> HIDE DEF d
    <3> QED BY <3>1, <3>2
  <2> HIDE DEF d
  <2>4. /\ Said(l, p) \in Seq(Seq(Chars)) /\ Len(Said(l, p)) = c
        /\ \A i \in 1 .. c : Said(l, p)[i] = l[a[i]].text
    BY SaidTyped DEF c, a, O
  <2>5. m.text \in Seq(Chars)
    BY DEF Messages
  <2> DEFINE u == Append(Said(l, p), m.text)
  <2>6. /\ u \in Seq(Seq(Chars)) /\ Len(u) = c + 1 /\ u[c + 1] = m.text
        /\ \A i \in 1 .. c : u[i] = Said(l, p)[i]
    BY <2>4, <2>5, AppendProperties
  <2> HIDE DEF u
  <2>7. ASSUME NEW i \in 1 .. c + 1 PROVE u[i] = Said(k, p)[i]
    <3>1. CASE i \in 1 .. c
      <4>1. k[a[i]] = l[a[i]]
        BY <1>1, <1>4, <3>1
      <4>2. d[i] = a[i] /\ u[i] = Said(l, p)[i] /\ Said(l, p)[i] = l[a[i]].text
        BY <2>2, <2>4, <2>6, <3>1
      <4>3. Said(k, p)[i] = k[d[i]].text
        BY <2>3
      <4> QED BY <4>1, <4>2, <4>3
    <3>2. CASE i = c + 1
      BY <1>1, <2>2, <2>3, <2>6, <3>2
    <3> QED BY <1>4, <3>1, <3>2
  <2>8. u = Said(k, p)
    BY <2>3, <2>6, <2>7, SeqEqual
  <2> QED BY <1>7, <2>8 DEF u, k
<1> QED BY <1>6, <1>7

(* Where line i of s starts.                                               *)
StartOf(s, i) == IF i = 1 THEN 1 ELSE Ascending(LineEnds(s))[i - 1] + 1

LEMMA LinesTyped ==
    ASSUME NEW s \in Stream
    PROVE  /\ LineEnds(s) \in SUBSET (1 .. Len(s)) /\ Len(s) \in Nat
           /\ Cardinality(LineEnds(s)) \in Nat
           /\ Lists(Ascending(LineEnds(s)), Cardinality(LineEnds(s)), LineEnds(s))
           /\ \A i \in 1 .. Cardinality(LineEnds(s)) : StartOf(s, i) \in 1 .. Len(s)
           /\ Lines(s) \in Seq(Stream) /\ Len(Lines(s)) = Cardinality(LineEnds(s))
           /\ \A i \in 1 .. Cardinality(LineEnds(s)) :
                 Lines(s)[i] = SubSeq(s, StartOf(s, i), Ascending(LineEnds(s))[i] - 1)
<1> DEFINE I == LineEnds(s)
           c == Cardinality(I)
           a == Ascending(I)
           n == Len(s)
<1>1. n \in Nat /\ I \in SUBSET (1 .. n) /\ \A i \in 1 .. n : s[i] \in Chars \cup {NL}
  BY LenProperties, ElementOfSeq DEF LineEnds, Stream
<1>2. c \in Nat /\ Lists(a, c, I)
  BY <1>1, AscendingLists
<1>3. a \in [1 .. c -> I] /\ \A i \in 1 .. c : a[i] \in 1 .. n
  BY <1>1, <1>2 DEF Lists
<1> HIDE DEF c, a, I, n
<1>4. ASSUME NEW i \in 1 .. c PROVE StartOf(s, i) \in 1 .. n
  <2>1. CASE i = 1
    BY <1>1, <1>3, <2>1 DEF StartOf
  <2>2. CASE i # 1
    <3>1. i - 1 \in 1 .. c /\ i - 1 < i
      BY <1>2, <2>2
    <3>2. a[i - 1] < a[i] /\ a[i - 1] \in 1 .. n /\ a[i] \in 1 .. n
      BY <1>2, <1>3, <3>1 DEF Lists
    <3>3. StartOf(s, i) = a[i - 1] + 1
      BY <2>2 DEF StartOf, a, I
    <3> QED BY <1>1, <3>2, <3>3
  <2> QED BY <2>1, <2>2
<1>5. Lines(s) = [i \in 1 .. c |-> SubSeq(s, StartOf(s, i), a[i] - 1)]
  BY <1>3 DEF Lines, StartOf, a, I
<1>6. ASSUME NEW i \in 1 .. c PROVE SubSeq(s, StartOf(s, i), a[i] - 1) \in Stream
  <2> DEFINE x == StartOf(s, i)
             y == a[i] - 1
  <2>1. x \in Int /\ y \in Int /\ \A j \in x .. y : j \in 1 .. n
    BY <1>1, <1>3, <1>4
  <2>2. \A j \in x .. y : s[j] \in Chars \cup {NL}
    BY <1>1, <2>1
  <2> HIDE DEF x, y
  <2>3. SubSeq(s, x, y) \in Stream
    BY <2>1, <2>2, SubSeqProperties DEF Stream
  <2> QED BY <2>3 DEF x, y
<1>7. Lines(s) \in Seq(Stream) /\ Len(Lines(s)) = c
  BY <1>2, <1>5, <1>6, IsASeq
<1> QED BY <1>1, <1>2, <1>4, <1>5, <1>7 DEF c, a, I, n

(* A stream that goes on keeps the lines it has.                           *)
LEMMA LinesMore ==
    ASSUME NEW s \in Stream, NEW x \in Chars \cup {NL}
    PROVE  LET c == Cardinality(LineEnds(s))
               t == Append(s, x)
           IN  /\ c <= Cardinality(LineEnds(t))
               /\ \A i \in 1 .. c :
                     /\ Lines(t)[i] = Lines(s)[i]
                     /\ Ascending(LineEnds(t))[i] = Ascending(LineEnds(s))[i]
<1> DEFINE t == Append(s, x)
           n == Len(s)
           I == LineEnds(s)
           J == LineEnds(t)
           c == Cardinality(I)
           a == Ascending(I)
           e == Ascending(J)
<1>1. /\ t \in Stream /\ n \in Nat /\ Len(t) = n + 1 /\ \A i \in 1 .. n : t[i] = s[i]
      /\ \A i \in 1 .. n : s[i] \in Chars \cup {NL}
  BY AppendProperties, LenProperties, ElementOfSeq DEF Stream
<1> HIDE DEF t, n
<1>2. J \in SUBSET (1 .. n + 1) /\ I \in SUBSET J /\ \A i \in I : i \in 1 .. n
  BY <1>1 DEF LineEnds, n
<1>3. \A i \in I, j \in J : j <= i => j \in I
  BY <1>1, <1>2 DEF LineEnds, n
<1>4. c <= Cardinality(J) /\ \A i \in 1 .. c : a[i] = e[i]
  <2>1. n + 1 \in Nat
    BY <1>1
  <2> QED BY <1>2, <1>3, <2>1, AscendingAgree
<1>5. /\ c \in Nat /\ Lists(a, c, I)
      /\ \A i \in 1 .. c : /\ StartOf(s, i) \in 1 .. n
                           /\ Lines(s)[i] = SubSeq(s, StartOf(s, i), a[i] - 1)
      /\ Cardinality(J) \in Nat
      /\ \A i \in 1 .. Cardinality(J) : Lines(t)[i] = SubSeq(t, StartOf(t, i), e[i] - 1)
  BY <1>1, LinesTyped DEF n
<1> HIDE DEF a, e, c, I, J
<1>6. ASSUME NEW i \in 1 .. c PROVE Lines(t)[i] = Lines(s)[i]
  <2> DEFINE u == StartOf(s, i)
             v == a[i] - 1
  <2>1. StartOf(t, i) = u
    <3>1. CASE i = 1
      BY <3>1 DEF StartOf
    <3>2. CASE i # 1
      <4>1. i - 1 \in 1 .. c
        BY <1>5, <3>2
      <4>2. StartOf(t, i) = e[i - 1] + 1 /\ u = a[i - 1] + 1
        BY <3>2 DEF StartOf, e, a, I, J
      <4> QED BY <1>4, <4>1, <4>2
    <3> QED BY <3>1, <3>2
  <2>2. e[i] = a[i] /\ i \in 1 .. Cardinality(J)
    BY <1>4, <1>5
  <2>3. a[i] \in 1 .. n /\ u \in 1 .. n
    BY <1>2, <1>5 DEF Lists
  <2>4. u \in Int /\ v \in Int /\ \A j \in u .. v : j \in 1 .. n
    BY <1>1, <2>3
  <2>5. Lines(s)[i] = SubSeq(s, u, v) /\ Lines(t)[i] = SubSeq(t, u, v)
    BY <1>5, <2>1, <2>2
  <2> HIDE DEF u, v
  <2> DEFINE q == SubSeq(s, u, v)
             r == SubSeq(t, u, v)
  <2>6. \A j \in u .. v : s[j] \in Chars \cup {NL} /\ t[j] \in Chars \cup {NL} /\ s[j] = t[j]
    BY <1>1, <2>4
  <2>7. /\ q \in Stream /\ Len(q) = (IF u <= v THEN v - u + 1 ELSE 0)
        /\ \A j \in 1 .. v - u + 1 : q[j] = s[u + j - 1]
        /\ r \in Stream /\ Len(r) = (IF u <= v THEN v - u + 1 ELSE 0)
        /\ \A j \in 1 .. v - u + 1 : r[j] = t[u + j - 1]
    BY <2>4, <2>6, SubSeqProperties DEF Stream
  <2> HIDE DEF q, r
  <2>8. ASSUME NEW j \in 1 .. Len(q) PROVE q[j] = r[j]
    <3>1. j \in 1 .. v - u + 1 /\ u + j - 1 \in u .. v
      BY <2>4, <2>7
    <3> QED BY <2>6, <2>7, <3>1
  <2>9. q = r
    BY <2>7, <2>8, SeqEqual DEF Stream
  <2> QED BY <2>5, <2>9 DEF q, r
<1> QED BY <1>4, <1>6 DEF t, c, a, e, I, J

(* After k lines of s, b comes next, and ends its first line at n.         *)
CutOf(s, k) == IF k = 0 THEN 0 ELSE Ascending(LineEnds(s))[k]

LEMMA NextLine ==
    ASSUME NEW s \in Stream, NEW k \in Nat, k <= Cardinality(LineEnds(s)),
           NEW b \in Stream, CutOf(s, k) + Len(b) <= Len(s),
           \A i \in 1 .. Len(b) : b[i] = s[CutOf(s, k) + i],
           NEW n \in 1 .. Len(b), b[n] = NL, \A i \in 1 .. Len(b) : b[i] = NL => n <= i
    PROVE  /\ k + 1 <= Cardinality(LineEnds(s))
           /\ CutOf(s, k + 1) = CutOf(s, k) + n
           /\ Lines(s)[k + 1] = SubSeq(b, 1, n - 1)
<1> DEFINE I == LineEnds(s)
           m == Cardinality(I)
           a == Ascending(I)
           h == CutOf(s, k)
<1>1. /\ I \in SUBSET (1 .. Len(s)) /\ Len(s) \in Nat /\ Len(b) \in Nat
      /\ m \in Nat /\ Lists(a, m, I)
  BY LinesTyped, LenProperties DEF Stream
<1>2. h \in Nat /\ (k # 0 => k \in 1 .. m /\ h = a[k])
  <2>1. CASE k = 0
    BY <2>1 DEF CutOf
  <2>2. CASE k # 0
    <3>1. k \in 1 .. m /\ h = a[k]
      BY <1>1, <2>2 DEF CutOf
    <3>2. a[k] \in I
      BY <1>1, <3>1 DEF Lists
    <3>3. h \in 1 .. Len(s)
      BY <1>1, <3>1, <3>2
    <3>4. h \in Nat
      BY <1>1, <3>3
    <3> HIDE DEF h, a, I, m
    <3> QED BY <3>1, <3>4
  <2> QED BY <2>1, <2>2
<1>3. Lines(s)[k + 1] = SubSeq(s, StartOf(s, k + 1), a[k + 1] - 1) \/ ~(k + 1 <= m)
  <2> SUFFICES ASSUME k + 1 <= m
               PROVE  Lines(s)[k + 1] = SubSeq(s, StartOf(s, k + 1), a[k + 1] - 1)
    OBVIOUS
  <2>1. k + 1 \in 1 .. m
    BY <1>1
  <2> HIDE DEF m
  <2>2. \A i \in 1 .. m : Lines(s)[i] = SubSeq(s, StartOf(s, i), a[i] - 1)
    BY LinesTyped DEF m
  <2> QED BY <2>1, <2>2
<1>4. StartOf(s, k + 1) = h + 1
  <2>1. CASE k = 0
    BY <2>1 DEF StartOf, CutOf
  <2>2. CASE k # 0
    <3>1. k + 1 # 1 /\ (k + 1) - 1 = k
      BY <2>2
    <3> QED BY <2>2, <3>1 DEF StartOf, CutOf
  <2> QED BY <2>1, <2>2
<1>5. CutOf(s, k + 1) = a[k + 1]
  BY DEF CutOf
<1>6. h + Len(b) <= Len(s) /\ \A i \in 1 .. Len(b) : b[i] = s[h + i]
  OBVIOUS
<1>7. \A i \in 1 .. Len(s) : i \in I <=> s[i] = NL
  BY DEF LineEnds
<1>8. k <= m
  OBVIOUS
<1> HIDE DEF I, m, a, h
<1>9. h + n \in I
  BY <1>1, <1>2, <1>6, <1>7
<1>10. PICK j \in 1 .. m : a[j] = h + n
  BY <1>1, <1>9 DEF Lists
<1>11. j > k
  <2> SUFFICES ASSUME j <= k PROVE FALSE
    BY <1>1
  <2>1. k # 0 /\ k \in 1 .. m /\ h = a[k]
    BY <1>2, <1>8
  <2>2. a[j] <= a[k]
    <3>1. CASE j = k
      BY <1>2, <2>1, <3>1
    <3>2. CASE j < k
      BY <1>1, <1>2, <1>10, <2>1, <3>2 DEF Lists
    <3> QED BY <1>1, <3>1, <3>2
  <2> QED BY <1>2, <1>10, <2>1, <2>2
<1>12. k + 1 \in 1 .. m
  BY <1>1, <1>11
<1>13. a[k + 1] \in I /\ a[k + 1] \in 1 .. Len(s) /\ s[a[k + 1]] = NL
  BY <1>1, <1>7, <1>12 DEF Lists
<1>14. a[k + 1] <= h + n
  <2>1. CASE j = k + 1
    BY <1>2, <1>10, <2>1
  <2>2. CASE j > k + 1
    <3>1. a[k + 1] < a[j]
      BY <1>1, <1>12, <2>2 DEF Lists
    <3> QED BY <1>2, <1>10, <1>13, <3>1
  <2> QED BY <1>1, <1>11, <2>1, <2>2
<1>15. a[k + 1] > h
  <2>1. CASE k = 0
    BY <1>13, <2>1 DEF CutOf, h
  <2>2. CASE k # 0
    <3>1. k \in 1 .. m /\ h = a[k] /\ k < k + 1
      BY <1>2, <2>2
    <3>2. a[k] < a[k + 1]
      BY <1>1, <1>12, <3>1 DEF Lists
    <3> QED BY <1>2, <1>13, <3>1, <3>2
  <2> QED BY <2>1, <2>2
<1>16. a[k + 1] = h + n
  <2> DEFINE i == a[k + 1] - h
  <2>1. i \in 1 .. n /\ h + i = a[k + 1]
    BY <1>1, <1>2, <1>13, <1>14, <1>15
  <2>2. i \in 1 .. Len(b)
    BY <1>1, <2>1
  <2> HIDE DEF i
  <2>3. b[i] = NL
    BY <1>6, <1>13, <2>1, <2>2
  <2>4. n <= i
    BY <2>2, <2>3
  <2> QED BY <1>1, <1>2, <1>13, <2>1, <2>4
<1>17. SubSeq(s, h + 1, h + n - 1) = SubSeq(b, 1, n - 1)
  <2> DEFINE u == h + 1
             v == h + n - 1
             w == n - 1
             q == SubSeq(s, u, v)
             r == SubSeq(b, 1, w)
  <2>1. u \in Int /\ v \in Int /\ w \in Nat /\ v - u + 1 = w /\ (u <= v <=> w > 0)
    BY <1>2
  <2>2. \A i \in 1 .. w : i \in 1 .. Len(b) /\ b[i] = s[h + i] /\ u + i - 1 = h + i
    BY <1>1, <1>2, <1>6
  <2>3. \A i \in u .. v : i \in 1 .. Len(s)
    BY <1>1, <1>2, <1>6
  <2>4. (\A i \in u .. v : s[i] \in Chars \cup {NL}) /\ (\A i \in 1 .. w : b[i] \in Chars \cup {NL})
    BY <2>2, <2>3, ElementOfSeq DEF Stream
  <2> HIDE DEF u, v, w
  <2>5. /\ q \in Stream /\ Len(q) = (IF u <= v THEN v - u + 1 ELSE 0)
        /\ \A i \in 1 .. v - u + 1 : q[i] = s[u + i - 1]
    BY <2>1, <2>4, SubSeqProperties DEF Stream
  <2>6. /\ r \in Stream /\ Len(r) = (IF 1 <= w THEN w - 1 + 1 ELSE 0)
        /\ \A i \in 1 .. w - 1 + 1 : r[i] = b[1 + i - 1]
    <3>1. 1 \in Int /\ w \in Int
      BY <2>1
    <3> QED BY <2>4, <3>1, SubSeqProperties DEF Stream
  <2> HIDE DEF q, r
  <2>7. Len(q) = w /\ Len(r) = w
    BY <2>1, <2>5, <2>6
  <2>8. ASSUME NEW i \in 1 .. w PROVE q[i] = r[i]
    <3>1. q[i] = s[u + i - 1] /\ r[i] = b[i]
      BY <2>1, <2>5, <2>6
    <3> QED BY <2>2, <3>1
  <2>9. q = r
    BY <2>5, <2>6, <2>7, <2>8, SeqEqual DEF Stream
  <2> QED BY <2>9 DEF q, r, u, v, w
<1>18. k + 1 <= m
  BY <1>1, <1>12
<1>19. Lines(s)[k + 1] = SubSeq(s, h + 1, h + n - 1)
  <2>1. Lines(s)[k + 1] = SubSeq(s, StartOf(s, k + 1), a[k + 1] - 1)
    BY <1>3, <1>18
  <2>2. a[k + 1] - 1 = h + n - 1
    BY <1>1, <1>2, <1>13, <1>16
  <2> QED BY <1>4, <2>1, <2>2
<1>20. Lines(s)[k + 1] = SubSeq(b, 1, n - 1) /\ CutOf(s, k + 1) = h + n
  BY <1>5, <1>16, <1>17, <1>19
<1> QED BY <1>18, <1>20 DEF m, I, h
-----------------------------------------------------------------------------
(* b is what follows the first k lines of s, or (Fills) all that follows.  *)
Follows(s, k, b) ==
    /\ CutOf(s, k) + Len(b) <= Len(s)
    /\ \A i \in 1 .. Len(b) : b[i] = s[CutOf(s, k) + i]

Fills(s, k, b) == Follows(s, k, b) /\ CutOf(s, k) + Len(b) = Len(s)

(* The lines of p in the log are those it has sent, as far as they go.     *)
InOrder(p) ==
    /\ Len(Said(log, p)) <= Cardinality(LineEnds(sent[p]))
    /\ \A i \in 1 .. Len(Said(log, p)) : Said(log, p)[i] = Lines(sent[p])[i]

Joined(p, name, n) ==
    \E j \in 1 .. n : log[j].by = p /\ log[j].kind = "joined" /\ log[j].who = name

LogInv ==
    /\ \A p \in Peers : InOrder(p)
    /\ \A i \in DOMAIN log :
          log[i].kind = "says" /\ log[i].by # None => Joined(log[i].by, log[i].who, i - 1)

Free(p) == link[p] = "away" \/ p \in backlog

(* What p, the peer of f, has sent: the lines in the log, then the rest.   *)
Rest(f) ==
    LET p == node[f].peer
        k == Len(Said(log, p))
    IN  Fills(sent[p], k, node[f].inbuf \o wire[p])

Kept(f) ==
    /\ Rest(f)
    /\ node[f].name # <<>> => Joined(node[f].peer, node[f].name, Len(log))
    /\ ~Free(node[f].peer)

NoTwo == \A f, g \in members : node[f].peer = node[g].peer => f = g

Waiting(p) == Free(p) => wire[p] = sent[p] /\ Len(Said(log, p)) = 0

HoldInv ==
    pc # "dead" =>
        NoTwo /\ (\A f \in members : Kept(f)) /\ (\A p \in Peers : Waiting(p))

LinesInv == LogInv /\ HoldInv

LEMMA CutInStream ==
    ASSUME NEW s \in Stream, NEW k \in Nat, k <= Cardinality(LineEnds(s))
    PROVE  CutOf(s, k) \in 0 .. Len(s) /\ Len(s) \in Nat
<1>1. /\ Len(s) \in Nat /\ LineEnds(s) \in SUBSET (1 .. Len(s))
      /\ Lists(Ascending(LineEnds(s)), Cardinality(LineEnds(s)), LineEnds(s))
      /\ Cardinality(LineEnds(s)) \in Nat
  BY LinesTyped
<1>2. CASE k = 0
  BY <1>1, <1>2 DEF CutOf
<1>3. CASE k # 0
  <2>1. k \in 1 .. Cardinality(LineEnds(s))
    BY <1>1, <1>3
  <2>2. Ascending(LineEnds(s))[k] \in 1 .. Len(s)
    BY <1>1, <2>1 DEF Lists
  <2> QED BY <1>1, <1>3, <2>2 DEF CutOf
<1> QED BY <1>2, <1>3

LEMMA FollowsPart ==
    ASSUME NEW s \in Stream, NEW k \in Nat, k <= Cardinality(LineEnds(s)),
           NEW b \in Stream, NEW w \in Stream, Follows(s, k, b \o w)
    PROVE  Follows(s, k, b)
<1> DEFINE h == CutOf(s, k)
<1>1. h \in Nat /\ Len(s) \in Nat
  BY CutInStream
<1>2. /\ Len(b) \in Nat /\ Len(w) \in Nat /\ Len(b \o w) = Len(b) + Len(w)
      /\ \A i \in 1 .. Len(b) + Len(w) : (b \o w)[i] = IF i <= Len(b) THEN b[i] ELSE w[i - Len(b)]
  BY ConcatProperties, LenProperties DEF Stream
<1>3. h + Len(b \o w) <= Len(s) /\ \A i \in 1 .. Len(b \o w) : (b \o w)[i] = s[h + i]
  BY DEF Follows
<1> HIDE DEF h
<1>4. h + Len(b) <= Len(s)
  BY <1>1, <1>2, <1>3
<1>5. ASSUME NEW i \in 1 .. Len(b) PROVE b[i] = s[h + i]
  <2>1. i \in 1 .. Len(b) + Len(w) /\ i <= Len(b)
    BY <1>2
  <2> QED BY <1>2, <1>3, <2>1
<1> QED BY <1>4, <1>5 DEF Follows, h

(* More is sent.                                                           *)
LEMMA FollowsMore ==
    ASSUME NEW s \in Stream, NEW k \in Nat, k <= Cardinality(LineEnds(s)),
           NEW x \in Chars \cup {NL}, NEW b \in Stream
    PROVE  /\ Follows(s, k, b) => Follows(Append(s, x), k, b)
           /\ Fills(s, k, b) => Fills(Append(s, x), k, Append(b, x))
<1> DEFINE h == CutOf(s, k)
           t == Append(s, x)
           c == Append(b, x)
<1>1. h \in Nat /\ Len(s) \in Nat /\ Len(b) \in Nat
  BY CutInStream, LenProperties DEF Stream
<1>2. /\ Len(t) = Len(s) + 1 /\ t[Len(s) + 1] = x /\ \A i \in 1 .. Len(s) : t[i] = s[i]
      /\ Len(c) = Len(b) + 1 /\ c[Len(b) + 1] = x /\ \A i \in 1 .. Len(b) : c[i] = b[i]
  BY AppendProperties DEF Stream
<1>3. CutOf(t, k) = h
  <2>1. CASE k = 0
    BY <2>1 DEF CutOf
  <2>2. CASE k # 0
    <3>1. k \in 1 .. Cardinality(LineEnds(s))
      BY <2>2, LinesTyped
    <3> QED BY <2>2, <3>1, LinesMore DEF CutOf
  <2> QED BY <2>1, <2>2
<1> HIDE DEF h, t, c
<1>4. ASSUME Follows(s, k, b) PROVE Follows(t, k, b) /\ \A i \in 1 .. Len(b) : c[i] = t[h + i]
  <2>1. h + Len(b) <= Len(s) /\ \A i \in 1 .. Len(b) : b[i] = s[h + i]
    BY <1>4 DEF Follows, h
  <2>2. ASSUME NEW i \in 1 .. Len(b) PROVE b[i] = t[h + i] /\ c[i] = b[i]
    <3>1. h + i \in 1 .. Len(s)
      BY <1>1, <2>1
    <3> QED BY <1>2, <2>1, <3>1
  <2>3. h + Len(b) <= Len(t)
    BY <1>1, <1>2, <2>1
  <2> QED BY <1>3, <2>2, <2>3 DEF Follows
<1>5. ASSUME Fills(s, k, b) PROVE Fills(t, k, c)
  <2>1. h + Len(b) = Len(s) /\ \A i \in 1 .. Len(b) : c[i] = t[h + i]
    BY <1>4, <1>5 DEF Fills, h
  <2>2. h + Len(c) = Len(t) /\ h + Len(c) <= Len(t)
    BY <1>1, <1>2, <2>1
  <2>3. ASSUME NEW i \in 1 .. Len(c) PROVE c[i] = t[h + i]
    <3>1. CASE i = Len(b) + 1
      <4>1. h + i = Len(s) + 1
        BY <1>1, <2>1, <3>1
      <4> QED BY <1>2, <3>1, <4>1
    <3>2. CASE i # Len(b) + 1
      <4>1. i \in 1 .. Len(b)
        BY <1>1, <1>2, <3>2
      <4> QED BY <2>1, <4>1
    <3> QED BY <3>1, <3>2
  <2> QED BY <1>3, <2>2, <2>3 DEF Follows, Fills
<1> QED BY <1>4, <1>5 DEF t, c

(* The next line is taken off.                                             *)
LEMMA FollowsNext ==
    ASSUME NEW s \in Stream, NEW k \in Nat, k <= Cardinality(LineEnds(s)),
           NEW b \in Stream, NEW n \in 1 .. Len(b), CutOf(s, k + 1) = CutOf(s, k) + n,
           NEW c \in Stream, Len(c) = Len(b) - n, \A i \in 1 .. Len(c) : c[i] = b[n + i]
    PROVE  /\ Follows(s, k, b) => Follows(s, k + 1, c)
           /\ Fills(s, k, b) => Fills(s, k + 1, c)
<1> DEFINE h == CutOf(s, k)
<1>1. h \in Nat /\ Len(s) \in Nat /\ Len(b) \in Nat /\ Len(c) \in Nat
  <2>1. h \in Nat /\ Len(s) \in Nat
    BY CutInStream
  <2>2. Len(b) \in Nat /\ Len(c) \in Nat
    BY LenProperties DEF Stream
  <2> QED BY <2>1, <2>2
<1>2. CutOf(s, k + 1) = h + n
  OBVIOUS
<1> HIDE DEF h
<1>3. ASSUME Follows(s, k, b) PROVE Follows(s, k + 1, c)
  <2>1. h + Len(b) <= Len(s) /\ \A i \in 1 .. Len(b) : b[i] = s[h + i]
    BY <1>3 DEF Follows, h
  <2>2. (h + n) + Len(c) <= Len(s)
    BY <1>1, <2>1
  <2>3. ASSUME NEW i \in 1 .. Len(c) PROVE c[i] = s[(h + n) + i]
    <3>1. n + i \in 1 .. Len(b) /\ h + (n + i) = (h + n) + i
      BY <1>1
    <3>2. c[i] = b[n + i] /\ b[n + i] = s[h + (n + i)]
      BY <2>1, <3>1
    <3> QED BY <3>1, <3>2
  <2> QED BY <1>2, <2>2, <2>3 DEF Follows
<1>4. ASSUME Fills(s, k, b) PROVE Fills(s, k + 1, c)
  <2>1. h + Len(b) = Len(s) /\ Follows(s, k, b)
    BY <1>4 DEF Fills, h
  <2>2. (h + n) + Len(c) = Len(s)
    <3> DEFINE x == Len(b)
               y == Len(c)
               z == Len(s)
    <3>1. h \in Int /\ x \in Int /\ y \in Int /\ z \in Int /\ n \in Int /\ h + x = z /\ y = x - n
      BY <1>1, <2>1
    <3> HIDE DEF x, y, z
    <3>2. (h + n) + y = z
      BY <3>1
    <3> QED BY <3>2 DEF y, z
  <2> QED BY <1>2, <1>3, <2>1, <2>2 DEF Fills
<1> QED BY <1>3, <1>4

LEMMA AppendBehind ==
    ASSUME NEW b \in Stream, NEW w \in Stream, NEW x \in Chars \cup {NL}
    PROVE  b \o Append(w, x) = Append(b \o w, x)
<1>1. /\ Append(w, x) = w \o <<x>> /\ b \o w \in Stream /\ <<x>> \in Stream
      /\ Append(b \o w, x) = (b \o w) \o <<x>>
  BY AppendIsConcat, ConcatProperties DEF Stream
<1> QED BY <1>1, ConcatAssociative DEF Stream

(* What is left of b, and of b \o w, behind the first n of b.              *)
LEMMA RestOfOne ==
    ASSUME NEW b \in Stream, NEW n \in 1 .. Len(b)
    PROVE  /\ SubSeq(b, n + 1, Len(b)) \in Stream
           /\ Len(SubSeq(b, n + 1, Len(b))) = Len(b) - n
           /\ \A i \in 1 .. Len(b) - n : SubSeq(b, n + 1, Len(b))[i] = b[n + i]
<1> DEFINE m == Len(b)
           r == SubSeq(b, n + 1, m)
<1>1. m \in Nat /\ n \in 1 .. m /\ \A i \in 1 .. m : b[i] \in Chars \cup {NL}
  BY LenProperties, ElementOfSeq DEF Stream
<1>2. n + 1 \in Int /\ m \in Int /\ \A i \in n + 1 .. m : b[i] \in Chars \cup {NL}
  BY <1>1
<1> HIDE DEF m
<1>3. /\ r \in Stream /\ Len(r) = IF n + 1 <= m THEN m - (n + 1) + 1 ELSE 0
      /\ \A i \in 1 .. m - (n + 1) + 1 : r[i] = b[n + 1 + i - 1]
  BY <1>2, SubSeqProperties DEF Stream
<1> HIDE DEF r
<1>4. Len(r) = m - n
  BY <1>1, <1>3
<1>5. ASSUME NEW i \in 1 .. m - n PROVE r[i] = b[n + i]
  <2>1. i \in 1 .. m - (n + 1) + 1 /\ n + 1 + i - 1 = n + i
    BY <1>1
  <2> QED BY <1>3, <2>1
<1> QED BY <1>3, <1>4, <1>5 DEF r, m

RestOf(r, b, n) == Len(r) = Len(b) - n /\ \A i \in 1 .. Len(r) : r[i] = b[n + i]

LEMMA RestOfBoth ==
    ASSUME NEW b \in Stream, NEW w \in Stream, NEW n \in 1 .. Len(b),
           NEW r \in Stream, RestOf(r, b, n)
    PROVE  /\ b \o w \in Stream /\ n \in 1 .. Len(b \o w)
           /\ r \o w \in Stream /\ RestOf(r \o w, b \o w, n)
<1> DEFINE m == Len(b)
           c == b \o w
           d == r \o w
<1>1. /\ m \in Nat /\ Len(w) \in Nat /\ n \in 1 .. m /\ Len(r) = m - n
      /\ \A i \in 1 .. Len(r) : r[i] = b[n + i]
  BY LenProperties DEF Stream, RestOf
<1>2. /\ c \in Stream /\ Len(c) = m + Len(w)
      /\ \A i \in 1 .. m + Len(w) : c[i] = IF i <= m THEN b[i] ELSE w[i - m]
      /\ d \in Stream /\ Len(d) = Len(r) + Len(w)
      /\ \A i \in 1 .. Len(r) + Len(w) : d[i] = IF i <= Len(r) THEN r[i] ELSE w[i - Len(r)]
  BY ConcatProperties DEF Stream
<1> HIDE DEF c, d, m
<1>3. n \in 1 .. Len(c) /\ Len(d) = Len(c) - n
  BY <1>1, <1>2
<1>4. ASSUME NEW i \in 1 .. Len(d) PROVE d[i] = c[n + i]
  <2>1. n + i \in 1 .. m + Len(w) /\ i \in 1 .. Len(r) + Len(w)
    BY <1>1, <1>2
  <2>2. CASE i <= m - n
    <3>1. n + i <= m /\ i \in 1 .. Len(r)
      BY <1>1, <2>1, <2>2
    <3> QED BY <1>1, <1>2, <2>1, <2>2, <3>1
  <2>3. CASE ~(i <= m - n)
    <3>1. ~(n + i <= m) /\ (n + i) - m = i - (m - n)
      BY <1>1, <2>1, <2>3
    <3> QED BY <1>1, <1>2, <2>1, <2>3, <3>1
  <2> QED BY <2>2, <2>3
<1>5. RestOf(d, c, n)
  BY <1>3, <1>4 DEF RestOf
<1> QED BY <1>2, <1>3, <1>5 DEF c, d

LEMMA LineTaken ==
    ASSUME NEW s \in Stream, NEW k \in Nat, k <= Cardinality(LineEnds(s)),
           NEW b \in Stream, NEW w \in Stream, NEW n \in 1 .. Len(b),
           CutOf(s, k + 1) = CutOf(s, k) + n,
           NEW r \in Stream, Len(r) = Len(b) - n, \A i \in 1 .. Len(r) : r[i] = b[n + i]
    PROVE  Fills(s, k, b \o w) => Fills(s, k + 1, r \o w)
<1>1. /\ b \o w \in Stream /\ n \in 1 .. Len(b \o w)
      /\ r \o w \in Stream /\ RestOf(r \o w, b \o w, n)
  <2>1. RestOf(r, b, n)
    BY DEF RestOf
  <2> QED BY <2>1, RestOfBoth
<1> DEFINE c == b \o w
           d == r \o w
<1> HIDE DEF c, d
<1>2. c \in Stream /\ n \in 1 .. Len(c) /\ d \in Stream /\ Len(d) = Len(c) - n
      /\ \A i \in 1 .. Len(d) : d[i] = c[n + i]
  BY <1>1 DEF c, d, RestOf
<1>3. Fills(s, k, c) => Fills(s, k + 1, d)
  BY <1>2, FollowsNext
<1> QED BY <1>3 DEF c, d
-----------------------------------------------------------------------------
(* The steps.                                                              *)

LEMMA HolderTyped ==
    ASSUME StateInv, NEW f \in members
    PROVE  /\ f \in Fds /\ conn[f] = node[f].peer
           /\ node[f].peer \in Peers /\ node[f].inbuf \in Stream
           /\ wire[node[f].peer] \in Stream /\ sent[node[f].peer] \in Stream
           /\ node[f].inbuf \o wire[node[f].peer] \in Stream
<1>1. f \in Fds /\ node[f].peer \in Peers /\ conn[f] = node[f].peer
  BY DEF StateInv, TypeOK, MapMatchesKernel
<1>2. /\ node[f].inbuf \in Stream
      /\ wire[node[f].peer] \in Stream /\ sent[node[f].peer] \in Stream
  BY <1>1 DEF StateInv, TypeOK
<1> QED BY <1>1, <1>2, ConcatProperties DEF Stream

LEMMA SaidSofar ==
    ASSUME StateInv, NEW p \in Peers, InOrder(p)
    PROVE  Len(Said(log, p)) \in Nat /\ Len(Said(log, p)) <= Cardinality(LineEnds(sent[p]))
  BY SaidTyped DEF StateInv, TypeOK, InOrder

LEMMA LineEndIs ==
    ASSUME StateInv, pc = "parse", LineEnd # 0
    PROVE  /\ LineEnd \in 1 .. Len(node[cur].inbuf) /\ node[cur].inbuf[LineEnd] = NL
           /\ \A i \in 1 .. Len(node[cur].inbuf) : node[cur].inbuf[i] = NL => LineEnd <= i
<1> DEFINE s == node[cur].inbuf
           I == {i \in 1 .. Len(s) : s[i] = NL}
<1>1. LineEnd = Min(I) /\ I # {}
  BY DEF LineEnd, SelectInSeq
<1>2. I \in SUBSET Nat
  OBVIOUS
<1>3. LineEnd \in I /\ \A j \in I : LineEnd <= j
  BY <1>1, <1>2, MinOfNats
<1> QED BY <1>3

(* The log grows at its end.                                               *)
Longer ==
    /\ Len(log) \in Nat /\ Len(log') \in Nat /\ Len(log) <= Len(log')
    /\ \A i \in 1 .. Len(log) : log'[i] = log[i]

LEMMA LogSame ==
    ASSUME StateInv, LogInv, UNCHANGED <<log, sent>>
    PROVE  LogInv' /\ Longer /\ \A p \in Peers : Said(log', p) = Said(log, p)
<1>1. Len(log) \in Nat
  BY LenProperties DEF StateInv, TypeOK
<1> QED BY <1>1 DEF LogInv, InOrder, Joined, Longer

LEMMA LogGrows ==
    ASSUME StateInv, LogInv, NEW m \in Messages, log' = Append(log, m),
           m.kind = "says" /\ m.by # None => Joined(m.by, m.who, Len(log))
    PROVE  /\ Longer /\ Len(log') = Len(log) + 1 /\ log'[Len(log) + 1] = m
           /\ \A i \in DOMAIN log' : log'[i].kind = "says" /\ log'[i].by # None =>
                 \E j \in 1 .. i - 1 : log'[j].by = log'[i].by /\ log'[j].kind = "joined" /\
                                       log'[j].who = log'[i].who
<1> DEFINE n == Len(log)
<1>1. /\ n \in Nat /\ DOMAIN log = 1 .. n /\ log' \in Seq(Messages)
      /\ Len(log') = n + 1 /\ DOMAIN log' = 1 .. n + 1 /\ log'[n + 1] = m
      /\ \A i \in 1 .. n : log'[i] = log[i]
  BY AppendProperties, LenProperties DEF StateInv, TypeOK
<1> HIDE DEF n
<1>2. Longer
  BY <1>1 DEF Longer, n
<1>3. ASSUME NEW i \in DOMAIN log', log'[i].kind = "says", log'[i].by # None
      PROVE  \E j \in 1 .. i - 1 : log'[j].by = log'[i].by /\ log'[j].kind = "joined" /\
                                   log'[j].who = log'[i].who
  <2>1. CASE i \in 1 .. n
    <3>1. log'[i] = log[i]
      BY <1>1, <2>1
    <3>2. PICK j \in 1 .. i - 1 : log[j].by = log[i].by /\ log[j].kind = "joined" /\
                                  log[j].who = log[i].who
      BY <1>1, <1>3, <2>1, <3>1 DEF LogInv, Joined
    <3>3. j \in 1 .. n
      BY <1>1, <2>1
    <3>4. log'[j] = log[j]
      BY <1>1, <3>3
    <3> QED BY <3>1, <3>2, <3>4
  <2>2. CASE i = n + 1
    <3>1. PICK j \in 1 .. n : log[j].by = m.by /\ log[j].kind = "joined" /\ log[j].who = m.who
      BY <1>1, <1>3, <2>2 DEF Joined, n
    <3>2. j \in 1 .. i - 1 /\ log'[j] = log[j] /\ log'[i] = m
      BY <1>1, <2>2
    <3> QED BY <3>1, <3>2
  <2> QED BY <1>1, <2>1, <2>2
<1> QED BY <1>1, <1>2, <1>3 DEF n

(* A message that is no line of anybody's.                                 *)
LEMMA LogOther ==
    ASSUME StateInv, LogInv, sent' = sent, NEW m \in Messages, m.kind = "left" \/ m.by = None,
           log' = Append(log, m)
    PROVE  LogInv' /\ Longer /\ \A p \in Peers : Said(log', p) = Said(log, p)
<1>1. \A p \in Peers : Said(log', p) = Said(log, p)
  BY SaidMore, ChatAssumption DEF StateInv, TypeOK
<1>2. \A p \in Peers : InOrder(p)'
  BY <1>1 DEF LogInv, InOrder
<1>3. /\ Longer
      /\ \A i \in DOMAIN log' : log'[i].kind = "says" /\ log'[i].by # None =>
            \E j \in 1 .. i - 1 : log'[j].by = log'[i].by /\ log'[j].kind = "joined" /\
                                  log'[j].who = log'[i].who
  BY LogGrows
<1> QED BY <1>1, <1>2, <1>3 DEF LogInv, Joined

LEMMA LogLine ==
    ASSUME StateInv, LogInv, pc = "parse", cur \in members, LineEnd # 0, Kept(cur),
           sent' = sent, log' = Append(log, Message)
    PROVE  LET p == node[cur].peer
               k == Len(Said(log, p))
           IN  /\ LogInv' /\ Longer
               /\ \A q \in Peers \ {p} : Said(log', q) = Said(log, q)
               /\ Len(Said(log', p)) = k + 1 /\ k + 1 <= Cardinality(LineEnds(sent[p]))
               /\ CutOf(sent[p], k + 1) = CutOf(sent[p], k) + LineEnd
               /\ \E j \in 1 .. Len(log') :
                     log'[j].by = p /\ log'[j].kind = "joined" /\ log'[j].who = Message.who
<1> DEFINE p == node[cur].peer
           k == Len(Said(log, p))
           s == sent[p]
           b == node[cur].inbuf
<1>1. log \in Seq(Messages)
  BY DEF StateInv, TypeOK
<1>2. p \in Peers /\ b \in Stream /\ s \in Stream /\ wire[p] \in Stream
  BY HolderTyped
<1>3. k \in Nat /\ k <= Cardinality(LineEnds(s))
  BY <1>2, SaidSofar DEF LogInv
<1>4. Follows(s, k, b)
  <2>1. Follows(s, k, b \o wire[p])
    BY DEF Kept, Rest, Fills
  <2> HIDE DEF p, k, s, b
  <2> QED BY <1>2, <1>3, <2>1, FollowsPart
<1>5. /\ LineEnd \in 1 .. Len(b) /\ b[LineEnd] = NL
      /\ \A i \in 1 .. Len(b) : b[i] = NL => LineEnd <= i
  BY LineEndIs
<1>6. Line = SubSeq(b, 1, LineEnd - 1)
  BY DEF Line
<1>7. /\ Message \in Messages /\ Message.by = p /\ Message.text = Line
      /\ Message.kind \in {"joined", "says"}
      /\ Message.kind = "says" => node[cur].name # <<>> /\ Message.who = node[cur].name
  <2>1. Message \in Messages
    BY MessageTyped DEF StateInv
  <2> QED BY <2>1 DEF Message
<1>8. Kept(cur) => (node[cur].name # <<>> => Joined(p, node[cur].name, Len(log)))
  BY DEF Kept
<1> DEFINE e == LineEnd
           m == Message
           t == Line
<1> HIDE DEF p, k, s, b, e, m, t
<1>9. /\ k + 1 <= Cardinality(LineEnds(s)) /\ CutOf(s, k + 1) = CutOf(s, k) + e
      /\ Lines(s)[k + 1] = t
  <2>1. CutOf(s, k) + Len(b) <= Len(s) /\ \A i \in 1 .. Len(b) : b[i] = s[CutOf(s, k) + i]
    BY <1>4 DEF Follows
  <2>2. e \in 1 .. Len(b) /\ b[e] = NL /\ \A i \in 1 .. Len(b) : b[i] = NL => e <= i
    BY <1>5 DEF e
  <2>3. t = SubSeq(b, 1, e - 1)
    BY <1>6 DEF t, e
  <2>4. /\ k + 1 <= Cardinality(LineEnds(s)) /\ CutOf(s, k + 1) = CutOf(s, k) + e
        /\ Lines(s)[k + 1] = SubSeq(b, 1, e - 1)
    <3>1. s \in Stream /\ b \in Stream /\ k \in Nat /\ k <= Cardinality(LineEnds(s))
      BY <1>2, <1>3
    <3> QED BY <2>1, <2>2, <3>1, NextLine
  <2> QED BY <2>3, <2>4
<1>10. Said(log', p) = Append(Said(log, p), t) /\ t \in Seq(Chars)
  <2>1. m.by = p /\ m.kind # "left" /\ m.text = t /\ m \in Messages
    BY <1>7 DEF m, t
  <2>2. m.text \in Seq(Chars)
    BY <2>1 DEF Messages
  <2>3. log' = Append(log, m)
    BY DEF m
  <2> QED BY <1>1, <2>1, <2>2, <2>3, SaidMore
<1>11. \A q \in Peers \ {p} : Said(log', q) = Said(log, q)
  BY <1>1, <1>7, SaidMore
<1>12. Said(log, p) \in Seq(Seq(Chars))
  BY <1>1, SaidTyped
<1>13. /\ Len(Said(log', p)) = k + 1 /\ Said(log', p)[k + 1] = t
       /\ \A i \in 1 .. k : Said(log', p)[i] = Said(log, p)[i]
  BY <1>10, <1>12, AppendProperties DEF k
<1>14. ASSUME NEW q \in Peers PROVE InOrder(q)'
  <2>1. CASE q = p
    <3>1. \A i \in 1 .. k : Said(log, p)[i] = Lines(s)[i]
      BY <1>2 DEF LogInv, InOrder, k, s
    <3>2. ASSUME NEW i \in 1 .. k + 1 PROVE Said(log', p)[i] = Lines(s)[i]
      <4>1. CASE i = k + 1
        BY <1>9, <1>13, <4>1
      <4>2. CASE i # k + 1
        <5>1. i \in 1 .. k
          BY <1>3, <4>2
        <5> QED BY <1>13, <3>1, <5>1
      <4> QED BY <4>1, <4>2
    <3>3. sent'[q] = s
      BY <2>1 DEF s
    <3> QED BY <1>9, <1>13, <2>1, <3>2, <3>3 DEF InOrder
  <2>2. CASE q # p
    <3>1. InOrder(q) /\ Said(log', q) = Said(log, q)
      BY <1>11, <2>2 DEF LogInv
    <3> QED BY <3>1 DEF InOrder
  <2> QED BY <2>1, <2>2
<1>15. m.kind = "says" /\ m.by # None => Joined(m.by, m.who, Len(log))
  BY <1>7, <1>8 DEF m
<1>16. /\ Longer /\ Len(log') = Len(log) + 1 /\ log'[Len(log) + 1] = m
       /\ \A i \in DOMAIN log' : log'[i].kind = "says" /\ log'[i].by # None =>
             \E j \in 1 .. i - 1 : log'[j].by = log'[i].by /\ log'[j].kind = "joined" /\
                                   log'[j].who = log'[i].who
  <2>1. m \in Messages /\ log' = Append(log, m)
    BY <1>7 DEF m
  <2> QED BY <1>15, <2>1, LogGrows
<1>17. LogInv'
  BY <1>14, <1>16 DEF LogInv, Joined
<1>18. \E j \in 1 .. Len(log') :
          log'[j].by = p /\ log'[j].kind = "joined" /\ log'[j].who = m.who
  <2>1. CASE m.kind = "joined"
    <3>1. Len(log) + 1 \in 1 .. Len(log') /\ m.by = p
      BY <1>7, <1>16 DEF Longer, m
    <3> QED BY <1>16, <2>1, <3>1
  <2>2. CASE m.kind = "says"
    <3>1. PICK j \in 1 .. Len(log) : log[j].by = p /\ log[j].kind = "joined" /\ log[j].who = m.who
      BY <1>2, <1>7, <1>15, <2>2, ChatAssumption DEF Joined, m
    <3>2. j \in 1 .. Len(log') /\ log'[j] = log[j]
      BY <1>16, <3>1 DEF Longer
    <3> QED BY <3>1, <3>2
  <2> QED BY <1>7, <2>1, <2>2 DEF m
<1> QED BY <1>9, <1>11, <1>13, <1>16, <1>17, <1>18 DEF p, k, s, e, m

LEMMA StillKept ==
    ASSUME StateInv, LogInv, Longer, NEW f \in members, Kept(f), sent' = sent,
           node'[f] = node[f], Said(log', node[f].peer) = Said(log, node[f].peer),
           wire'[node[f].peer] = wire[node[f].peer],
           ~(link'[node[f].peer] = "away" \/ node[f].peer \in backlog')
    PROVE  Kept(f)'
<1> DEFINE p == node[f].peer
<1>1. Rest(f)'
  BY DEF Kept, Rest
<1>2. (node[f].name # <<>> => Joined(p, node[f].name, Len(log)))'
  <2> SUFFICES ASSUME node[f].name # <<>>
               PROVE  \E j \in 1 .. Len(log') :
                         log'[j].by = p /\ log'[j].kind = "joined" /\ log'[j].who = node[f].name
    BY DEF Joined
  <2>1. PICK j \in 1 .. Len(log) :
           log[j].by = p /\ log[j].kind = "joined" /\ log[j].who = node[f].name
    BY DEF Kept, Joined
  <2>2. j \in 1 .. Len(log') /\ log'[j] = log[j]
    BY <2>1 DEF Longer
  <2> QED BY <2>1, <2>2
<1> QED BY <1>1, <1>2 DEF Kept, Free

(* Steps that neither hand a descriptor to anybody nor take a line.        *)
LEMMA HoldKeeps ==
    ASSUME StateInv, LinesInv, pc # "dead", Longer, sent' = sent,
           \A p \in Peers : Said(log', p) = Said(log, p),
           \A f \in members' : /\ f \in members /\ node'[f] = node[f]
                               /\ wire'[node[f].peer] = wire[node[f].peer],
           \A p \in Peers : link'[p] = "away" \/ p \in backlog' =>
               (link[p] = "away" \/ p \in backlog) /\ wire'[p] = wire[p]
    PROVE  HoldInv'
<1>1. NoTwo /\ (\A f \in members : Kept(f)) /\ (\A p \in Peers : Waiting(p)) /\ LogInv
  BY DEF LinesInv, HoldInv
<1>2. NoTwo'
  BY <1>1 DEF NoTwo
<1>3. ASSUME NEW f \in members' PROVE Kept(f)'
  <2>1. f \in members /\ Kept(f) /\ node[f].peer \in Peers
    BY <1>1, HolderTyped
  <2>2. ~(link'[node[f].peer] = "away" \/ node[f].peer \in backlog')
    BY <2>1 DEF Kept, Free
  <2> QED BY <1>1, <2>1, <2>2, StillKept
<1>4. \A p \in Peers : Waiting(p)'
  BY <1>1 DEF Waiting, Free
<1> QED BY <1>2, <1>3, <1>4 DEF HoldInv

(* What is dropped is no newcomer's, and no other descriptor's.            *)
LEMMA DropKeeps ==
    ASSUME StateInv, HoldInv, pc # "dead", NEW drop \in SUBSET members, NEW hit, Drop(drop, hit)
    PROVE  /\ \A f \in members' : /\ f \in members /\ f \notin drop
                                  /\ wire'[node[f].peer] = wire[node[f].peer]
           /\ \A p \in Peers : Free(p) => wire'[p] = wire[p]
           /\ \A p \in Peers : link'[p] = "away" => link[p] = "away"
<1>1. NoTwo /\ (\A f \in members : Kept(f)) /\ members \subseteq Fds
  BY DEF HoldInv, StateInv, TypeOK
<1>2. \A f \in members : node[f].peer = conn[f] /\ node[f].peer \in Peers
  BY HolderTyped
<1>3. \A f \in members \ drop : node[f].peer \notin PeersOf(drop)
  BY <1>1, <1>2 DEF NoTwo, PeersOf
<1>4. \A p \in Peers : Free(p) => p \notin PeersOf(drop)
  BY <1>1, <1>2 DEF PeersOf, Kept
<1>5. members' = members \ drop /\ \A p \in Peers : p \notin PeersOf(drop) => wire'[p] = wire[p]
  BY DEF Drop
<1>6. \A p \in Peers : link'[p] = "away" => link[p] = "away"
  BY DEF Drop
<1> QED BY <1>2, <1>3, <1>4, <1>5, <1>6

LEMMA LinesStart == Init => LinesInv
<1> SUFFICES ASSUME Init PROVE LinesInv
  OBVIOUS
<1>1. log = <<>> /\ \A p \in Peers : sent[p] = <<>> /\ wire[p] = <<>>
  BY DEF Init
<1>2. <<>> \in Seq(Messages) /\ <<>> \in Stream /\ Len(<<>>) = 0
  BY EmptySeq DEF Stream
<1>3. \A p \in Peers : Said(log, p) \in Seq(Seq(Chars)) /\ Len(Said(log, p)) = Cardinality(OwnIn(log, p))
  BY <1>1, <1>2, SaidTyped
<1>4. \A p : OwnIn(log, p) = {}
  BY <1>1 DEF OwnIn
<1>5. \A p \in Peers : Len(Said(log, p)) = 0
  BY <1>3, <1>4, FS_EmptySet
<1>6. LogInv
  <2>1. ASSUME NEW p \in Peers PROVE InOrder(p)
    <3>1. Cardinality(LineEnds(sent[p])) \in Nat
      BY <1>1, <1>2, LinesTyped
    <3> QED BY <1>5, <3>1 DEF InOrder
  <2> QED BY <1>1, <2>1 DEF LogInv
<1>7. members = {}
  BY DEF Init
<1>8. HoldInv
  BY <1>1, <1>5, <1>7 DEF HoldInv, NoTwo, Waiting
<1> QED BY <1>6, <1>8 DEF LinesInv

LEMMA SendLines ==
    ASSUME ChatInv, LinesInv, NEW p \in Peers, NEW x \in Chars \cup {NL}, Send(p, x)
    PROVE  LinesInv'
<1>1. StateInv /\ LogInv /\ HoldInv /\ TypeOK
  BY DEF ChatInv, StateInv, LinesInv
<1>2. /\ UNCHANGED <<link, backlog, log, pc, batch, members, node>> /\ pc # "dead"
      /\ wire' = [wire EXCEPT ![p] = Append(@, x)] /\ sent' = [sent EXCEPT ![p] = Append(@, x)]
  BY DEF Send, serverVars
<1>3. /\ wire'[p] = Append(wire[p], x) /\ sent'[p] = Append(sent[p], x)
      /\ \A q \in Peers \ {p} : wire'[q] = wire[q] /\ sent'[q] = sent[q]
  BY <1>1, <1>2 DEF TypeOK
<1>4. \A q \in Peers : sent[q] \in Stream /\ Len(Said(log, q)) \in Nat /\
                       Len(Said(log, q)) <= Cardinality(LineEnds(sent[q]))
  BY <1>1, SaidSofar DEF LogInv, TypeOK
<1>5. InOrder(p)'
  <2> DEFINE s == sent[p]
             k == Len(Said(log, p))
             c == Cardinality(LineEnds(s))
             t == Append(s, x)
  <2>1. /\ c \in Nat /\ Cardinality(LineEnds(t)) \in Nat /\ c <= Cardinality(LineEnds(t))
        /\ \A i \in 1 .. c : Lines(t)[i] = Lines(s)[i]
    <3>1. s \in Stream /\ t \in Stream
      BY <1>4, AppendProperties DEF Stream
    <3> HIDE DEF s
    <3> QED BY <3>1, LinesTyped, LinesMore
  <2>2. k <= c /\ k \in Nat /\ \A i \in 1 .. k : Said(log, p)[i] = Lines(s)[i]
    BY <1>1, <1>4 DEF LogInv, InOrder
  <2>3. sent'[p] = t /\ log' = log
    BY <1>2, <1>3
  <2> HIDE DEF c, s, t
  <2>4. k <= Cardinality(LineEnds(t)) /\ \A i \in 1 .. k : Said(log, p)[i] = Lines(t)[i]
    BY <2>1, <2>2
  <2> QED BY <2>3, <2>4 DEF InOrder
<1>6. \A q \in Peers \ {p} : InOrder(q)'
  BY <1>1, <1>2, <1>3 DEF LogInv, InOrder
<1>7. LogInv'
  BY <1>1, <1>2, <1>5, <1>6 DEF LogInv, Joined
<1>8. NoTwo' /\ (\A f \in members' : f \in members /\ Kept(f)) /\ (\A q \in Peers : Waiting(q))
  BY <1>1, <1>2 DEF HoldInv, NoTwo
<1>9. ASSUME NEW f \in members' PROVE Kept(f)'
  <2> DEFINE q == node[f].peer
             k == Len(Said(log, q))
             b == node[f].inbuf
  <2>1. f \in members /\ Kept(f)
    BY <1>8
  <2>2. q \in Peers /\ b \in Stream /\ wire[q] \in Stream /\ b \o wire[q] \in Stream
    BY <1>1, <2>1, HolderTyped
  <2>3. Fills(sent[q], k, b \o wire[q])
    BY <2>1 DEF Kept, Rest
  <2>4. Fills(sent'[q], k, b \o wire'[q])
    <3>1. CASE q # p
      BY <1>3, <2>2, <2>3, <3>1
    <3>2. CASE q = p
      <4>1. sent[q] \in Stream /\ k \in Nat /\ k <= Cardinality(LineEnds(sent[q]))
        BY <1>4, <2>2
      <4>2. b \o wire'[q] = Append(b \o wire[q], x) /\ sent'[q] = Append(sent[q], x)
        <5>1. wire'[q] = Append(wire[q], x) /\ sent'[q] = Append(sent[q], x)
          BY <1>3, <3>2
        <5> HIDE DEF b, q
        <5>2. b \o Append(wire[q], x) = Append(b \o wire[q], x)
          BY <2>2, AppendBehind
        <5> QED BY <5>1, <5>2
      <4> HIDE DEF q, k, b
      <4>3. Fills(sent[q], k, b \o wire[q]) =>
               Fills(Append(sent[q], x), k, Append(b \o wire[q], x))
        BY <2>2, <4>1, FollowsMore
      <4> QED BY <2>3, <4>2, <4>3
    <3> QED BY <3>1, <3>2
  <2>5. Rest(f)'
    BY <1>2, <2>4 DEF Rest
  <2> QED BY <1>2, <2>1, <2>5 DEF Kept, Joined, Free
<1>10. \A q \in Peers : Waiting(q)'
  BY <1>2, <1>3, <1>8 DEF Waiting, Free
<1> QED BY <1>7, <1>8, <1>9, <1>10 DEF LinesInv, HoldInv

LEMMA RecvLines ==
    ASSUME ChatInv, LinesInv, Recv
    PROVE  LinesInv'
<1>1. StateInv /\ LogInv /\ HoldInv /\ TypeOK /\ MapMatchesKernel
  BY DEF ChatInv, StateInv, LinesInv
<1>2. /\ UNCHANGED <<link, backlog, log, sent, pc, batch, members>> /\ pc = "serve" /\ cur \in members
      /\ node' = [node EXCEPT ![cur].inbuf = @ \o wire[Peer]]
      /\ wire' = [wire EXCEPT ![Peer] = <<>>]
  BY DEF Recv, Serving, historyVars
<1> DEFINE p == node[cur].peer
           b == node[cur].inbuf
           k == Len(Said(log, p))
<1>3. cur \in Fds /\ Peer = p
  BY <1>1, <1>2 DEF TypeOK, MapMatchesKernel, Peer
<1>4. p \in Peers /\ b \in Stream /\ wire[p] \in Stream /\ b \o wire[p] \in Stream
  BY <1>1, <1>2, HolderTyped
<1>5. NoTwo /\ (\A f \in members : Kept(f)) /\ (\A q \in Peers : Waiting(q))
  BY <1>1, <1>2 DEF HoldInv
<1>6. /\ \A f \in Fds \ {cur} : node'[f] = node[f]
      /\ node'[cur].peer = p /\ node'[cur].name = node[cur].name
      /\ node'[cur].inbuf = b \o wire[p] /\ wire'[p] = <<>>
      /\ \A q \in Peers \ {p} : wire'[q] = wire[q]
  BY <1>1, <1>2, <1>3, <1>4 DEF TypeOK
<1>7. LogInv' /\ Longer
  BY <1>1, <1>2, LogSame
<1>8. members' = members /\ members \subseteq Fds
  BY <1>1, <1>2 DEF TypeOK
<1>9. NoTwo'
  BY <1>5, <1>6, <1>8 DEF NoTwo
<1>10. ASSUME NEW f \in members' PROVE Kept(f)'
  <2>1. f \in members /\ Kept(f) /\ node[f].peer \in Peers
    BY <1>1, <1>5, <1>8, HolderTyped
  <2>2. CASE f = cur
    <3>1. Fills(sent[p], k, b \o wire[p])
      BY <2>1, <2>2 DEF Kept, Rest
    <3>2. (b \o wire[p]) \o <<>> = b \o wire[p]
      BY <1>4, ConcatEmptySeq DEF Stream
    <3>3. Rest(f)'
      BY <1>2, <1>6, <2>1, <2>2, <3>1, <3>2 DEF Rest
    <3> QED BY <1>2, <1>6, <2>1, <2>2, <3>3 DEF Kept, Joined, Free
  <2>3. CASE f # cur
    <3>1. node[f].peer # p
      BY <1>2, <1>5, <2>1, <2>3 DEF NoTwo
    <3>2. wire'[node[f].peer] = wire[node[f].peer] /\ node'[f] = node[f]
      BY <1>6, <1>8, <2>1, <2>3, <3>1
    <3> QED BY <1>1, <1>2, <1>7, <2>1, <3>2, StillKept DEF Kept, Free
  <2> QED BY <2>2, <2>3
<1>11. ASSUME NEW q \in Peers PROVE Waiting(q)'
  <2>1. Free(q) => q # p
    BY <1>2, <1>5 DEF Kept
  <2> QED BY <1>2, <1>5, <1>6, <2>1 DEF Waiting, Free
<1> QED BY <1>7, <1>9, <1>10, <1>11 DEF LinesInv, HoldInv

LEMMA AcceptLines ==
    ASSUME ChatInv, LinesInv, OnAccept
    PROVE  LinesInv'
<1>1. /\ StateInv /\ LogInv /\ HoldInv /\ TypeOK /\ MapMatchesKernel
      /\ \A p \in Peers : /\ link[p] = "away" => p \notin backlog
                          /\ link[p] = "away" \/ p \in backlog => p \notin Connected
  BY DEF ChatInv, StateInv, LinesInv, HearInv, Newcomers
<1>2. PICK p \in backlog, f \in FreeFds :
        /\ backlog' = backlog \ {p}
        /\ members' = members \cup {f}
        /\ node' = [node EXCEPT ![f] = [NoClient EXCEPT !.peer = p]]
        /\ UNCHANGED link \/ link' = [link EXCEPT ![p] = "reset"]
  BY DEF OnAccept
<1>3. UNCHANGED <<wire, pc, batch, log, sent>> /\ pc = "serve"
  BY DEF OnAccept, Serving
<1>4. p \in Peers /\ f \in Fds /\ f \notin members
  BY <1>1, <1>2 DEF TypeOK, FreeFds, MapMatchesKernel
<1>5. NoTwo /\ (\A g \in members : Kept(g)) /\ (\A q \in Peers : Waiting(q))
  BY <1>1, <1>3 DEF HoldInv
<1>6. /\ node'[f] = [name |-> <<>>, inbuf |-> <<>>, peer |-> p]
      /\ \A g \in Fds \ {f} : node'[g] = node[g]
  BY <1>1, <1>2, <1>4 DEF TypeOK, NoClient
<1>7. LogInv' /\ Longer /\ \A q \in Peers : Said(log', q) = Said(log, q)
  BY <1>1, <1>3, LogSame
<1>8. \A g \in members' : g = f \/ g \in members
  BY <1>2
<1>9. \A g \in members : g \in Fds /\ node[g].peer \in Connected /\ node[g].peer \in Peers
  BY <1>1, HolderTyped DEF Connected
<1>10. p \notin Connected /\ link[p] # "away" /\ wire[p] = sent[p] /\ Len(Said(log, p)) = 0
  BY <1>1, <1>2, <1>4, <1>5 DEF Waiting, Free
<1>11. NoTwo'
  BY <1>5, <1>6, <1>8, <1>9, <1>10 DEF NoTwo
<1>12. \A q \in Peers : link'[q] = "away" \/ q \in backlog' => q # p /\ Free(q)
  BY <1>1, <1>2, <1>4, <1>10 DEF TypeOK, Free
<1>13. ASSUME NEW g \in members' PROVE Kept(g)'
  <2>1. CASE g = f
    <3>1. sent[p] \in Stream /\ <<>> \o sent[p] = sent[p] /\ Len(sent[p]) \in Nat
      BY <1>1, <1>4, ConcatEmptySeq, LenProperties DEF TypeOK, Stream
    <3>2. Fills(sent[p], 0, <<>> \o wire[p])
      BY <1>10, <3>1 DEF Fills, Follows, CutOf
    <3>3. Rest(g)'
      <4>1. node'[g].peer = p /\ node'[g].inbuf = <<>>
        BY <1>6, <2>1
      <4>2. sent'[p] = sent[p] /\ wire'[p] = wire[p] /\ Len(Said(log', p)) = 0
        BY <1>3, <1>10
      <4> QED BY <3>2, <4>1, <4>2 DEF Rest
    <3> QED BY <1>4, <1>6, <1>12, <2>1, <3>3 DEF Kept, Free
  <2>2. CASE g # f
    <3>1. g \in members /\ Kept(g) /\ node'[g] = node[g] /\ node[g].peer \in Peers
      BY <1>1, <1>5, <1>6, <1>8, <1>9, <2>2, HolderTyped
    <3>2. ~(link'[node[g].peer] = "away" \/ node[g].peer \in backlog')
      BY <1>12, <3>1 DEF Kept
    <3> QED BY <1>1, <1>3, <1>7, <3>1, <3>2, StillKept
  <2> QED BY <2>1, <2>2
<1>14. \A q \in Peers : Waiting(q)'
  BY <1>3, <1>5, <1>7, <1>12 DEF Waiting, Free
<1> QED BY <1>7, <1>11, <1>13, <1>14 DEF LinesInv, HoldInv

(* A message that is no line leaves what the Clients hold alone.           *)
LEMMA BroadcastHolds ==
    ASSUME StateInv, LinesInv, pc # "dead", Longer, NEW m, NEW also \in SUBSET members,
           Broadcast(m, also), node' = Forget(Fds \ members'),
           backlog' = backlog, sent' = sent, \A p \in Peers : Said(log', p) = Said(log, p)
    PROVE  HoldInv'
<1>1. PICK full \in SUBSET members, hit \in SUBSET Behind("closed") :
        Drop(full \cup Behind("reset") \cup also, hit)
  BY DEF Broadcast
<1>2. full \cup Behind("reset") \cup also \in SUBSET members
  BY BehindMembers
<1>3. /\ \A f \in members' : f \in members /\ wire'[node[f].peer] = wire[node[f].peer]
      /\ \A p \in Peers : Free(p) => wire'[p] = wire[p]
      /\ \A p \in Peers : link'[p] = "away" => link[p] = "away"
  BY <1>1, <1>2, DropKeeps DEF LinesInv
<1>4. \A f \in members' : /\ f \in members /\ node'[f] = node[f]
                          /\ wire'[node[f].peer] = wire[node[f].peer]
  BY <1>3 DEF Forget, StateInv, TypeOK
<1>5. \A p \in Peers : link'[p] = "away" \/ p \in backlog' =>
          (link[p] = "away" \/ p \in backlog) /\ wire'[p] = wire[p]
  BY <1>3 DEF Free
<1> QED BY <1>4, <1>5, HoldKeeps

LEMMA LeftLines ==
    ASSUME ChatInv, LinesInv, RecvEnd
    PROVE  LinesInv'
<1>1. StateInv /\ LogInv /\ HoldInv /\ TypeOK /\ MapMatchesKernel
  BY DEF ChatInv, StateInv, LinesInv
<1>2. pc = "serve" /\ Serving(members)
  BY DEF RecvEnd, Serving
<1>3. Left \in Messages /\ Left.kind = "left" /\ cur \in members
  BY <1>1, <1>2, LeftTyped DEF Left
<1>4. sent' = sent /\ log' = Append(log, Left)
  BY DEF RecvEnd, Broadcast, Killed, Die
<1>5. LogInv' /\ Longer /\ \A p \in Peers : Said(log', p) = Said(log, p)
  BY <1>1, <1>3, <1>4, LogOther
<1>6. CASE Killed(Left)
  BY <1>5, <1>6 DEF Killed, Die, LinesInv, HoldInv
<1>7. CASE Broadcast(Left, {cur}) /\ NextEvent /\ node' = Forget(Fds \ members') /\ UNCHANGED <<backlog, since, sent>>
  <2>1. HoldInv'
    BY <1>1, <1>2, <1>3, <1>5, <1>7, BroadcastHolds
  <2> QED BY <1>5, <2>1 DEF LinesInv
<1> QED BY <1>6, <1>7 DEF RecvEnd

(* A line read from freed memory is nobody's.                              *)
LEMMA FreedLines ==
    ASSUME ChatInv, LinesInv, ParseFreed
    PROVE  LinesInv'
<1>1. StateInv /\ LogInv /\ HoldInv
  BY DEF ChatInv, StateInv, LinesInv
<1>2. PICK m \in Garbled :
        \/ /\ Broadcast(m, {})
           /\ node' = Forget(Fds \ members')
           /\ UNCHANGED <<pc, batch, backlog, since, sent>>
        \/ Killed(m)
  BY DEF ParseFreed
<1>3. m \in Messages /\ m.by = None /\ pc # "dead"
  BY GarbledTyped DEF ParseFreed, Garbled
<1>4. sent' = sent /\ log' = Append(log, m)
  BY <1>2 DEF Broadcast, Killed, Die
<1>5. LogInv' /\ Longer /\ \A p \in Peers : Said(log', p) = Said(log, p)
  BY <1>1, <1>3, <1>4, LogOther
<1>6. CASE Killed(m)
  BY <1>5, <1>6 DEF Killed, Die, LinesInv, HoldInv
<1>7. CASE /\ Broadcast(m, {})
           /\ node' = Forget(Fds \ members')
           /\ UNCHANGED <<pc, batch, backlog, since, sent>>
  <2>1. {} \in SUBSET members
    OBVIOUS
  <2>2. HoldInv'
    BY <1>1, <1>3, <1>5, <1>7, <2>1, BroadcastHolds
  <2> QED BY <1>5, <2>2 DEF LinesInv
<1> QED BY <1>2, <1>6, <1>7

LEMMA ParseLines ==
    ASSUME ChatInv, LinesInv, ParseLine
    PROVE  LinesInv'
<1>1. StateInv /\ LogInv /\ HoldInv /\ TypeOK
  BY DEF ChatInv, StateInv, LinesInv
<1>2. /\ pc = "parse" /\ cur \in members /\ LineEnd # 0
      /\ sent' = sent /\ log' = Append(log, Message)
  BY DEF ParseLine, Broadcast, Killed, Die
<1>3. NoTwo /\ (\A f \in members : Kept(f)) /\ (\A q \in Peers : Waiting(q))
  BY <1>1, <1>2 DEF HoldInv
<1>4. cur \in Fds /\ Kept(cur)
  BY <1>1, <1>2, <1>3 DEF TypeOK
<1> DEFINE p == node[cur].peer
           k == Len(Said(log, p))
           b == node[cur].inbuf
           s == sent[p]
           r == SubSeq(b, LineEnd + 1, Len(b))
<1>5. /\ LogInv' /\ Longer
      /\ \A q \in Peers \ {p} : Said(log', q) = Said(log, q)
      /\ Len(Said(log', p)) = k + 1 /\ k + 1 <= Cardinality(LineEnds(s))
      /\ CutOf(s, k + 1) = CutOf(s, k) + LineEnd
      /\ \E j \in 1 .. Len(log') :
            log'[j].by = p /\ log'[j].kind = "joined" /\ log'[j].who = Message.who
  BY <1>1, <1>2, <1>4, LogLine
<1>6. CASE Killed(Message)
  BY <1>5, <1>6 DEF Killed, Die, LinesInv, HoldInv
<1>7. CASE /\ Broadcast(Message, {})
           /\ node' = [Forget(Fds \ members') EXCEPT ![cur] =
                         IF cur \in members'
                         THEN [name |-> Message.who, peer |-> @.peer,
                               inbuf |-> SubSeq(@.inbuf, LineEnd + 1, Len(@.inbuf))]
                         ELSE NoClient]
           /\ UNCHANGED <<pc, batch, backlog, since, sent>>
  <2>1. PICK drop \in SUBSET members, hit \in SUBSET members : Drop(drop, hit)
    BY <1>7, BroadcastParts
  <2>2. /\ \A f \in members' : f \in members /\ wire'[node[f].peer] = wire[node[f].peer]
        /\ \A q \in Peers : Free(q) => wire'[q] = wire[q]
        /\ \A q \in Peers : link'[q] = "away" => link[q] = "away"
    BY <1>1, <1>2, <2>1, DropKeeps
  <2>3. /\ \A f \in members' \ {cur} : node'[f] = node[f]
        /\ cur \in members' =>
              node'[cur].peer = p /\ node'[cur].inbuf = r /\ node'[cur].name = Message.who
    <3> DEFINE F == Forget(Fds \ members')
    <3>1. /\ F \in [Fds -> [name : Names, inbuf : Stream, peer : Peers \cup {None}]]
          /\ \A f \in members' : f \in Fds /\ F[f] = node[f]
      <4>1. members' \subseteq Fds
        BY <1>1, <2>2 DEF TypeOK
      <4> QED BY <1>1, <4>1, ForgetTyped
    <3>2. node' = [F EXCEPT ![cur] =
                     IF cur \in members'
                     THEN [name |-> Message.who, peer |-> @.peer,
                           inbuf |-> SubSeq(@.inbuf, LineEnd + 1, Len(@.inbuf))]
                     ELSE NoClient]
      BY <1>7
    <3> HIDE DEF F
    <3>3. \A f \in members' \ {cur} : node'[f] = node[f]
      BY <3>1, <3>2
    <3>4. cur \in members' =>
             node'[cur] = [name |-> Message.who, peer |-> F[cur].peer,
                           inbuf |-> SubSeq(F[cur].inbuf, LineEnd + 1, Len(F[cur].inbuf))]
      BY <1>4, <3>1, <3>2
    <3>5. cur \in members' => F[cur] = node[cur]
      BY <3>1
    <3> QED BY <3>3, <3>4, <3>5
  <2>4. cur' = cur
    BY <1>7 DEF cur
  <2>5. \A f \in members' : f \in members /\ node'[f].peer = node[f].peer
    BY <2>2, <2>3
  <2>6. NoTwo'
    BY <1>3, <2>5 DEF NoTwo
  <2>7. p \in Peers /\ b \in Stream /\ wire[p] \in Stream /\ s \in Stream
    BY <1>1, <1>2, HolderTyped
  <2>8. k \in Nat /\ k <= Cardinality(LineEnds(s))
    BY <1>1, <2>7, SaidSofar DEF LogInv
  <2>9. cur \in members' => Rest(cur)'
    <3> DEFINE w == wire[p]
               n == LineEnd
    <3>1. Fills(s, k, b \o w)
      BY <1>4 DEF Kept, Rest
    <3>2. n \in 1 .. Len(b)
      BY <1>1, <1>2, LineEndIs
    <3>3. CutOf(s, k + 1) = CutOf(s, k) + n
      BY <1>5
    <3>4. w \in Stream
      BY <2>7
    <3> HIDE DEF p, k, b, s, n, w
    <3> DEFINE u == SubSeq(b, n + 1, Len(b))
    <3>5. Fills(s, k + 1, u \o w)
      <4>1. b \in Stream
        BY <2>7
      <4>2. u \in Stream /\ Len(u) = Len(b) - n /\ \A i \in 1 .. Len(b) - n : u[i] = b[n + i]
        BY <3>2, <4>1, RestOfOne
      <4> HIDE DEF u
      <4> QED BY <2>7, <2>8, <3>1, <3>2, <3>3, <3>4, <4>2, LineTaken
    <3> HIDE DEF u
    <3>6. SUFFICES ASSUME cur \in members' PROVE Rest(cur)'
      OBVIOUS
    <3>7. u = node'[cur].inbuf /\ p = node'[cur].peer /\ s = sent'[p] /\ k + 1 = Len(Said(log', p))
      BY <1>2, <1>5, <2>3, <3>6 DEF u, n, p, s, k, b
    <3>8. wire'[p] = w
      BY <2>2, <3>6 DEF p, w
    <3> QED BY <2>4, <3>5, <3>7, <3>8 DEF Rest
  <2>10. ~(link'[p] = "away" \/ p \in backlog')
    BY <1>4, <1>7, <2>2, <2>7 DEF Kept, Free
  <2>11. cur \in members' => Kept(cur)'
    BY <1>5, <2>3, <2>4, <2>9, <2>10 DEF Kept, Joined, Free
  <2>12. ASSUME NEW f \in members' PROVE Kept(f)'
    <3>1. CASE f = cur
      BY <2>4, <2>11, <3>1
    <3>2. CASE f # cur
      <4>1. f \in members /\ Kept(f)
        BY <1>3, <2>5
      <4>2. node[f].peer # p /\ node[f].peer \in Peers
        BY <1>1, <1>2, <1>3, <3>2, <4>1, HolderTyped DEF NoTwo
      <4>3. ~(link'[node[f].peer] = "away" \/ node[f].peer \in backlog')
        BY <1>7, <2>2, <4>1, <4>2 DEF Kept, Free
      <4>4. node'[f] = node[f] /\ wire'[node[f].peer] = wire[node[f].peer]
        BY <2>2, <2>3, <3>2
      <4>5. Said(log', node[f].peer) = Said(log, node[f].peer)
        BY <1>5, <4>2
      <4> QED BY <1>1, <1>2, <1>5, <4>1, <4>3, <4>4, <4>5, StillKept
    <3> QED BY <3>1, <3>2
  <2>13. ASSUME NEW q \in Peers PROVE Waiting(q)'
    <3>1. SUFFICES ASSUME link'[q] = "away" \/ q \in backlog'
                   PROVE  wire'[q] = sent'[q] /\ Len(Said(log', q)) = 0
      BY DEF Waiting, Free
    <3>2. Free(q) /\ wire'[q] = wire[q]
      BY <1>7, <2>2, <3>1 DEF Free
    <3>3. q # p
      BY <1>4, <3>2 DEF Kept
    <3> QED BY <1>2, <1>3, <1>5, <3>2, <3>3 DEF Waiting
  <2> QED BY <1>5, <2>6, <2>12, <2>13 DEF LinesInv, HoldInv
<1> QED BY <1>6, <1>7 DEF ParseLine

(* The steps that add nothing to the log and take nothing off a buffer.    *)
LEMMA QuietLines ==
    ASSUME ChatInv, LinesInv, pc # "dead", UNCHANGED <<log, sent>>,
           \A f \in members' : /\ f \in members /\ node'[f] = node[f]
                               /\ wire'[node[f].peer] = wire[node[f].peer],
           \A p \in Peers : link'[p] = "away" \/ p \in backlog' =>
               (link[p] = "away" \/ p \in backlog) /\ wire'[p] = wire[p]
    PROVE  LinesInv'
<1>1. StateInv /\ LogInv
  BY DEF ChatInv, LinesInv
<1>2. LogInv' /\ Longer /\ \A p \in Peers : Said(log', p) = Said(log, p)
  BY <1>1, LogSame
<1>3. HoldInv'
  BY <1>1, <1>2, HoldKeeps
<1> QED BY <1>2, <1>3 DEF LinesInv

LEMMA LinesStep == ChatInv /\ LinesInv /\ [Next]_vars => LinesInv'
<1> SUFFICES ASSUME ChatInv, LinesInv, [Next]_vars PROVE LinesInv'
  OBVIOUS
<1>1. TypeOK /\ Parsing /\ StateInv /\ LogInv /\ HoldInv
  BY DEF ChatInv, StateInv, LinesInv
<1>2. ASSUME NEW p \in Peers, Connect(p) PROVE LinesInv'
  <2>1. /\ pc # "dead" /\ link[p] = "away" /\ link' = [link EXCEPT ![p] = "open"]
        /\ backlog' = backlog \cup {p}
        /\ UNCHANGED <<log, sent, wire, members, node>>
    BY <1>2 DEF Connect, serverVars, historyVars
  <2>2. \A q \in Peers : link'[q] = "away" \/ q \in backlog' => link[q] = "away" \/ q \in backlog
    BY <1>1, <2>1 DEF TypeOK
  <2> QED BY <2>1, <2>2, QuietLines
<1>3. ASSUME NEW p \in Peers, HangUp(p) PROVE LinesInv'
  <2>1. pc # "dead" /\ UNCHANGED <<log, sent, wire, backlog, members, node>>
    BY <1>3 DEF HangUp, serverVars, historyVars
  <2>2. \A q \in Peers : link'[q] = "away" => link[q] = "away"
    BY <1>1, <1>3 DEF HangUp, TypeOK
  <2> QED BY <2>1, <2>2, QuietLines
<1>4. ASSUME NEW p \in Peers, NEW x \in Chars \cup {NL}, Send(p, x) PROVE LinesInv'
  BY <1>4, SendLines
<1>5. CASE EpollWait \/ AcceptEnds \/ ServeUnknown \/ RecvWouldBlock \/ ParseEnds
  <2>1. pc # "dead" /\ UNCHANGED <<log, sent, wire, link, backlog, members, node>>
    BY <1>5 DEF EpollWait, AcceptEnds, ServeUnknown, RecvWouldBlock, ParseEnds, Serving,
                kernelVars, historyVars
  <2> QED BY <2>1, QuietLines
<1>6. CASE RecvError
  <2>1. /\ pc = "serve" /\ cur \in members /\ Drop({cur}, {})
        /\ node' = Forget({cur}) /\ UNCHANGED <<backlog, log, sent>>
    BY <1>6 DEF RecvError, Serving, historyVars
  <2>2. /\ \A f \in members' : /\ f \in members /\ f # cur
                               /\ wire'[node[f].peer] = wire[node[f].peer]
        /\ \A p \in Peers : Free(p) => wire'[p] = wire[p]
        /\ \A p \in Peers : link'[p] = "away" => link[p] = "away"
    <3>1. pc # "dead" /\ {cur} \in SUBSET members
      BY <2>1
    <3> QED BY <1>1, <2>1, <3>1, DropKeeps
  <2>3. \A f \in members' : /\ f \in members /\ node'[f] = node[f]
                            /\ wire'[node[f].peer] = wire[node[f].peer]
    BY <1>1, <2>1, <2>2 DEF Forget, TypeOK
  <2>4. \A p \in Peers : link'[p] = "away" \/ p \in backlog' =>
            (link[p] = "away" \/ p \in backlog) /\ wire'[p] = wire[p]
    BY <2>1, <2>2 DEF Free
  <2> QED BY <2>1, <2>3, <2>4, QuietLines
<1>7. CASE Stop
  <2>1. pc' = "dead" /\ UNCHANGED <<log, sent>>
    BY <1>7 DEF Stop, Die
  <2> QED BY <1>1, <2>1, LogSame DEF LinesInv, HoldInv
<1>8. CASE UNCHANGED vars
  <2>1. UNCHANGED <<log, sent, wire, link, backlog, pc, members, node>>
    BY <1>8 DEF vars, kernelVars, serverVars, historyVars
  <2>2. CASE pc = "dead"
    BY <1>1, <2>1, <2>2, LogSame DEF LinesInv, HoldInv
  <2>3. CASE pc # "dead"
    BY <2>1, <2>3, QuietLines
  <2> QED BY <2>2, <2>3
<1> QED
  BY <1>2, <1>3, <1>4, <1>5, <1>6, <1>7, <1>8,
     RecvLines, AcceptLines, LeftLines, ParseLines, FreedLines DEF Next, Server

(* What the invariant says of the lines is what was meant.                 *)
LEMMA InOrderIsAsSent == StateInv /\ LogInv => LinesAsSent
<1> SUFFICES ASSUME StateInv, LogInv, NEW p \in Peers
             PROVE  /\ IsPrefix(Heard(p), Lines(sent[p]))
                    /\ \A i \in DOMAIN log :
                          log[i].by = p /\ log[i].kind = "says" =>
                              \E j \in 1 .. i - 1 : log[j].by = p /\ log[j].kind = "joined" /\
                                                    log[j].who = log[i].who
  BY DEF LinesAsSent
<1>1. Heard(p) = Said(log, p)
  BY DEF Heard, Said, OwnIn
<1>2. log \in Seq(Messages) /\ sent[p] \in Stream
  BY DEF StateInv, TypeOK
<1>3. /\ Said(log, p) \in Seq(Seq(Chars)) /\ Len(Said(log, p)) \in Nat
      /\ Len(Said(log, p)) <= Cardinality(LineEnds(sent[p]))
      /\ \A i \in 1 .. Len(Said(log, p)) : Said(log, p)[i] = Lines(sent[p])[i]
  BY <1>2, SaidTyped DEF LogInv, InOrder
<1>4. Lines(sent[p]) \in Seq(Stream) /\ Len(Lines(sent[p])) = Cardinality(LineEnds(sent[p]))
  BY <1>2, LinesTyped
<1>5. Said(log, p) \in Seq(Stream)
  <2>1. ASSUME NEW i \in 1 .. Len(Said(log, p)) PROVE Said(log, p)[i] \in Stream
    <3>1. Cardinality(LineEnds(sent[p])) \in Nat
      BY <1>2, LinesTyped
    <3>2. i \in 1 .. Len(Lines(sent[p]))
      BY <1>3, <1>4, <3>1
    <3>3. Lines(sent[p])[i] \in Stream
      BY <1>4, <3>2, ElementOfSeq
    <3> QED BY <1>3, <3>3
  <2>2. Said(log, p) = [i \in 1 .. Len(Said(log, p)) |-> Said(log, p)[i]]
    BY <1>3
  <2> QED BY <1>3, <2>1, <2>2, IsASeq
<1>6. IsPrefix(Said(log, p), Lines(sent[p]))
  BY <1>3, <1>4, <1>5, AgreeIsPrefix
<1> QED BY <1>1, <1>6, ChatAssumption DEF LogInv, Joined
-----------------------------------------------------------------------------
THEOREM ChatInvariant == Spec => []ChatInv
<1>1. Init => ChatInv
  BY StateStart, HearStart DEF ChatInv
<1>2. ChatInv /\ [Next]_vars => ChatInv'
  BY StateStep, HearSteps DEF ChatInv
<1> QED BY <1>1, <1>2, PTL DEF Spec

(* The chat server's variables keep their types, whatever peers do and     *)
(* wherever a send fails.                                                  *)
THEOREM ChatTypeCorrect == Spec => []TypeOK
<1>1. ChatInv => TypeOK
  BY DEF ChatInv, StateInv
<1> QED BY <1>1, ChatInvariant, PTL

(* clients_ and the descriptors of the kernel stay in step, through        *)
(* batches with stale events, reuse of descriptors and clients that are    *)
(* erased while their lines are parsed.                                    *)
THEOREM MapIsTrue == Spec => []MapMatchesKernel
<1>1. ChatInv => MapMatchesKernel
  BY DEF ChatInv, StateInv
<1> QED BY <1>1, ChatInvariant, PTL

(* What broadcast sends to a peer is a stretch of one log, for any number  *)
(* of peers, whichever sends fail on the way.                              *)
THEOREM OneConversation == Spec => []EveryoneHearsTheSame
<1>1. ChatInv => EveryoneHearsTheSame
  BY InStepIsStretch
<1> QED BY <1>1, ChatInvariant, PTL

(* A peer that has not hung up is disconnected only with the server or for *)
(* a message that its own send buffer did not take: neither stale events   *)
(* nor the sends to others that fail put it out.                           *)
THEOREM DroppedForItsOwn == Spec => DroppedOnlyIfFull
<1> DEFINE Stays == \A p \in Connected :
                       link[p] = "open" /\ p \notin Connected' => pc' = "dead" \/ Refused(p)
<1>1. StateInv /\ [Next]_vars => [Stays]_vars
  <2> SUFFICES ASSUME StateInv, Next, NEW p \in Connected, link[p] = "open", pc' # "dead"
               PROVE  p \in Connected' \/ Refused(p)
    OBVIOUS
  <2>1. CASE Server
    BY <2>1, ServerSpares DEF Spared
  <2>2. CASE ~Server
    <3>1. conn' = conn
      BY <2>2 DEF Next, Connect, HangUp, Send, Stop, Die
    <3> QED BY <3>1 DEF Connected
  <2> QED BY <2>1, <2>2
<1>2. ChatInv => StateInv
  BY DEF ChatInv
<1> HIDE DEF Stays
<1>3. Spec => [][Stays]_vars
  BY <1>1, <1>2, ChatInvariant, PTL DEF Spec
<1> QED BY <1>3 DEF Stays, DroppedOnlyIfFull

(* Of what a peer has sent, the lines broadcast from its Client are the    *)
(* first ones, whole, in order and once each, and those after the first    *)
(* are said under a name it took, however recv cuts the stream into        *)
(* pieces, whichever descriptor it is given, and also when its Client is   *)
(* erased before all its lines are parsed.  Lines read from memory that    *)
(* has been freed are not among them.                                      *)
THEOREM LinesArrive == Spec => []LinesAsSent
<1>1. Init => LinesInv
  BY LinesStart
<1>2. ChatInv /\ LinesInv /\ [Next]_vars => LinesInv'
  BY LinesStep
<1>3. ChatInv /\ LinesInv => LinesAsSent
  BY InOrderIsAsSent DEF ChatInv, LinesInv
<1> QED BY <1>1, <1>2, <1>3, ChatInvariant, PTL DEF Spec
=============================================================================

----------------------------- MODULE ChatServer -----------------------------
(***************************************************************************)
(* cpp-microservice/cpp_chat_room: one thread serves every connection of   *)
(* the chat from a level-triggered epoll loop.  A batch of events is       *)
(* collected first and served afterwards; serving one of them may close    *)
(* connections that later events of the batch are about, and accept() may  *)
(* hand their descriptors to newcomers before those events are served.     *)
(*                                                                         *)
(* Peers and the kernel's sockets are external.  What a peer sends is a    *)
(* stream of characters and line ends.  A peer may close or reset the      *)
(* connection; the first send after a close provokes a reset, a send on a  *)
(* reset connection fails or raises SIGPIPE, whose default action ends the *)
(* server.  Any send fails with EAGAIN when the line does not fit into the *)
(* send buffer, because the peer does not read or because the lines come   *)
(* faster than it reads.                                                   *)
(*                                                                         *)
(* Left out: '\r' before a line end, the wording of the messages, the part *)
(* of a line that a failing send has got through, the failures of          *)
(* epoll_ctl.                                                              *)
(***************************************************************************)
EXTENDS Naturals, SequencesExt

CONSTANTS
    Peers,    \* processes that connect, each once
    Fds,      \* the descriptors accept() can return
    Chars,    \* characters other than the line end
    MaxLines, \* bound: line ends sent by all peers together
    MaxChars, \* bound: characters sent by all peers together
    Junk,     \* what freed memory may read as: names and texts
    MaxJunk,  \* bound: lines read from freed memory in a behaviour
    None

NL == "nl"
Listen == 0   \* listen_fd_

ASSUME ChatAssumption ==
    /\ Fds \subseteq Nat \ {Listen}
    /\ IsFiniteSet(Fds)
    /\ NL \notin Chars
    /\ MaxLines \in Nat
    /\ MaxChars \in Nat
    /\ Junk \subseteq Seq(Chars)
    /\ MaxJunk \in Nat
    /\ None \notin Peers

VARIABLES
    link,     \* each peer's side of its connection
    backlog,  \* peers connect()ed and not yet accepted
    conn,     \* the peer behind each open descriptor, or None
    wire,     \* what each peer has sent and the server has not received
    pc,       \* "serve": between system calls; "parse": on_readable goes
              \* through the lines of inbuf; "dead": no process
    batch,    \* descriptors of the events of epoll_wait; the first one is
              \* being served
    members,  \* the keys of clients_
    node,     \* the Client stored (or last stored) for each descriptor
    log,      \* history: every message broadcast
    inbox,    \* history: the messages each peer was sent, in order
    since,    \* history: how long the log was when the peer was accepted
    sent      \* history: everything each peer has sent

kernelVars == <<link, backlog, conn, wire>>
serverVars == <<pc, batch, members, node>>
historyVars == <<log, inbox, since, sent>>
vars == <<kernelVars, serverVars, historyVars>>

Links == {"away", "open", "closed", "reset", "gone"}

NoClient == [name |-> <<>>, inbuf |-> <<>>, peer |-> None]

Init ==
    /\ link = [p \in Peers |-> "away"]
    /\ backlog = {}
    /\ conn = [f \in Fds |-> None]
    /\ wire = [p \in Peers |-> <<>>]
    /\ pc = "serve"
    /\ batch = <<>>
    /\ members = {}
    /\ node = [f \in Fds |-> NoClient]
    /\ log = <<>>
    /\ inbox = [p \in Peers |-> <<>>]
    /\ since = [p \in Peers |-> 0]
    /\ sent = [p \in Peers |-> <<>>]
-----------------------------------------------------------------------------
(* The peers.  What they do after the server's end is nobody's concern.    *)

Connect(p) ==
    /\ link[p] = "away"
    /\ pc # "dead"
    /\ link' = [link EXCEPT ![p] = "open"]
    /\ backlog' = backlog \cup {p}
    /\ UNCHANGED <<conn, wire, serverVars, historyVars>>

(* How many elements of X the streams of f hold.                           *)
Total(f, X) ==
    FoldFunction(LAMBDA s, n : Cardinality({i \in DOMAIN s : s[i] \in X}) + n, 0, f)

Send(p, x) ==
    /\ link[p] = "open"
    /\ pc # "dead"
    /\ IF x = NL THEN Total(sent, {NL}) < MaxLines ELSE Total(sent, Chars) < MaxChars  \* bound
    /\ wire' = [wire EXCEPT ![p] = Append(@, x)]
    /\ sent' = [sent EXCEPT ![p] = Append(@, x)]
    /\ UNCHANGED <<link, backlog, conn, serverVars, log, inbox, since>>

(* A peer closes its connection, or resets it.                             *)
HangUp(p) ==
    /\ link[p] = "open"
    /\ pc # "dead"
    /\ \E end \in {"closed", "reset"} : link' = [link EXCEPT ![p] = end]
    /\ UNCHANGED <<backlog, conn, wire, serverVars, historyVars>>
-----------------------------------------------------------------------------
(* Broadcast.  Every descriptor of clients_ is sent the message; those     *)
(* whose send failed are disconnected when all have been tried.            *)

Behind(s) == {f \in members : link[conn[f]] = s}

PeersOf(fds) == {conn[f] : f \in fds}

(* Mutant: the loop over clients_ ends at the first send that fails.       *)
HearUntilFailure(m, fds) ==
    \E reached \in IF Behind("open") \subseteq fds THEN {fds} ELSE SUBSET fds :
        inbox' = [p \in Peers |-> IF p \in PeersOf(reached) THEN Append(inbox[p], m)
                                                           ELSE inbox[p]]

Hear(m, fds) ==
    inbox' = [p \in Peers |-> IF p \in PeersOf(fds) THEN Append(inbox[p], m)
                                                   ELSE inbox[p]]

(* The descriptors of drop are closed and erased; the sends have reset the *)
(* connections of hit.                                                     *)
Forget(fds) == [f \in Fds |-> IF f \in fds THEN NoClient ELSE node[f]]

(* Mutant: the descriptor is closed and stays in clients_.                 *)
DropWithoutErase(drop, hit) ==
    /\ members' = members
    /\ conn' = [f \in Fds |-> IF f \in drop THEN None ELSE conn[f]]
    /\ link' = [p \in Peers |-> IF p \in PeersOf(drop) THEN "gone"
                                ELSE IF p \in PeersOf(hit) THEN "reset"
                                ELSE link[p]]
    /\ wire' = [p \in Peers |-> IF p \in PeersOf(drop) THEN <<>> ELSE wire[p]]

Drop(drop, hit) ==
    /\ members' = members \ drop
    /\ conn' = [f \in Fds |-> IF f \in drop THEN None ELSE conn[f]]
    /\ link' = [p \in Peers |-> IF p \in PeersOf(drop) THEN "gone"
                                ELSE IF p \in PeersOf(hit) THEN "reset"
                                ELSE link[p]]
    /\ wire' = [p \in Peers |-> IF p \in PeersOf(drop) THEN <<>> ELSE wire[p]]

(* broadcast(m), after which the descriptors of also are disconnected too. *)
(* The line does not fit into the send buffers of full.                    *)
Broadcast(m, also) ==
    /\ log' = Append(log, m)
    /\ \E full \in SUBSET members, hit \in SUBSET Behind("closed") :
         /\ Hear(m, Behind("open") \ full)
         /\ Drop(full \cup Behind("reset") \cup also, hit)

(* The process ends, and the kernel closes its descriptors.                *)
Die ==
    /\ pc' = "dead"
    /\ members' = {}
    /\ conn' = [f \in Fds |-> None]
    /\ wire' = [p \in Peers |-> <<>>]
    /\ node' = [f \in Fds |-> NoClient]
    /\ batch' = <<>>
    /\ UNCHANGED <<link, backlog, since, sent>>

(* SIGPIPE in the middle of broadcast(m).                                  *)
Killed(m) ==
    /\ Behind("reset") # {}
    /\ Die
    /\ log' = Append(log, m)
    /\ \E reached \in SUBSET Behind("open") : Hear(m, reached)

(* A signal or an error of epoll_wait ends the server; so may the heap, at *)
(* any time after a freed Client has been written to.                      *)
Stop ==
    /\ pc # "dead"
    /\ Die
    /\ UNCHANGED <<log, inbox>>
-----------------------------------------------------------------------------
(* The loop.                                                               *)

Readable(f) ==
    /\ conn[f] # None
    /\ wire[conn[f]] # <<>> \/ link[conn[f]] \in {"closed", "reset"}

Ready == {f \in Fds : Readable(f)} \cup (IF backlog # {} THEN {Listen} ELSE {})

(* At most MAX_EVENTS (128) descriptors are ready: epoll returns them all. *)
EpollWait ==
    /\ pc = "serve"
    /\ batch = <<>>
    /\ Ready # {}
    /\ batch' \in SetToSeqs(Ready)
    /\ UNCHANGED <<pc, members, node, kernelVars, historyVars>>

cur == Head(batch)

Serving(fds) == pc = "serve" /\ batch # <<>> /\ cur \in fds

NextEvent == pc' = "serve" /\ batch' = Tail(batch)

(* on_readable of a descriptor that is not in clients_ disconnects it.     *)
ServeUnknown ==
    /\ Serving(Fds \ members)
    /\ conn' = [conn EXCEPT ![cur] = None]
    /\ NextEvent
    /\ UNCHANGED <<members, node, link, backlog, wire, historyVars>>

(* accept() returns the lowest free descriptor.  The result of sending the *)
(* welcome line is ignored.                                                *)
FreeFds == {f \in Fds : conn[f] = None}

OnAccept ==
    /\ Serving({Listen})
    /\ \E p \in backlog, f \in FreeFds :
         /\ \A g \in FreeFds : f <= g
         /\ backlog' = backlog \ {p}
         /\ conn' = [conn EXCEPT ![f] = p]
         /\ members' = members \cup {f}
         /\ node' = [node EXCEPT ![f] = [NoClient EXCEPT !.peer = p]]
         /\ since' = [since EXCEPT ![p] = Len(log)]
         /\ \/ UNCHANGED link
            \/ link[p] = "closed" /\ link' = [link EXCEPT ![p] = "reset"]
    /\ UNCHANGED <<wire, pc, batch, log, inbox, sent>>

(* accept() returns EAGAIN, or EMFILE.                                     *)
AcceptEnds ==
    /\ Serving({Listen})
    /\ backlog = {} \/ FreeFds = {}
    /\ NextEvent
    /\ UNCHANGED <<members, node, kernelVars, historyVars>>
-----------------------------------------------------------------------------
(* on_readable(cur)                                                        *)

Peer == conn[cur]

(* Mutant: what recv returns replaces an unfinished line.                  *)
RecvOverwrites ==
    /\ Serving(members)
    /\ wire[Peer] # <<>>
    /\ node' = [node EXCEPT ![cur].inbuf = wire[Peer]]
    /\ wire' = [wire EXCEPT ![Peer] = <<>>]
    /\ UNCHANGED <<link, backlog, conn, pc, batch, members, historyVars>>

Recv ==
    /\ Serving(members)
    /\ wire[Peer] # <<>>
    /\ node' = [node EXCEPT ![cur].inbuf = @ \o wire[Peer]]
    /\ wire' = [wire EXCEPT ![Peer] = <<>>]
    /\ UNCHANGED <<link, backlog, conn, pc, batch, members, historyVars>>

(* Mutant: EAGAIN is taken for an error.                                   *)
RecvWouldBlockDrops ==
    /\ Serving(members)
    /\ wire[Peer] = <<>>
    /\ link[Peer] = "open"
    /\ Drop({cur}, {})
    /\ NextEvent
    /\ node' = Forget({cur})
    /\ UNCHANGED <<backlog, historyVars>>

(* Mutant: on_readable returns on EAGAIN and leaves the lines for the next *)
(* event.                                                                  *)
RecvWouldBlockReturns ==
    /\ Serving(members)
    /\ wire[Peer] = <<>>
    /\ link[Peer] = "open"
    /\ NextEvent
    /\ UNCHANGED <<members, node, kernelVars, historyVars>>

RecvWouldBlock ==
    /\ Serving(members)
    /\ wire[Peer] = <<>>
    /\ link[Peer] = "open"
    /\ pc' = "parse"
    /\ UNCHANGED <<batch, members, node, kernelVars, historyVars>>

(* Mutant: a nameless client is called after the wrong descriptor.         *)
DisplayListener == IF node[cur].name = <<>> THEN <<"#", Listen>> ELSE node[cur].name

DisplayName == IF node[cur].name = <<>> THEN <<"#", cur>> ELSE node[cur].name

Left == [kind |-> "left", who |-> DisplayName, text |-> <<>>, by |-> node[cur].peer]

(* Mutant of RecvEnd: recv returning 0 is taken for a lull.                *)
RecvEndIgnored ==
    /\ Serving(members)
    /\ wire[Peer] = <<>>
    /\ link[Peer] \in {"closed", "reset"}
    /\ NextEvent
    /\ UNCHANGED <<members, node, kernelVars, historyVars>>

(* recv returns 0.  Lines received by an earlier recv of the same loop are *)
(* dropped with the buffer.                                                *)
RecvEnd ==
    /\ Serving(members)
    /\ wire[Peer] = <<>>
    /\ link[Peer] \in {"closed", "reset"}
    /\ \/ /\ Broadcast(Left, {cur})
          /\ NextEvent
          /\ node' = Forget(Fds \ members')
          /\ UNCHANGED <<backlog, since, sent>>
       \/ Killed(Left)

(* recv returns an error: nobody is told.                                  *)
RecvError ==
    /\ Serving(members)
    /\ link[Peer] = "reset"
    /\ Drop({cur}, {})
    /\ NextEvent
    /\ node' = Forget({cur})
    /\ UNCHANGED <<backlog, historyVars>>

(* One round of the loop over the lines of inbuf.                          *)
LineEnd == SelectInSeq(node[cur].inbuf, LAMBDA x : x = NL)

Line == SubSeq(node[cur].inbuf, 1, LineEnd - 1)

Message ==
    IF node[cur].name = <<>>
    THEN [kind |-> "joined", who |-> IF Line = <<>> THEN <<"#", cur>> ELSE Line,
          text |-> Line, by |-> node[cur].peer]
    ELSE [kind |-> "says", who |-> node[cur].name, text |-> Line, by |-> node[cur].peer]

ParseLine ==
    /\ pc = "parse"
    /\ cur \in members
    /\ LineEnd # 0
    /\ \/ /\ Broadcast(Message, {})
          /\ node' = [Forget(Fds \ members') EXCEPT ![cur] =
                        IF cur \in members'
                        THEN [name |-> Message.who, peer |-> @.peer,
                              inbuf |-> SubSeq(@.inbuf, LineEnd + 1, Len(@.inbuf))]
                        ELSE NoClient]
          /\ UNCHANGED <<pc, batch, backlog, since, sent>>
       \/ Killed(Message)

(* The broadcast has erased the very Client whose lines are being parsed,  *)
(* and the loop goes on with the reference cli: the freed memory is read   *)
(* as one more line, under some name, that nobody has sent; or it shows no *)
(* line end (ParseEnds), or the process ends (Stop).                       *)
Garbled == [kind : {"joined", "says"}, who : Junk, text : Junk, by : {None}]

ParseFreed ==
    /\ pc = "parse"
    /\ cur \notin members
    /\ Cardinality({i \in DOMAIN log : log[i].by = None}) < MaxJunk  \* bound
    /\ \E m \in Garbled :
         \/ /\ Broadcast(m, {})
            /\ node' = Forget(Fds \ members')
            /\ UNCHANGED <<pc, batch, backlog, since, sent>>
         \/ Killed(m)

ParseEnds ==
    /\ pc = "parse"
    /\ LineEnd = 0 \/ cur \notin members
    /\ NextEvent
    /\ UNCHANGED <<members, node, kernelVars, historyVars>>

Server ==
    \/ EpollWait \/ ServeUnknown \/ OnAccept \/ AcceptEnds
    \/ Recv \/ RecvWouldBlock \/ RecvEnd \/ RecvError
    \/ ParseLine \/ ParseFreed \/ ParseEnds

Next ==
    \/ Server \/ Stop
    \/ \E p \in Peers : Connect(p) \/ HangUp(p) \/ \E x \in Chars \cup {NL} : Send(p, x)

(* The serving thread runs; the peers owe nothing.                         *)
Spec == Init /\ [][Next]_vars /\ WF_vars(Server)
-----------------------------------------------------------------------------
Stream == Seq(Chars \cup {NL})
Names == Seq(Chars) \cup {<<"#", f>> : f \in Fds}
Messages ==
    [kind : {"joined", "says", "left"}, who : Names, text : Seq(Chars), by : Peers \cup {None}]

TypeOK ==
    /\ link \in [Peers -> Links]
    /\ backlog \in SUBSET Peers
    /\ conn \in [Fds -> Peers \cup {None}]
    /\ wire \in [Peers -> Stream]
    /\ pc \in {"serve", "parse", "dead"}
    /\ batch \in Seq(Fds \cup {Listen})
    /\ members \in SUBSET Fds
    /\ node \in [Fds -> [name : Names, inbuf : Stream, peer : Peers \cup {None}]]
    /\ log \in Seq(Messages)
    /\ inbox \in [Peers -> Seq(Messages)]
    /\ since \in [Peers -> Nat]
    /\ sent \in [Peers -> Stream]

Connected == {p \in Peers : \E f \in Fds : conn[f] = p}

(* clients_ and the open sockets stay in step: a descriptor is a key of    *)
(* clients_ exactly while it is open, and its Client belongs to the peer   *)
(* behind it, whatever became of the descriptors of the batch.             *)
MapMatchesKernel ==
    /\ \A f \in Fds : f \in members <=> conn[f] # None
    /\ \A f \in members : node[f].peer = conn[f]

(* Everyone in the room hears the same messages in the same order: what a  *)
(* peer has been sent is a stretch of the log that starts where it came    *)
(* in, and reaches the end while it is in the room.                        *)
EveryoneHearsTheSame ==
    \A p \in Peers :
        /\ inbox[p] = SubSeq(log, since[p] + 1, since[p] + Len(inbox[p]))
        /\ p \in Connected /\ link[p] = "open" => since[p] + Len(inbox[p]) = Len(log)

(* The numbers of a finite set in ascending order (SetToSortSeq, as the    *)
(* proofs can use it).                                                     *)
Ascending(I) ==
    CHOOSE s \in [1 .. Cardinality(I) -> I] : \A i, j \in DOMAIN s : i < j => s[i] < s[j]

(* The lines of a stream, without an unfinished last one.                  *)
LineEnds(s) == {i \in 1 .. Len(s) : s[i] = NL}

Lines(s) ==
    LET ends == Ascending(LineEnds(s))
        start(i) == IF i = 1 THEN 1 ELSE ends[i - 1] + 1
    IN  [i \in DOMAIN ends |-> SubSeq(s, start(i), ends[i] - 1)]

(* The texts of the lines of p that were broadcast.                        *)
Heard(p) ==
    LET own == Ascending({i \in DOMAIN log : log[i].by = p /\ log[i].kind # "left"})
    IN  [i \in DOMAIN own |-> log[own[i]].text]

(* Lines are put together again from the pieces recv returns, once, in     *)
(* order, and under the name of the peer who sent them, also when its      *)
(* descriptor used to be another peer's: the first line is the nickname,   *)
(* every other one is said under it.  This is about the lines parsed from  *)
(* the Client of a member: of what is read from a freed one (by None)      *)
(* nothing can be said.                                                    *)
LinesAsSent ==
    \A p \in Peers :
        /\ IsPrefix(Heard(p), Lines(sent[p]))
        /\ \A i \in DOMAIN log :
              log[i].by = p /\ log[i].kind = "says" =>
                  \E j \in 1 .. i - 1 :
                     log[j].by = p /\ log[j].kind = "joined" /\ log[j].who = log[i].who

(* A message was broadcast, and the send of it to p has failed.            *)
Refused(p) == Len(log') > Len(log) /\ inbox'[p] = inbox[p]

(* A peer that has not hung up is disconnected only with the server, or    *)
(* for a message that did not fit into its own send buffer: never by an    *)
(* event that was about somebody else, by what it sends, or because others *)
(* fail or leave.                                                          *)
DroppedOnlyIfFull ==
    [][\A p \in Connected :
          link[p] = "open" /\ p \notin Connected' => pc' = "dead" \/ Refused(p)]_vars

(* Every complete line of a peer that stays connected is broadcast, unless *)
(* the server dies.                                                        *)
Unheard(p) == p \in Connected /\ Len(Heard(p)) < Cardinality(LineEnds(sent[p]))

GetsThrough(p) == Unheard(p) ~> ~Unheard(p)
=============================================================================

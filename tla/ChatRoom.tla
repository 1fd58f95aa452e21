------------------------------ MODULE ChatRoom ------------------------------
(***************************************************************************)
(* The chat with its own clients: every peer of ChatServer is a process    *)
(* that runs cpp_chat_room/src/client.  The main thread reads lines from   *)
(* the user and sends them, the receiver thread prints what comes, and the *)
(* destructor closes the socket and joins the receiver.  A close neither   *)
(* wakes a recv in another thread nor ends the connection before that recv *)
(* has returned; until then the server sees nothing.                       *)
(*                                                                         *)
(* stop_, the close and what follows the end of the input are one step.    *)
(* Left out: a terminal that takes no more output.                         *)
(***************************************************************************)
EXTENDS ChatServer

CONSTANT Typed  \* what users type, and their nicknames, without line end

ASSUME RoomAssumption == Typed \subseteq Seq(Chars)

VARIABLES
    main,  \* the main thread: "off", "send", "getline", "close", "join",
           \* "gone"
    out,   \* the rest of the line send_all is sending
    ear,   \* the receiver thread: "none", "recv", "print", "over"
    stop,  \* stop_
    read   \* pieces recv has returned: the welcome and the messages

clientVars == <<main, out, ear, stop, read>>
roomVars == <<vars, clientVars>>

RoomInit ==
    /\ Init
    /\ main = [p \in Peers |-> "off"]
    /\ out = [p \in Peers |-> <<>>]
    /\ ear = [p \in Peers |-> "none"]
    /\ stop = [p \in Peers |-> FALSE]
    /\ read = [p \in Peers |-> 0]

At(p, s) == main[p] = s

GoTo(p, s) == main' = [main EXCEPT ![p] = s]

HungUp(p) == link[p] = "gone" \/ pc = "dead"

Unread(p) ==
    Len(inbox[p]) - read[p] + IF link[p] = "away" \/ p \in backlog THEN 0 ELSE 1

(* The last reference to the socket is dropped.  With something unread the *)
(* connection is reset.                                                    *)
Release(p, unread) ==
    IF HungUp(p) THEN UNCHANGED vars
    ELSE /\ link' = [link EXCEPT ![p] = IF unread > 0 THEN "reset" ELSE "closed"]
         /\ UNCHANGED <<backlog, conn, wire, serverVars, historyVars>>

(* All lines under way fit the bounds.                                     *)
Fits(line) ==
    /\ Total(sent, {NL}) + Total(out, {NL}) < MaxLines
    /\ Total(sent, Chars) + Total(out, Chars) + Len(line) <= MaxChars
-----------------------------------------------------------------------------
(* The main thread.                                                        *)

Start(p) ==
    /\ At(p, "off")
    /\ Connect(p)
    /\ \E nick \in Typed :
         /\ Fits(nick)  \* bounds
         /\ out' = [out EXCEPT ![p] = Append(nick, NL)]
    /\ GoTo(p, "send")
    /\ UNCHANGED <<ear, stop, read>>

(* When the line is out, stop_ is looked at; after the nickname the        *)
(* receiver is started.                                                    *)
SendPart(p) ==
    /\ At(p, "send")
    /\ out' = [out EXCEPT ![p] = Tail(@)]
    /\ IF HungUp(p) THEN UNCHANGED vars ELSE Send(p, Head(out[p]))
    /\ IF Len(out[p]) > 1 THEN UNCHANGED <<main, ear>>
       ELSE /\ GoTo(p, IF stop[p] THEN "close" ELSE "getline")
            /\ ear' = [ear EXCEPT ![p] = IF @ = "none" THEN "recv" ELSE @]
    /\ UNCHANGED <<stop, read>>

(* The result of sending the nickname is ignored.                          *)
SendFails(p) ==
    /\ At(p, "send")
    /\ HungUp(p)
    /\ out' = [out EXCEPT ![p] = <<>>]
    /\ IF ear[p] = "none"
       THEN /\ GoTo(p, "getline")
            /\ ear' = [ear EXCEPT ![p] = "recv"]
            /\ UNCHANGED stop
       ELSE /\ GoTo(p, "close")
            /\ stop' = [stop EXCEPT ![p] = TRUE]
            /\ UNCHANGED ear
    /\ UNCHANGED <<vars, read>>

SendKills(p) ==
    /\ At(p, "send")
    /\ HungUp(p)
    /\ GoTo(p, "gone")
    /\ out' = [out EXCEPT ![p] = <<>>]
    /\ ear' = [ear EXCEPT ![p] = "over"]
    /\ UNCHANGED <<vars, stop, read>>

Type(p) ==
    /\ At(p, "getline")
    /\ \E line \in Typed :
         /\ Fits(line)  \* bounds
         /\ out' = [out EXCEPT ![p] = Append(line, NL)]
    /\ GoTo(p, "send")
    /\ UNCHANGED <<vars, ear, stop, read>>

(* ~ChatClient.  The receiver may be blocked in recv, about to call it, or *)
(* elsewhere.                                                              *)
Closes(p) ==
    /\ GoTo(p, "join")
    /\ stop' = [stop EXCEPT ![p] = TRUE]
    /\ \/ ear[p] = "recv" /\ UNCHANGED <<vars, ear>>
       \/ /\ Release(p, Unread(p))
          /\ ear' = [ear EXCEPT ![p] = IF @ = "recv" THEN "over" ELSE @]
    /\ UNCHANGED <<out, read>>

EndOfInput(p) == At(p, "getline") /\ Closes(p)

Close(p) == At(p, "close") /\ Closes(p)

Join(p) ==
    /\ At(p, "join")
    /\ ear[p] = "over"
    /\ GoTo(p, "gone")
    /\ UNCHANGED <<vars, out, ear, stop, read>>
-----------------------------------------------------------------------------
(* recv_loop                                                               *)

(* recv returns all there is.                                              *)
EarRecv(p) ==
    /\ ear[p] = "recv"
    /\ Unread(p) > 0
    /\ read' = [read EXCEPT ![p] = @ + Unread(p)]
    /\ IF At(p, "join") THEN Release(p, 0) ELSE UNCHANGED vars
    /\ ear' = [ear EXCEPT ![p] = "print"]
    /\ UNCHANGED <<main, out, stop>>

EarPrint(p) ==
    /\ ear[p] = "print"
    /\ ear' = [ear EXCEPT ![p] = IF stop[p] THEN "over" ELSE "recv"]
    /\ UNCHANGED <<vars, main, out, stop, read>>

(* Mutant of EarEnds: the end of the stream is taken for a lull.           *)
EarIgnoresEnd(p) ==
    /\ ear[p] = "recv"
    /\ HungUp(p)
    /\ Unread(p) = 0
    /\ UNCHANGED roomVars

(* recv returns 0, or an error when the server has left something unread.  *)
EarEnds(p) ==
    /\ ear[p] = "recv"
    /\ HungUp(p)
    /\ ear' = [ear EXCEPT ![p] = "over"]
    /\ stop' = [stop EXCEPT ![p] = TRUE]
    /\ UNCHANGED <<vars, main, out, read>>
-----------------------------------------------------------------------------
MainStep(p) ==
    SendPart(p) \/ SendFails(p) \/ SendKills(p) \/ Close(p) \/ Join(p)

EarStep(p) == EarRecv(p) \/ EarPrint(p) \/ EarEnds(p)

ServerStep == Server /\ UNCHANGED clientVars

RoomNext ==
    \/ ServerStep
    \/ Stop /\ UNCHANGED clientVars
    \/ \E p \in Peers : Start(p) \/ Type(p) \/ EndOfInput(p) \/ MainStep(p) \/ EarStep(p)

(* Server and clients run; users owe nothing.                              *)
RoomSpec ==
    /\ RoomInit /\ [][RoomNext]_roomVars
    /\ WF_roomVars(ServerStep)
    /\ \A p \in Peers : WF_roomVars(MainStep(p)) /\ WF_roomVars(EarStep(p))
-----------------------------------------------------------------------------
(* A client is in the room as long as its receiver listens, also when the  *)
(* batch holds stale events and others leave or fail; nothing but the end  *)
(* of the server or a message its send buffer has no room for puts it out. *)
(* This includes a client whose user has left and whose destructor waits:  *)
(* the room still talks to it.                                             *)
ListenersInRoom ==
    [][\A p \in Peers : ear[p] = "recv" /\ ~HungUp(p) =>
          /\ link[p] = "open" /\ p \in backlog \cup Connected
          /\ \/ p \in (backlog \cup Connected)' \/ pc' = "dead"
             \/ p \in Connected /\ Refused(p)]_roomVars

(* A process whose user has left ends as soon as it hears anything, or     *)
(* loses the server: the join is waiting for nothing but the next recv.    *)
GetsOut(p) ==
    main[p] \in {"close", "join"} /\ (Unread(p) > 0 \/ HungUp(p)) ~> At(p, "gone")

(* The server forgets a client that has ended, however it ended, and frees *)
(* its descriptor.                                                         *)
Forgotten(p) == At(p, "gone") /\ p \in Connected ~> p \notin Connected
=============================================================================

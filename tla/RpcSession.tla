----------------------------- MODULE RpcSession -----------------------------
(***************************************************************************)
(* Sessions of RPC/: a server process that serves every connection by a    *)
(* thread of its own, clients that each make one call after another over   *)
(* one connection, and peers that are not RpcClients and send what they    *)
(* like.  Frames are atomic here; RpcWire is about their bytes.            *)
(*                                                                         *)
(* An error of send or recv ends the whole process (die), and so does an   *)
(* exception that leaves handle_client.  A client that connects again is   *)
(* another element of Clients: nothing of the old connection comes along.  *)
(*                                                                         *)
(* Connections are external, and behave as TCP does on Linux.  A peer      *)
(* leaves in an orderly way or resets the connection, and its kernel does  *)
(* the latter if it has not read all that has arrived.  The first send to  *)
(* a peer that has left breaks the connection: recv still returns what is  *)
(* there and then 0, and send fails.  On a reset connection both fail.     *)
(***************************************************************************)
EXTENDS Naturals, SequencesExt

CONSTANTS
    Clients,   \* RpcClients, with one connection each
    Others,    \* other peers
    Methods,   \* names a client calls
    MaxFrames, \* bound: frames a peer sends
    None

Peers == Clients \cup Others

ASSUME SessionAssumption ==
    /\ Clients \cap Others = {}
    /\ MaxFrames \in Nat
    /\ None \notin Methods

VARIABLES
    server,    \* "up" or "dead"
    handlers,  \* the keys of handlers_
    thread,    \* handle_client: "none", "recv", "find", "call", "send", "done"
    rf, rsp,   \* its variables of that name, or None
    link,      \* the peer's side: "away", "open", "left", "broken", "reset",
               \* and "gone" when the server has closed its side too
    up, down,  \* frames on their way to the server, and to the peer
    nextId,    \* next_id_; for other peers a count of what they sent
    calling,   \* the method a client is inside call() for, or None
    ran,       \* history: method and status the server computed for the call
    last       \* history: the outcome of the client's last call

serverVars == <<server, handlers, thread, rf, rsp>>
netVars == <<link, up, down>>
clientVars == <<nextId, calling, last>>
vars == <<serverVars, netVars, clientVars, ran>>

(* handle_client tells four kinds of frames apart: a request, a request    *)
(* whose payload does not parse, a frame of another type, and bytes that   *)
(* are no frame.                                                           *)
Kinds == {"request", "garbled", "other", "junk"}

RequestFrame(kind, id, m) == [kind |-> kind, id |-> id, method |-> m]

Frames == [kind : Kinds, id : 0 .. MaxFrames, method : Methods]

(* 0: done; 1: unknown method, or the handler reports an error; 2: an      *)
(* exception was thrown.                                                   *)
Statuses == 0 .. 2

Responses == [id : 0 .. MaxFrames, method : Methods, status : Statuses]

ASSUME NoneAssumption == None \notin Frames \cup Responses \cup (Methods \X Statuses)

Init ==
    /\ server = "up"
    /\ handlers = {}
    /\ thread = [p \in Peers |-> "none"]
    /\ rf = [p \in Peers |-> None]
    /\ rsp = [p \in Peers |-> None]
    /\ link = [p \in Peers |-> "away"]
    /\ up = [p \in Peers |-> <<>>]
    /\ down = [p \in Peers |-> <<>>]
    /\ nextId = [p \in Peers |-> 1]
    /\ calling = [c \in Clients |-> None]
    /\ ran = [c \in Clients |-> None]
    /\ last = [c \in Clients |-> None]
-----------------------------------------------------------------------------
(* The server process.                                                     *)

ServerDies ==
    /\ server' = "dead"
    /\ thread' = [p \in Peers |-> "done"]
    /\ rf' = [p \in Peers |-> None]
    /\ rsp' = [p \in Peers |-> None]
    /\ up' = [p \in Peers |-> <<>>]
    /\ UNCHANGED <<handlers, link, down, clientVars, ran>>

RegisterMethod(m) ==
    /\ server = "up"
    /\ m \notin handlers
    /\ handlers' = handlers \cup {m}
    /\ UNCHANGED <<server, thread, rf, rsp, netVars, clientVars, ran>>

(* accept() returns the connection and a thread is started for it.         *)
Serve(p) ==
    /\ server = "up"
    /\ link[p] # "away"
    /\ thread[p] = "none"
    /\ thread' = [thread EXCEPT ![p] = "recv"]
    /\ UNCHANGED <<server, handlers, rf, rsp, netVars, clientVars, ran>>

GoTo(p, step) ==
    /\ thread' = [thread EXCEPT ![p] = step]
    /\ UNCHANGED <<server, handlers>>

RecvFrame(p) ==
    /\ thread[p] = "recv"
    /\ up[p] # <<>>
    /\ Head(up[p]).kind # "junk"
    /\ rf' = [rf EXCEPT ![p] = Head(up[p])]
    /\ up' = [up EXCEPT ![p] = Tail(@)]
    /\ GoTo(p, "find")
    /\ UNCHANGED <<rsp, link, down, clientVars, ran>>

(* recv_frame throws outside of the try block: std::terminate.             *)
RecvJunk(p) ==
    /\ thread[p] = "recv"
    /\ up[p] # <<>>
    /\ Head(up[p]).kind = "junk"
    /\ ServerDies

(* Mutant of RecvEnd: the loop goes on when recv_frame returns nullopt.    *)
RecvEndLoops(p) ==
    /\ thread[p] = "recv"
    /\ up[p] = <<>>
    /\ link[p] \in {"left", "broken"}
    /\ UNCHANGED vars

(* recv returns 0, also in the middle of a frame.                          *)
RecvEnd(p) ==
    /\ thread[p] = "recv"
    /\ up[p] = <<>>
    /\ link[p] \in {"left", "broken"}
    /\ GoTo(p, "done")
    /\ link' = [link EXCEPT ![p] = "gone"]
    /\ UNCHANGED <<rf, rsp, up, down, clientVars, ran>>

RecvDies(p) ==
    /\ thread[p] = "recv"
    /\ link[p] = "reset"
    /\ ServerDies

(* Mutant of Responds: req_id is left as the handler made it, 0.           *)
RespondsUnaligned(p, status) ==
    /\ rsp' = [rsp EXCEPT ![p] = [id |-> 0, method |-> rf[p].method, status |-> status]]
    /\ rf' = [rf EXCEPT ![p] = None]
    /\ GoTo(p, "send")
    /\ IF p \in Clients
       THEN ran' = [ran EXCEPT ![p] = IF calling[p] = None THEN @
                                      ELSE <<rf[p].method, status>>]
       ELSE UNCHANGED ran
    /\ UNCHANGED <<netVars, clientVars>>

(* Mutant of Responds: one response variable for all threads.              *)
RespondsShared(p, status) ==
    LET r == [id |-> rf[p].id, method |-> rf[p].method, status |-> status] IN
    /\ rsp' = [q \in Peers |-> IF q = p \/ rsp[q] # None THEN r ELSE None]
    /\ rf' = [rf EXCEPT ![p] = None]
    /\ GoTo(p, "send")
    /\ IF p \in Clients
       THEN ran' = [ran EXCEPT ![p] = IF calling[p] = None THEN @
                                      ELSE <<rf[p].method, status>>]
       ELSE UNCHANGED ran
    /\ UNCHANGED <<netVars, clientVars>>

Responds(p, status) ==
    /\ rsp' = [rsp EXCEPT ![p] =
                 [id |-> rf[p].id, method |-> rf[p].method, status |-> status]]
    /\ rf' = [rf EXCEPT ![p] = None]
    /\ GoTo(p, "send")
    /\ IF p \in Clients
       THEN ran' = [ran EXCEPT ![p] = IF calling[p] = None THEN @
                                      ELSE <<rf[p].method, status>>]
       ELSE UNCHANGED ran
    /\ UNCHANGED <<netVars, clientVars>>

(* A frame that is no request is passed over without a reply.              *)
SkipFrame(p) ==
    /\ thread[p] = "find"
    /\ rf[p].kind = "other"
    /\ rf' = [rf EXCEPT ![p] = None]
    /\ GoTo(p, "recv")
    /\ UNCHANGED <<rsp, netVars, clientVars, ran>>

ParseThrows(p) ==
    /\ thread[p] = "find"
    /\ rf[p].kind = "garbled"
    /\ Responds(p, 2)

FindHandler(p) ==
    /\ thread[p] = "find"
    /\ rf[p].kind = "request"
    /\ rf[p].method \in handlers
    /\ GoTo(p, "call")
    /\ UNCHANGED <<rf, rsp, netVars, clientVars, ran>>

(* Mutant of UnknownMethod: a status the protocol does not have.           *)
UnknownMethodErrno(p) ==
    /\ thread[p] = "find"
    /\ rf[p].kind = "request"
    /\ rf[p].method \notin handlers
    /\ Responds(p, 3)

UnknownMethod(p) ==
    /\ thread[p] = "find"
    /\ rf[p].kind = "request"
    /\ rf[p].method \notin handlers
    /\ Responds(p, 1)

(* The handler returns with a status of its own, or throws.                *)
CallHandler(p) ==
    /\ thread[p] = "call"
    /\ \E status \in Statuses : Responds(p, status)

(* The first send to a peer that has left succeeds.                        *)
SendResponse(p) ==
    /\ thread[p] = "send"
    /\ \/ /\ link[p] = "open"
          /\ down' = [down EXCEPT ![p] = Append(@, rsp[p])]
          /\ UNCHANGED link
       \/ /\ link[p] = "left"
          /\ link' = [link EXCEPT ![p] = "broken"]
          /\ UNCHANGED down
    /\ rsp' = [rsp EXCEPT ![p] = None]
    /\ GoTo(p, "recv")
    /\ UNCHANGED <<rf, up, clientVars, ran>>

SendDies(p) ==
    /\ thread[p] = "send"
    /\ link[p] \in {"broken", "reset"}
    /\ ServerDies
-----------------------------------------------------------------------------
(* The peers.                                                              *)

Connect(p) ==
    /\ server = "up"
    /\ link[p] = "away"
    /\ link' = [link EXCEPT ![p] = "open"]
    /\ UNCHANGED <<serverVars, up, down, clientVars, ran>>

Sends(p, frame) ==
    /\ link[p] = "open"
    /\ nextId[p] <= MaxFrames  \* bound
    /\ nextId' = [nextId EXCEPT ![p] = @ + 1]
    /\ up' = [up EXCEPT ![p] = IF server = "up" THEN Append(@, frame) ELSE @]
    /\ UNCHANGED <<serverVars, link, down, last>>

(* call(): a send to a server that has just died may still succeed.        *)
Call(c, m) ==
    /\ calling[c] = None
    /\ Sends(c, RequestFrame("request", nextId[c], m))
    /\ calling' = [calling EXCEPT ![c] = m]
    /\ ran' = [ran EXCEPT ![c] = None]

SendOther(p, kind, m) ==
    /\ p \in Others
    /\ Sends(p, RequestFrame(kind, nextId[p], m))
    /\ UNCHANGED <<calling, ran>>

Id(c) == nextId[c] - 1

Ends(c, outcome) ==
    /\ calling' = [calling EXCEPT ![c] = None]
    /\ ran' = [ran EXCEPT ![c] = None]
    /\ last' = [last EXCEPT ![c] = outcome]
    /\ UNCHANGED <<serverVars, nextId, up>>

(* Frames with other ids are passed over.                                  *)
CallReturns(c) ==
    /\ calling[c] # None
    /\ \E i \in DOMAIN down[c] :
         /\ down[c][i].id = Id(c)
         /\ \A j \in 1 .. i - 1 : down[c][j].id # Id(c)
         /\ down' = [down EXCEPT ![c] = SubSeq(@, i + 1, Len(@))]
         /\ Ends(c, <<down[c][i].method, down[c][i].status>>)
    /\ UNCHANGED link

(* recv returns 0: call() throws, and the client may call again.           *)
CallThrows(c) ==
    /\ calling[c] # None
    /\ server = "dead"
    /\ \A i \in DOMAIN down[c] : down[c][i].id # Id(c)
    /\ down' = [down EXCEPT ![c] = <<>>]
    /\ Ends(c, <<"failed">>)
    /\ UNCHANGED link

(* The server's end has reset the connection: send or recv fails, and the  *)
(* client process ends.                                                    *)
CallDies(c) ==
    /\ calling[c] # None
    /\ server = "dead"
    /\ link' = [link EXCEPT ![c] = "gone"]
    /\ down' = [down EXCEPT ![c] = <<>>]
    /\ Ends(c, <<"failed">>)

(* close_client, or the end of the process, within a call too.  A reply on *)
(* its way is either unread by then or arrives too late.                   *)
Leave(p) ==
    /\ link[p] = "open"
    /\ \E end \in {IF down[p] = <<>> THEN "left" ELSE "broken", "reset"} :
          link' = [link EXCEPT ![p] = end]
    /\ down' = [down EXCEPT ![p] = <<>>]
    /\ IF p \in Clients /\ calling[p] # None
       THEN Ends(p, <<"failed">>)
       ELSE UNCHANGED <<serverVars, up, clientVars, ran>>
-----------------------------------------------------------------------------
Thread(p) ==
    \/ RecvFrame(p) \/ RecvJunk(p) \/ RecvEnd(p) \/ RecvDies(p)
    \/ SkipFrame(p) \/ ParseThrows(p) \/ FindHandler(p) \/ UnknownMethod(p)
    \/ CallHandler(p) \/ SendResponse(p) \/ SendDies(p)

Next ==
    \/ \E m \in Methods : RegisterMethod(m)
    \/ \E p \in Peers :
         \/ Serve(p) \/ Thread(p) \/ Connect(p) \/ Leave(p)
         \/ \E kind \in Kinds, m \in Methods : SendOther(p, kind, m)
    \/ \E c \in Clients :
         \/ CallReturns(c) \/ CallThrows(c) \/ CallDies(c)
         \/ \E m \in Methods : Call(c, m)

(* Threads run and handlers return; peers owe nothing but to read what     *)
(* they wait for.                                                          *)
Spec ==
    /\ Init /\ [][Next]_vars
    /\ \A p \in Peers : WF_vars(Serve(p)) /\ WF_vars(Thread(p))
    /\ \A c \in Clients : WF_vars(CallReturns(c) \/ CallThrows(c) \/ CallDies(c))

(* Connections last: nobody leaves, nothing is reset.                      *)
Staying == \A p \in Peers : link[p] = "open" => link'[p] = "open"

StayingSpec == Init /\ [][Next /\ Staying]_vars
-----------------------------------------------------------------------------
TypeOK ==
    /\ server \in {"up", "dead"}
    /\ handlers \in SUBSET Methods
    /\ thread \in [Peers -> {"none", "recv", "find", "call", "send", "done"}]
    /\ rf \in [Peers -> Frames \cup {None}]
    /\ rsp \in [Peers -> Responses \cup {None}]
    /\ link \in [Peers -> {"away", "open", "left", "broken", "reset", "gone"}]
    /\ up \in [Peers -> Seq(Frames)]
    /\ down \in [Peers -> Seq(Responses)]
    /\ nextId \in [Peers -> 1 .. MaxFrames + 1]
    /\ calling \in [Clients -> Methods \cup {None}]
    /\ ran \in [Clients -> (Methods \X Statuses) \cup {None}]
    /\ last \in [Clients -> (Methods \X Statuses) \cup {<<"failed">>, None}]

Abstract == INSTANCE RpcCalls WITH
    Callers <- Clients, NoCall <- None

(* A call is evaluated at most once, returns exactly what that evaluation  *)
(* answered, although ids start at 1 on every connection and threads of    *)
(* all connections run at once, and ends: with an exception or the end of  *)
(* the process if the server goes away.                                    *)
ImplementsRpcCalls == Abstract!Spec

(* However a peer goes, the thread that serves it ends, or the process     *)
(* does: no thread waits for ever on a connection nobody uses.             *)
ThreadsEnd ==
    \A p \in Peers : link[p] \in {"left", "broken", "reset"} ~> thread[p] = "done"

(* server.cpp:71, "any exception of parsing or of a handler is caught and  *)
(* becomes an error response": as long as all connections last, the server *)
(* does too, whatever frames it is sent.                                   *)
ExceptionsCaught == server = "up"
=============================================================================

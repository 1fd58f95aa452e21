-------------------------- MODULE RpcSession_proof --------------------------
(***************************************************************************)
(* Proofs about RPC sessions, for any clients, any other peers and any     *)
(* number of frames: types, and that a call is evaluated at most once and  *)
(* returns the answer of its own evaluation.                               *)
(***************************************************************************)
EXTENDS RpcSession, SequenceTheorems, TLAPS

(* What handle_client holds at each step.                                  *)
StageInv(p) ==
    /\ IF thread[p] \in {"find", "call"} THEN rf[p] \in Frames ELSE rf[p] = None
    /\ IF thread[p] = "send" THEN rsp[p] \in Responses ELSE rsp[p] = None

(* A call in progress is in one place: in the request on its way, in the   *)
(* thread, in the response, or lost with the server.                       *)
Asked(c) == RequestFrame("request", Id(c), calling[c])

Answer(c, s) == [id |-> Id(c), method |-> calling[c], status |-> s]

Nowhere(p) == up[p] = <<>> /\ rf[p] = None /\ rsp[p] = None /\ down[p] = <<>>

OnItsWay(c) ==
    /\ server = "up" /\ ran[c] = None
    /\ up[c] = <<Asked(c)>> /\ rf[c] = None /\ rsp[c] = None /\ down[c] = <<>>

InThread(c) ==
    /\ server = "up" /\ ran[c] = None
    /\ up[c] = <<>> /\ rf[c] = Asked(c) /\ rsp[c] = None /\ down[c] = <<>>

Evaluated(c) ==
    /\ server = "up"
    /\ \E s \in Statuses :
          /\ ran[c] = <<calling[c], s>>
          /\ up[c] = <<>> /\ rf[c] = None /\ rsp[c] = Answer(c, s) /\ down[c] = <<>>

Replied(c) ==
    \E s \in Statuses :
        /\ ran[c] = <<calling[c], s>>
        /\ up[c] = <<>> /\ rf[c] = None /\ rsp[c] = None /\ down[c] = <<Answer(c, s)>>

Lost(c) == server = "dead" /\ Nowhere(c)

Somewhere(c) == OnItsWay(c) \/ InThread(c) \/ Evaluated(c) \/ Replied(c) \/ Lost(c)

CallInv(c) ==
    /\ calling[c] = None => ran[c] = None /\ (link[c] \in {"away", "open"} => Nowhere(c))
    /\ calling[c] # None => link[c] = "open" /\ Somewhere(c)

SessionInv == TypeOK /\ (\A p \in Peers : StageInv(p)) /\ \A c \in Clients : CallInv(c)
-----------------------------------------------------------------------------
LEMMA SessionStart == Init => SessionInv
<1> SUFFICES ASSUME Init PROVE SessionInv
  OBVIOUS
<1>1. TypeOK
  BY SessionAssumption, EmptySeq DEF Init, TypeOK
<1>2. \A p \in Peers : StageInv(p)
  BY DEF Init, StageInv
<1>3. \A c \in Clients : CallInv(c)
  BY DEF Init, CallInv, Nowhere, Peers
<1> QED BY <1>1, <1>2, <1>3 DEF SessionInv

(* A step of one peer or of its thread leaves the other calls alone.       *)
Apart(q) ==
    /\ server' = server
    /\ \A p \in Peers \ {q} :
         /\ thread'[p] = thread[p] /\ rf'[p] = rf[p] /\ rsp'[p] = rsp[p]
         /\ link'[p] = link[p] /\ up'[p] = up[p] /\ down'[p] = down[p]
         /\ nextId'[p] = nextId[p]
    /\ \A c \in Clients \ {q} : calling'[c] = calling[c] /\ ran'[c] = ran[c]

LEMMA OthersKeep ==
    ASSUME SessionInv, NEW q \in Peers, Apart(q), TypeOK', StageInv(q)',
           q \in Clients => CallInv(q)'
    PROVE  SessionInv'
<1>1. ASSUME NEW p \in Peers PROVE StageInv(p)'
  <2>1. CASE p = q
    BY <2>1
  <2>2. CASE p # q
    BY <2>2 DEF SessionInv, Apart, StageInv
  <2> QED BY <2>1, <2>2
<1>2. ASSUME NEW c \in Clients PROVE CallInv(c)'
  <2>1. CASE c = q
    BY <2>1
  <2>2. CASE c # q
    <3>1. /\ server' = server /\ rf'[c] = rf[c] /\ rsp'[c] = rsp[c] /\ link'[c] = link[c]
          /\ up'[c] = up[c] /\ down'[c] = down[c] /\ nextId'[c] = nextId[c]
          /\ calling'[c] = calling[c] /\ ran'[c] = ran[c]
      BY <2>2 DEF Apart, Peers
    <3>2. CallInv(c)
      BY DEF SessionInv
    <3> QED BY <3>1, <3>2 DEF CallInv, Somewhere, OnItsWay, InThread, Evaluated, Replied, Lost,
                              Nowhere, Asked, Answer, Id
  <2> QED BY <2>1, <2>2
<1> QED BY <1>1, <1>2 DEF SessionInv

LEMMA DeathStep == SessionInv /\ ServerDies => SessionInv'
<1> SUFFICES ASSUME SessionInv, ServerDies PROVE SessionInv'
  OBVIOUS
<1>1. TypeOK'
  BY EmptySeq DEF SessionInv, TypeOK, ServerDies, clientVars
<1>2. \A p \in Peers : StageInv(p)'
  BY DEF ServerDies, StageInv
<1>3. ASSUME NEW c \in Clients PROVE CallInv(c)'
  <2>1. c \in Peers /\ CallInv(c)
    BY DEF SessionInv, Peers
  <2>2. /\ server' = "dead" /\ up'[c] = <<>> /\ rf'[c] = None /\ rsp'[c] = None
        /\ UNCHANGED <<link, down, calling, ran, nextId>>
    BY <2>1 DEF ServerDies, clientVars
  <2>3. CASE calling[c] = None
    BY <2>1, <2>2, <2>3 DEF CallInv, Nowhere
  <2>4. CASE calling[c] # None
    <3>1. down[c] = <<>> => Lost(c)'
      BY <2>2 DEF Lost, Nowhere
    <3>2. Replied(c) => Replied(c)'
      BY <2>2 DEF Replied, Answer, Id
    <3>3. Replied(c)' \/ Lost(c)'
      BY <2>1, <2>4, <3>1, <3>2
         DEF CallInv, Somewhere, OnItsWay, InThread, Evaluated, Lost, Nowhere
    <3> QED BY <2>1, <2>2, <2>4, <3>3 DEF CallInv, Somewhere
  <2> QED BY <2>3, <2>4
<1> QED BY <1>1, <1>2, <1>3 DEF SessionInv
-----------------------------------------------------------------------------
LEMMA EvaluationTyped ==
    ASSUME NEW f \in Frames, NEW s \in Statuses
    PROVE  /\ [id |-> f.id, method |-> f.method, status |-> s] \in Responses
           /\ <<f.method, s>> \in Methods \X Statuses
  BY DEF Frames, Responses

(* The response is made: the one step in which a call is evaluated.        *)
LEMMA RespondsStep ==
    ASSUME SessionInv, NEW p \in Peers, NEW s \in Statuses,
           thread[p] \in {"find", "call"}, Responds(p, s)
    PROVE  SessionInv'
<1>1. TypeOK /\ StageInv(p) /\ rf[p] \in Frames /\ rsp[p] = None
  BY DEF SessionInv, StageInv
<1> DEFINE r == [id |-> rf[p].id, method |-> rf[p].method, status |-> s]
<1>2. r \in Responses /\ <<rf[p].method, s>> \in Methods \X Statuses
  BY <1>1, EvaluationTyped
<1>3. /\ rsp' = [rsp EXCEPT ![p] = r] /\ rf' = [rf EXCEPT ![p] = None]
      /\ thread' = [thread EXCEPT ![p] = "send"]
      /\ UNCHANGED <<server, handlers, link, up, down, nextId, calling, last>>
  BY DEF Responds, GoTo, netVars, clientVars
<1> HIDE DEF r
<1>4. /\ p \in Clients /\ calling[p] # None =>
            ran' = [ran EXCEPT ![p] = <<rf[p].method, s>>]
      /\ ~(p \in Clients /\ calling[p] # None) => ran' = ran
  BY <1>1 DEF Responds, TypeOK
<1>5. TypeOK'
  BY <1>1, <1>2, <1>3, <1>4 DEF TypeOK
<1>6. StageInv(p)'
  BY <1>1, <1>2, <1>3 DEF StageInv, TypeOK
<1>7. ASSUME p \in Clients PROVE CallInv(p)'
  <2>1. CallInv(p)
    BY <1>7 DEF SessionInv
  <2>2. CASE calling[p] = None
    <3>1. rf[p] # None \/ link[p] \notin {"away", "open"}
      BY <2>1, <2>2, <1>1, NoneAssumption DEF CallInv, Nowhere
    <3> QED BY <2>1, <2>2, <1>3, <1>4, <3>1 DEF CallInv, Nowhere
  <2>3. CASE calling[p] # None
    <3>1. InThread(p)
      BY <2>1, <2>3, <1>1, NoneAssumption
         DEF CallInv, Somewhere, OnItsWay, Evaluated, Replied, Lost, Nowhere
    <3>2. r = Answer(p, s) /\ rf[p].method = calling[p]
      BY <3>1 DEF InThread, Asked, RequestFrame, Answer, r
    <3>3. ran'[p] = <<calling[p], s>> /\ rsp'[p] = Answer(p, s) /\ rf'[p] = None
      BY <1>1, <1>3, <1>4, <1>7, <2>3, <3>2 DEF TypeOK
    <3>4. Evaluated(p)'
      BY <1>3, <3>1, <3>3 DEF InThread, Evaluated, Answer, Id
    <3> QED BY <1>3, <2>1, <2>3, <3>4 DEF CallInv, Somewhere
  <2> QED BY <2>2, <2>3
<1>8. Apart(p)
  BY <1>1, <1>3, <1>4 DEF Apart, TypeOK
<1> QED BY <1>5, <1>6, <1>7, <1>8, OthersKeep
-----------------------------------------------------------------------------
(* The other steps of a thread move the call on.                           *)
LEMMA RecvFrameStep ==
    ASSUME SessionInv, NEW p \in Peers, RecvFrame(p)
    PROVE  SessionInv'
<1>1. TypeOK /\ StageInv(p) /\ rf[p] = None /\ rsp[p] = None
  BY DEF SessionInv, StageInv, RecvFrame
<1>2. up[p] \in Seq(Frames) /\ up[p] # <<>>
  BY <1>1 DEF TypeOK, RecvFrame
<1>3. Head(up[p]) \in Frames /\ Tail(up[p]) \in Seq(Frames)
  BY <1>2, HeadTailProperties
<1>4. /\ rf' = [rf EXCEPT ![p] = Head(up[p])] /\ up' = [up EXCEPT ![p] = Tail(up[p])]
      /\ thread' = [thread EXCEPT ![p] = "find"]
      /\ UNCHANGED <<server, handlers, rsp, link, down, nextId, calling, last, ran>>
  BY DEF RecvFrame, GoTo, clientVars
<1>5. TypeOK' /\ StageInv(p)' /\ Apart(p)
  BY <1>1, <1>3, <1>4 DEF TypeOK, StageInv, Apart
<1>6. ASSUME p \in Clients PROVE CallInv(p)'
  <2>1. CallInv(p)
    BY <1>6 DEF SessionInv
  <2>2. CASE calling[p] = None
    BY <1>2, <1>4, <2>1, <2>2 DEF CallInv, Nowhere
  <2>3. CASE calling[p] # None
    <3>1. OnItsWay(p)
      BY <1>1, <1>2, <2>1, <2>3, NoneAssumption
         DEF CallInv, Somewhere, InThread, Evaluated, Replied, Lost, Nowhere, Asked
    <3>2. Head(up[p]) = Asked(p) /\ Tail(up[p]) = <<>>
      <4>1. up[p] = <<Asked(p)>>
        BY <3>1 DEF OnItsWay
      <4> QED BY <4>1
    <3>3. rf'[p] = Asked(p) /\ up'[p] = <<>>
      BY <1>1, <1>4, <3>2 DEF TypeOK
    <3>4. InThread(p)'
      BY <1>4, <3>1, <3>3 DEF OnItsWay, InThread, Asked, Id
    <3> QED BY <1>4, <2>1, <2>3, <3>4 DEF CallInv, Somewhere
  <2> QED BY <2>2, <2>3
<1> QED BY <1>5, <1>6, OthersKeep

LEMMA SendResponseStep ==
    ASSUME SessionInv, NEW p \in Peers, SendResponse(p)
    PROVE  SessionInv'
<1>1. TypeOK /\ StageInv(p) /\ rf[p] = None /\ rsp[p] \in Responses
  BY DEF SessionInv, StageInv, SendResponse
<1>2. down[p] \in Seq(Responses) /\ Append(down[p], rsp[p]) \in Seq(Responses)
  BY <1>1, AppendProperties DEF TypeOK
<1>3. /\ rsp' = [rsp EXCEPT ![p] = None] /\ thread' = [thread EXCEPT ![p] = "recv"]
      /\ UNCHANGED <<server, handlers, rf, up, nextId, calling, last, ran>>
      /\ \/ /\ link[p] = "open" /\ UNCHANGED link
            /\ down' = [down EXCEPT ![p] = Append(down[p], rsp[p])]
         \/ /\ link[p] = "left" /\ UNCHANGED down
            /\ link' = [link EXCEPT ![p] = "broken"]
  BY DEF SendResponse, GoTo, clientVars
<1>4. TypeOK' /\ StageInv(p)' /\ Apart(p)
  BY <1>1, <1>2, <1>3 DEF TypeOK, StageInv, Apart
<1>5. ASSUME p \in Clients PROVE CallInv(p)'
  <2>1. CallInv(p) /\ rsp[p] # None
    BY <1>1, <1>5, NoneAssumption DEF SessionInv
  <2>2. CASE calling[p] = None
    <3>1. link[p] \notin {"away", "open"}
      BY <2>1, <2>2 DEF CallInv, Nowhere
    <3>2. link'[p] \notin {"away", "open"}
      BY <1>1, <1>3, <3>1 DEF TypeOK
    <3> QED BY <1>3, <2>1, <2>2, <3>2 DEF CallInv
  <2>3. CASE calling[p] # None
    <3>1. Evaluated(p) /\ link[p] = "open"
      BY <2>1, <2>3 DEF CallInv, Somewhere, OnItsWay, InThread, Replied, Lost, Nowhere
    <3>2. PICK s \in Statuses :
            /\ ran[p] = <<calling[p], s>>
            /\ up[p] = <<>> /\ rsp[p] = Answer(p, s) /\ down[p] = <<>>
      BY <3>1 DEF Evaluated
    <3>3. down'[p] = Append(<<>>, Answer(p, s)) /\ rsp'[p] = None /\ link' = link
      BY <1>1, <1>3, <3>1, <3>2 DEF TypeOK
    <3>4. down'[p] = <<Answer(p, s)>>
      BY <3>3
    <3>5. Replied(p)'
      BY <1>1, <1>3, <3>2, <3>3, <3>4 DEF Replied, Answer, Id
    <3> QED BY <1>3, <2>1, <2>3, <3>3, <3>5 DEF CallInv, Somewhere
  <2> QED BY <2>2, <2>3
<1> QED BY <1>4, <1>5, OthersKeep

LEMMA ThreadStep ==
    ASSUME SessionInv, NEW p \in Peers, Thread(p)
    PROVE  SessionInv'
<1>1. TypeOK /\ StageInv(p) /\ 1 \in Statuses /\ 2 \in Statuses
  BY DEF SessionInv, Statuses
<1>2. CASE RecvJunk(p) \/ RecvDies(p) \/ SendDies(p)
  BY <1>2, DeathStep DEF RecvJunk, RecvDies, SendDies
<1>3. CASE ParseThrows(p) \/ UnknownMethod(p) \/ CallHandler(p)
  BY <1>1, <1>3, RespondsStep DEF ParseThrows, UnknownMethod, CallHandler
<1>4. CASE RecvEnd(p)
  <2>1. /\ thread' = [thread EXCEPT ![p] = "done"] /\ link' = [link EXCEPT ![p] = "gone"]
        /\ UNCHANGED <<server, handlers, rf, rsp, up, down, nextId, calling, last, ran>>
        /\ thread[p] = "recv" /\ link[p] \in {"left", "broken"}
    BY <1>4 DEF RecvEnd, GoTo, clientVars
  <2>2. TypeOK' /\ StageInv(p)' /\ Apart(p)
    BY <1>1, <2>1 DEF TypeOK, StageInv, Apart
  <2>3. p \in Clients => CallInv(p)'
    BY <1>1, <2>1 DEF SessionInv, CallInv, TypeOK
  <2> QED BY <2>2, <2>3, OthersKeep
<1>5. CASE SkipFrame(p)
  <2>1. /\ rf' = [rf EXCEPT ![p] = None] /\ thread' = [thread EXCEPT ![p] = "recv"]
        /\ UNCHANGED <<server, handlers, rsp, link, up, down, nextId, calling, last, ran>>
        /\ thread[p] = "find" /\ rf[p].kind = "other"
    BY <1>5 DEF SkipFrame, GoTo, clientVars, netVars
  <2>2. TypeOK' /\ StageInv(p)' /\ Apart(p)
    BY <1>1, <2>1 DEF TypeOK, StageInv, Apart
  <2>3. ASSUME p \in Clients PROVE CallInv(p)'
    <3>1. CallInv(p) /\ rf[p] # None
      BY <1>1, <2>1, <2>3, NoneAssumption DEF SessionInv, StageInv
    <3>2. calling[p] = None
      BY <2>1, <3>1 DEF CallInv, Somewhere, OnItsWay, InThread, Evaluated, Replied, Lost,
                        Nowhere, Asked, RequestFrame
    <3> QED BY <2>1, <3>1, <3>2 DEF CallInv, Nowhere
  <2> QED BY <2>2, <2>3, OthersKeep
<1>6. CASE FindHandler(p)
  <2>1. /\ thread' = [thread EXCEPT ![p] = "call"] /\ thread[p] = "find"
        /\ UNCHANGED <<server, handlers, rf, rsp, link, up, down, nextId, calling, last, ran>>
    BY <1>6 DEF FindHandler, GoTo, clientVars, netVars
  <2>2. TypeOK' /\ StageInv(p)' /\ Apart(p)
    BY <1>1, <2>1 DEF TypeOK, StageInv, Apart
  <2>3. p \in Clients => CallInv(p)'
    BY <2>1 DEF SessionInv, CallInv, Somewhere, OnItsWay, InThread, Evaluated, Replied, Lost,
                Nowhere, Asked, Answer, Id
  <2> QED BY <2>2, <2>3, OthersKeep
<1> QED BY <1>2, <1>3, <1>4, <1>5, <1>6, RecvFrameStep, SendResponseStep DEF Thread
-----------------------------------------------------------------------------
(* The peers.                                                              *)

(* A frame goes out, or is lost because the server is dead.                *)
LEMMA SendsTyped ==
    ASSUME TypeOK, NEW p \in Peers, NEW kind \in Kinds, NEW m \in Methods,
           Sends(p, RequestFrame(kind, nextId[p], m))
    PROVE  /\ nextId' \in [Peers -> 1 .. MaxFrames + 1] /\ nextId'[p] = nextId[p] + 1
           /\ up' \in [Peers -> Seq(Frames)]
           /\ \A q \in Peers \ {p} : up'[q] = up[q] /\ nextId'[q] = nextId[q]
           /\ up'[p] = IF server = "up" THEN Append(up[p], RequestFrame(kind, nextId[p], m))
                                        ELSE up[p]
           /\ UNCHANGED <<server, handlers, thread, rf, rsp, link, down, last>>
<1> DEFINE f == RequestFrame(kind, nextId[p], m)
<1>1. nextId[p] \in 1 .. MaxFrames + 1 /\ nextId[p] <= MaxFrames /\ MaxFrames \in Nat
  BY SessionAssumption DEF TypeOK, Sends
<1>2. f \in Frames
  BY <1>1 DEF Frames, RequestFrame
<1>3. up[p] \in Seq(Frames) /\ Append(up[p], f) \in Seq(Frames)
  BY <1>2, AppendProperties DEF TypeOK
<1>4. /\ nextId' = [nextId EXCEPT ![p] = @ + 1]
      /\ up' = [up EXCEPT ![p] = IF server = "up" THEN Append(@, f) ELSE @]
      /\ UNCHANGED <<server, handlers, thread, rf, rsp, link, down, last>>
  BY DEF Sends, serverVars
<1>5. nextId[p] + 1 \in 1 .. MaxFrames + 1
  BY <1>1
<1> HIDE DEF f
<1>6. nextId' \in [Peers -> 1 .. MaxFrames + 1] /\ nextId'[p] = nextId[p] + 1
  BY <1>4, <1>5 DEF TypeOK
<1>7. up' \in [Peers -> Seq(Frames)]
  BY <1>3, <1>4 DEF TypeOK
<1>8. up'[p] = IF server = "up" THEN Append(up[p], f) ELSE up[p]
  BY <1>4 DEF TypeOK
<1>9. \A q \in Peers \ {p} : up'[q] = up[q] /\ nextId'[q] = nextId[q]
  BY <1>4 DEF TypeOK
<1> QED BY <1>4, <1>6, <1>7, <1>8, <1>9 DEF f

LEMMA CallStep ==
    ASSUME SessionInv, NEW c \in Clients, NEW m \in Methods, Call(c, m)
    PROVE  SessionInv'
<1>1. TypeOK /\ c \in Peers /\ CallInv(c) /\ StageInv(c) /\ "request" \in Kinds
  BY DEF SessionInv, Peers, Kinds
<1>2. /\ calling[c] = None /\ link[c] = "open"
      /\ Sends(c, RequestFrame("request", nextId[c], m))
      /\ calling' = [calling EXCEPT ![c] = m] /\ ran' = [ran EXCEPT ![c] = None]
  BY DEF Call, Sends
<1>3. /\ nextId' \in [Peers -> 1 .. MaxFrames + 1] /\ nextId'[c] = nextId[c] + 1
      /\ up' \in [Peers -> Seq(Frames)]
      /\ \A q \in Peers \ {c} : up'[q] = up[q] /\ nextId'[q] = nextId[q]
      /\ up'[c] = IF server = "up" THEN Append(up[c], RequestFrame("request", nextId[c], m))
                                   ELSE up[c]
      /\ UNCHANGED <<server, handlers, thread, rf, rsp, link, down, last>>
  BY <1>1, <1>2, SendsTyped
<1>4. TypeOK' /\ StageInv(c)' /\ Apart(c)
  BY <1>1, <1>2, <1>3 DEF TypeOK, StageInv, Apart
<1>5. Nowhere(c)
  BY <1>1, <1>2 DEF CallInv
<1>6. calling'[c] = m /\ ran'[c] = None /\ m # None
  BY <1>1, <1>2, SessionAssumption DEF TypeOK
<1>7. Id(c)' = nextId[c]
  BY <1>1, <1>3 DEF Id, TypeOK
<1>8. CASE server = "up"
  <2>1. up'[c] = <<RequestFrame("request", nextId[c], m)>>
    BY <1>3, <1>5, <1>8 DEF Nowhere
  <2>2. OnItsWay(c)'
    BY <1>3, <1>5, <1>6, <1>7, <1>8, <2>1 DEF Nowhere, OnItsWay, Asked
  <2> QED BY <1>1, <1>2, <1>3, <1>4, <1>6, <2>2, OthersKeep DEF CallInv, Somewhere
<1>9. CASE server # "up"
  <2>1. server = "dead"
    BY <1>1, <1>9 DEF TypeOK
  <2>2. Lost(c)'
    BY <1>3, <1>5, <2>1 DEF Nowhere, Lost
  <2> QED BY <1>1, <1>2, <1>3, <1>4, <1>6, <2>2, OthersKeep DEF CallInv, Somewhere
<1> QED BY <1>8, <1>9

LEMMA SendOtherStep ==
    ASSUME SessionInv, NEW p \in Peers, NEW kind \in Kinds, NEW m \in Methods,
           SendOther(p, kind, m)
    PROVE  SessionInv'
<1>1. TypeOK /\ StageInv(p) /\ p \notin Clients
  BY SessionAssumption DEF SessionInv, SendOther
<1>2. /\ nextId' \in [Peers -> 1 .. MaxFrames + 1] /\ up' \in [Peers -> Seq(Frames)]
      /\ \A q \in Peers \ {p} : up'[q] = up[q] /\ nextId'[q] = nextId[q]
      /\ UNCHANGED <<server, handlers, thread, rf, rsp, link, down, last>>
  BY <1>1, SendsTyped DEF SendOther
<1>3. TypeOK' /\ StageInv(p)' /\ Apart(p)
  BY <1>1, <1>2 DEF TypeOK, StageInv, Apart, SendOther
<1> QED BY <1>1, <1>3, OthersKeep

(* A call ends; nothing of it is left where a later call could find it,    *)
(* unless the connection is gone.                                          *)
LEMMA EndsStep ==
    ASSUME SessionInv, NEW c \in Clients,
           NEW o \in (Methods \X Statuses) \cup {<<"failed">>}, Ends(c, o),
           link' \in [Peers -> {"away", "open", "left", "broken", "reset", "gone"}],
           down' \in [Peers -> Seq(Responses)],
           \A q \in Peers \ {c} : link'[q] = link[q] /\ down'[q] = down[q],
           \/ link'[c] \notin {"away", "open"}
           \/ up[c] = <<>> /\ rf[c] = None /\ rsp[c] = None /\ down'[c] = <<>>
    PROVE  SessionInv'
<1>1. TypeOK /\ StageInv(c) /\ c \in Peers
  BY DEF SessionInv, Peers
<1>2. /\ calling' = [calling EXCEPT ![c] = None] /\ ran' = [ran EXCEPT ![c] = None]
      /\ last' = [last EXCEPT ![c] = o]
      /\ UNCHANGED <<server, handlers, thread, rf, rsp, nextId, up>>
  BY DEF Ends, serverVars
<1>3. TypeOK' /\ StageInv(c)' /\ Apart(c)
  BY <1>1, <1>2 DEF TypeOK, StageInv, Apart
<1>4. CallInv(c)'
  BY <1>1, <1>2 DEF CallInv, Nowhere, TypeOK
<1> QED BY <1>1, <1>3, <1>4, OthersKeep

(* What a reply says is what the evaluation of this call answered.         *)
LEMMA OwnReply ==
    ASSUME SessionInv, NEW c \in Clients, CallReturns(c)
    PROVE  /\ Replied(c) /\ ran[c] \in Methods \X Statuses
           /\ Ends(c, ran[c])
           /\ down' = [down EXCEPT ![c] = <<>>] /\ link' = link
<1>1. CallInv(c) /\ calling[c] # None /\ TypeOK /\ c \in Peers
  BY DEF SessionInv, CallReturns, Peers
<1>2. PICK i \in DOMAIN down[c] :
        /\ down' = [down EXCEPT ![c] = SubSeq(down[c], i + 1, Len(down[c]))]
        /\ Ends(c, <<down[c][i].method, down[c][i].status>>)
  BY DEF CallReturns
<1>3. Replied(c)
  <2>1. down[c] # <<>>
    BY <1>2
  <2> QED BY <1>1, <2>1 DEF CallInv, Somewhere, OnItsWay, InThread, Evaluated, Lost, Nowhere
<1>4. PICK s \in Statuses : ran[c] = <<calling[c], s>> /\ down[c] = <<Answer(c, s)>>
  BY <1>3 DEF Replied
<1>5. Len(down[c]) = 1 /\ i = 1 /\ down[c][i] = Answer(c, s)
  BY <1>2, <1>4
<1>6. SubSeq(down[c], i + 1, Len(down[c])) = <<>>
  BY <1>4, <1>5
<1>7. <<down[c][i].method, down[c][i].status>> = ran[c]
  BY <1>4, <1>5 DEF Answer
<1>8. ran[c] \in Methods \X Statuses
  BY <1>1, <1>4 DEF TypeOK
<1> QED BY <1>2, <1>3, <1>6, <1>7, <1>8 DEF CallReturns

LEMMA CallEnds ==
    ASSUME SessionInv, NEW c \in Clients,
           CallReturns(c) \/ CallThrows(c) \/ CallDies(c)
    PROVE  SessionInv'
<1>1. TypeOK /\ c \in Peers /\ calling[c] # None /\ CallInv(c) /\ <<>> \in Seq(Responses)
  BY EmptySeq DEF SessionInv, Peers, CallReturns, CallThrows, CallDies
<1>2. CASE CallReturns(c)
  <2>1. /\ Replied(c) /\ ran[c] \in Methods \X Statuses /\ Ends(c, ran[c])
        /\ down' = [down EXCEPT ![c] = <<>>] /\ link' = link
    BY <1>2, OwnReply
  <2>2. up[c] = <<>> /\ rf[c] = None /\ rsp[c] = None
    BY <2>1 DEF Replied
  <2>3. /\ down' \in [Peers -> Seq(Responses)] /\ down'[c] = <<>>
        /\ \A q \in Peers \ {c} : link'[q] = link[q] /\ down'[q] = down[q]
        /\ link' \in [Peers -> {"away", "open", "left", "broken", "reset", "gone"}]
    BY <1>1, <2>1 DEF TypeOK
  <2> QED BY <2>1, <2>2, <2>3, EndsStep
<1>3. CASE CallThrows(c)
  <2>1. /\ server = "dead" /\ Ends(c, <<"failed">>)
        /\ \A i \in DOMAIN down[c] : down[c][i].id # Id(c)
        /\ down' = [down EXCEPT ![c] = <<>>] /\ link' = link
    BY <1>3 DEF CallThrows
  <2>2. ~Replied(c)
    <3>1. ASSUME NEW s, down[c] = <<Answer(c, s)>> PROVE FALSE
      <4>1. 1 \in DOMAIN down[c] /\ down[c][1] = Answer(c, s)
        BY <3>1
      <4> QED BY <2>1, <4>1 DEF Answer
    <3> QED BY <3>1 DEF Replied
  <2>3. Lost(c)
    BY <1>1, <2>1, <2>2 DEF CallInv, Somewhere, OnItsWay, InThread, Evaluated
  <2>4. up[c] = <<>> /\ rf[c] = None /\ rsp[c] = None
    BY <2>3 DEF Lost, Nowhere
  <2>5. /\ down' \in [Peers -> Seq(Responses)] /\ down'[c] = <<>>
        /\ \A q \in Peers \ {c} : link'[q] = link[q] /\ down'[q] = down[q]
        /\ link' \in [Peers -> {"away", "open", "left", "broken", "reset", "gone"}]
    BY <1>1, <2>1 DEF TypeOK
  <2> QED BY <2>1, <2>4, <2>5, EndsStep
<1>4. CASE CallDies(c)
  <2>1. /\ Ends(c, <<"failed">>) /\ link' = [link EXCEPT ![c] = "gone"]
        /\ down' = [down EXCEPT ![c] = <<>>]
    BY <1>4 DEF CallDies
  <2>2. /\ down' \in [Peers -> Seq(Responses)] /\ link'[c] \notin {"away", "open"}
        /\ \A q \in Peers \ {c} : link'[q] = link[q] /\ down'[q] = down[q]
        /\ link' \in [Peers -> {"away", "open", "left", "broken", "reset", "gone"}]
    BY <1>1, <2>1 DEF TypeOK
  <2> QED BY <2>1, <2>2, EndsStep
<1> QED BY <1>2, <1>3, <1>4
-----------------------------------------------------------------------------
LEMMA ServeStep ==
    ASSUME SessionInv, NEW p \in Peers, Serve(p)
    PROVE  SessionInv'
<1>1. TypeOK /\ StageInv(p) /\ thread[p] = "none"
  BY DEF SessionInv, Serve
<1>2. /\ thread' = [thread EXCEPT ![p] = "recv"]
      /\ UNCHANGED <<server, handlers, rf, rsp, link, up, down, nextId, calling, last, ran>>
  BY DEF Serve, netVars, clientVars
<1>3. TypeOK' /\ StageInv(p)' /\ Apart(p)
  BY <1>1, <1>2 DEF TypeOK, StageInv, Apart
<1>4. p \in Clients => CallInv(p)'
  BY <1>2 DEF SessionInv, CallInv, Somewhere, OnItsWay, InThread, Evaluated, Replied, Lost,
              Nowhere, Asked, Answer, Id
<1> QED BY <1>3, <1>4, OthersKeep

LEMMA ConnectStep ==
    ASSUME SessionInv, NEW p \in Peers, Connect(p)
    PROVE  SessionInv'
<1>1. TypeOK /\ StageInv(p) /\ link[p] = "away"
  BY DEF SessionInv, Connect
<1>2. /\ link' = [link EXCEPT ![p] = "open"]
      /\ UNCHANGED <<server, handlers, thread, rf, rsp, up, down, nextId, calling, last, ran>>
  BY DEF Connect, serverVars, clientVars
<1>3. TypeOK' /\ StageInv(p)' /\ Apart(p)
  BY <1>1, <1>2 DEF TypeOK, StageInv, Apart
<1>4. p \in Clients => calling[p] = None /\ CallInv(p)
  BY <1>1 DEF SessionInv, CallInv
<1>5. p \in Clients => CallInv(p)'
  BY <1>1, <1>2, <1>4 DEF CallInv, Nowhere
<1> QED BY <1>3, <1>5, OthersKeep

LEMMA LeaveStep ==
    ASSUME SessionInv, NEW p \in Peers, Leave(p)
    PROVE  SessionInv'
<1>1. TypeOK /\ StageInv(p) /\ <<>> \in Seq(Responses)
  BY EmptySeq DEF SessionInv
<1>2. /\ link' \in [Peers -> {"away", "open", "left", "broken", "reset", "gone"}]
      /\ link'[p] \notin {"away", "open"}
      /\ down' \in [Peers -> Seq(Responses)]
      /\ \A q \in Peers \ {p} : link'[q] = link[q] /\ down'[q] = down[q]
  BY <1>1 DEF Leave, TypeOK
<1>3. CASE p \in Clients /\ calling[p] # None
  BY <1>2, <1>3, EndsStep DEF Leave
<1>4. CASE ~(p \in Clients /\ calling[p] # None)
  <2>1. UNCHANGED <<server, handlers, thread, rf, rsp, up, nextId, calling, last, ran>>
    BY <1>4 DEF Leave, serverVars, clientVars
  <2>2. TypeOK' /\ StageInv(p)' /\ Apart(p)
    BY <1>1, <1>2, <2>1 DEF TypeOK, StageInv, Apart
  <2>3. p \in Clients => CallInv(p)'
    BY <1>2, <1>4, <2>1 DEF SessionInv, CallInv
  <2> QED BY <2>2, <2>3, OthersKeep
<1> QED BY <1>3, <1>4

LEMMA RegisterStep ==
    ASSUME SessionInv, NEW m \in Methods, RegisterMethod(m)
    PROVE  SessionInv'
<1>1. /\ handlers' = handlers \cup {m}
      /\ UNCHANGED <<server, thread, rf, rsp, link, up, down, nextId, calling, last, ran>>
  BY DEF RegisterMethod, netVars, clientVars
<1>2. TypeOK'
  BY <1>1 DEF SessionInv, TypeOK
<1>3. \A p \in Peers : StageInv(p)'
  BY <1>1 DEF SessionInv, StageInv
<1>4. \A c \in Clients : CallInv(c)'
  BY <1>1 DEF SessionInv, CallInv, Somewhere, OnItsWay, InThread, Evaluated, Replied, Lost,
              Nowhere, Asked, Answer, Id
<1> QED BY <1>2, <1>3, <1>4 DEF SessionInv

LEMMA SessionStep == SessionInv /\ [Next]_vars => SessionInv'
<1> SUFFICES ASSUME SessionInv, [Next]_vars PROVE SessionInv'
  OBVIOUS
<1>1. CASE UNCHANGED vars
  <2>1. UNCHANGED <<server, handlers, thread, rf, rsp, link, up, down, nextId, calling, last, ran>>
    BY <1>1 DEF vars, serverVars, netVars, clientVars
  <2>2. TypeOK'
    BY <2>1 DEF SessionInv, TypeOK
  <2>3. \A p \in Peers : StageInv(p)'
    BY <2>1 DEF SessionInv, StageInv
  <2>4. \A c \in Clients : CallInv(c)'
    BY <2>1 DEF SessionInv, CallInv, Somewhere, OnItsWay, InThread, Evaluated, Replied, Lost,
                Nowhere, Asked, Answer, Id
  <2> QED BY <2>2, <2>3, <2>4 DEF SessionInv
<1>2. ASSUME NEW m \in Methods, RegisterMethod(m) PROVE SessionInv'
  BY <1>2, RegisterStep
<1>3. ASSUME NEW p \in Peers,
             Serve(p) \/ Thread(p) \/ Connect(p) \/ Leave(p)
             \/ \E kind \in Kinds, m \in Methods : SendOther(p, kind, m)
      PROVE  SessionInv'
  BY <1>3, ServeStep, ThreadStep, ConnectStep, LeaveStep, SendOtherStep
<1>4. ASSUME NEW c \in Clients,
             CallReturns(c) \/ CallThrows(c) \/ CallDies(c) \/ \E m \in Methods : Call(c, m)
      PROVE  SessionInv'
  BY <1>4, CallEnds, CallStep
<1> QED BY <1>1, <1>2, <1>3, <1>4 DEF Next
-----------------------------------------------------------------------------
(* Throughout a session, a call in progress is in exactly the state that   *)
(* where its request, its response and its thread are says it is in.       *)
THEOREM SessionInvariant == Spec => []SessionInv
<1> QED BY SessionStart, SessionStep, PTL DEF Spec

(* Every variable of server, connections and clients stays in its type:    *)
(* what handle_client answers is a response of the protocol.               *)
THEOREM RpcTypeCorrect == Spec => []TypeOK
<1>1. SessionInv => TypeOK
  BY DEF SessionInv
<1> QED BY <1>1, SessionInvariant, PTL
-----------------------------------------------------------------------------
(* Every step of a session is a step of RpcCalls, or changes nothing that  *)
(* a caller sees.                                                          *)
LEMMA EndsIsEnds ==
    ASSUME NEW c \in Clients, NEW o, calling[c] # None, Ends(c, o)
    PROVE  Abstract!Ends(c, o)
  BY DEF Ends, Abstract!Ends

LEMMA PeerRefines ==
    ASSUME SessionInv, NEW p \in Peers,
           Serve(p) \/ Thread(p) \/ Connect(p) \/ Leave(p)
           \/ \E kind \in Kinds, m \in Methods : SendOther(p, kind, m)
    PROVE  Abstract!Next \/ UNCHANGED Abstract!callVars
<1>1. ASSUME NEW s \in Statuses, thread[p] \in {"find", "call"}, Responds(p, s)
      PROVE  Abstract!Next \/ UNCHANGED Abstract!callVars
  <2>1. CASE p \in Clients /\ calling[p] # None
    <3>1. rf[p] # None /\ CallInv(p) /\ TypeOK
      BY <1>1, <2>1, NoneAssumption DEF SessionInv, StageInv
    <3>2. InThread(p)
      BY <2>1, <3>1 DEF CallInv, Somewhere, OnItsWay, Evaluated, Replied, Lost, Nowhere
    <3>3. ran[p] = None /\ rf[p].method = calling[p]
      BY <3>2 DEF InThread, Asked, RequestFrame
    <3>4. ran' = [ran EXCEPT ![p] = <<calling[p], s>>] /\ UNCHANGED <<calling, last>>
      BY <1>1, <2>1, <3>1, <3>3 DEF Responds, TypeOK, clientVars
    <3>5. Abstract!Evaluate(p, s)
      BY <2>1, <3>3, <3>4 DEF Abstract!Evaluate
    <3> QED BY <2>1, <3>5 DEF Abstract!Next
  <2>2. CASE ~(p \in Clients /\ calling[p] # None)
    <3>1. UNCHANGED <<calling, ran, last>>
      BY <1>1, <2>2 DEF Responds, SessionInv, TypeOK, clientVars
    <3> QED BY <3>1 DEF Abstract!callVars
  <2> QED BY <2>1, <2>2
<1>2. CASE ParseThrows(p) \/ UnknownMethod(p) \/ CallHandler(p)
  <2>1. 1 \in Statuses /\ 2 \in Statuses
    BY DEF Statuses
  <2> QED BY <1>1, <1>2, <2>1 DEF ParseThrows, UnknownMethod, CallHandler
<1>3. CASE \/ RecvFrame(p) \/ RecvJunk(p) \/ RecvEnd(p) \/ RecvDies(p)
           \/ SkipFrame(p) \/ FindHandler(p) \/ SendResponse(p) \/ SendDies(p)
           \/ Serve(p) \/ Connect(p)
  BY <1>3 DEF RecvFrame, RecvJunk, RecvEnd, RecvDies, SkipFrame, FindHandler, SendResponse,
              SendDies, ServerDies, Serve, Connect, clientVars, Abstract!callVars
<1>4. CASE \E kind \in Kinds, m \in Methods : SendOther(p, kind, m)
  BY <1>4 DEF SendOther, Sends, Abstract!callVars
<1>5. CASE Leave(p)
  <2>1. CASE p \in Clients /\ calling[p] # None
    <3>1. Abstract!Ends(p, <<"failed">>)
      BY <1>5, <2>1, EndsIsEnds DEF Leave
    <3> QED BY <2>1, <3>1 DEF Abstract!Next, Abstract!Finish, Abstract!Fail
  <2>2. CASE ~(p \in Clients /\ calling[p] # None)
    BY <1>5, <2>2 DEF Leave, clientVars, Abstract!callVars
  <2> QED BY <2>1, <2>2
<1>6. CASE Thread(p)
  BY <1>2, <1>3, <1>6 DEF Thread
<1> QED BY <1>3, <1>4, <1>5, <1>6

LEMMA ClientRefines ==
    ASSUME SessionInv, NEW c \in Clients,
           CallReturns(c) \/ CallThrows(c) \/ CallDies(c) \/ \E m \in Methods : Call(c, m)
    PROVE  Abstract!Next \/ UNCHANGED Abstract!callVars
<1>1. TypeOK /\ CallInv(c)
  BY DEF SessionInv
<1>2. CASE CallReturns(c)
  <2>1. ran[c] # None /\ calling[c] # None /\ Ends(c, ran[c])
    BY <1>2, OwnReply, NoneAssumption DEF CallReturns
  <2>2. Abstract!Return(c)
    BY <2>1, EndsIsEnds DEF Abstract!Return
  <2> QED BY <2>2 DEF Abstract!Next, Abstract!Finish
<1>3. CASE CallThrows(c) \/ CallDies(c)
  <2>1. Abstract!Ends(c, <<"failed">>)
    BY <1>3, EndsIsEnds DEF CallThrows, CallDies
  <2> QED BY <2>1 DEF Abstract!Next, Abstract!Finish, Abstract!Fail
<1>4. ASSUME NEW m \in Methods, Call(c, m) PROVE Abstract!Next
  <2>1. calling[c] = None /\ ran[c] = None
    BY <1>1, <1>4 DEF Call, CallInv
  <2>2. ran' = ran /\ last' = last /\ calling' = [calling EXCEPT ![c] = m]
    BY <1>1, <1>4, <2>1 DEF Call, Sends, TypeOK
  <2>3. Abstract!Invoke(c, m)
    BY <2>1, <2>2 DEF Abstract!Invoke
  <2> QED BY <2>3 DEF Abstract!Next
<1> QED BY <1>2, <1>3, <1>4

LEMMA StepRefines == SessionInv /\ [Next]_vars => [Abstract!Next]_(Abstract!callVars)
<1> SUFFICES ASSUME SessionInv, [Next]_vars
             PROVE  Abstract!Next \/ UNCHANGED Abstract!callVars
  OBVIOUS
<1>1. CASE UNCHANGED vars
  BY <1>1 DEF vars, clientVars, Abstract!callVars
<1>2. ASSUME NEW m \in Methods, RegisterMethod(m) PROVE UNCHANGED Abstract!callVars
  BY <1>2 DEF RegisterMethod, clientVars, Abstract!callVars
<1> QED BY <1>1, <1>2, PeerRefines, ClientRefines DEF Next

(* The safety of RpcCalls: a call is evaluated at most once, and what call *)
(* returns is the answer of that evaluation, of this call and no other.    *)
THEOREM CallsOnce == Spec => Abstract!Init /\ [][Abstract!Next]_(Abstract!callVars)
<1>1. Init => Abstract!Init
  BY DEF Init, Abstract!Init
<1> QED BY <1>1, StepRefines, SessionInvariant, PTL DEF Spec
=============================================================================

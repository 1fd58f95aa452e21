----------------------------- MODULE MCRpcWire ------------------------------
(* Bytes have four values: u16 counts to 15, u32 to 255, int64 from -32768 *)
(* to 32767.  The values are the corners of these types, an empty and a    *)
(* short string; the strange frames are every change of one body byte of   *)
(* one request.                                                            *)
EXTENDS RpcWire

FourBytes == <<2, 0, 3, 1>>

Request(id, method, args) ==
    [type |-> REQUEST, req_id |-> id, method |-> method, args |-> args]

Response(id, status, err, has, val) ==
    [type |-> RESPONSE, req_id |-> id, status |-> status, err_msg |-> err,
     has_result |-> has, result |-> val]

SomeMessages ==
    { Request(1, <<3>>, <<>>),
      Request(255, <<2>>, <<MakeInt(-1), MakeStr(<<>>)>>),
      Response(1, 0, <<>>, TRUE, MakeInt(-32768)),
      Response(2, 15, <<1>>, FALSE, MakeInt(0)) }

Changed(frame) ==
    {[frame EXCEPT ![i] = b] : i \in 5 .. Len(frame), b \in Byte} \ {frame}

OneByteOff == Changed(Build(Request(1, <<3>>, <<MakeStr(<<2>>)>>)))
=============================================================================

----------------------------- MODULE DeviceProto -----------------------------
(***************************************************************************)
(* The wire format (src/pkg/deviceproto): the header of a message, and the *)
(* REST-like bodies.  A byte is a number, an integer of Go is reduced to   *)
(* its width.  What a body carries as data is a number of bytes, so that a *)
(* body is its leading bytes and the length of its data:                   *)
(*   [head |-> <<byte, ...>>, data |-> length]                             *)
(* and a buffer handed to an encoder is its length.  An operator that may  *)
(* return an error returns the set of its results, which is then empty.    *)
(***************************************************************************)
EXTENDS Naturals, Sequences

\* The numbers of 16 and of 32 bits.
U16 == {n \in Nat : n < 65536}
U32 == {n \in Nat : n \div 16777216 < 256}

UInt16(n) == n % 65536

\* The bytes of a number of 32 bits, of which 16 bits have the last two, and back.
Top(n) == (n \div 16777216) % 256
Second(n) == (n \div 65536) % 256
High(n) == (n \div 256) % 256
Low(n) == n % 256
Num2(a, b) == 256 * a + b
Num4(a, b, c, d) == 256 * (256 * (256 * a + b) + c) + d

MsgType_DeviceVerifyReq == 1
MsgType_DeviceVerifyResp == 2
MsgType_DevicePingReq == 3
MsgType_DevicePingResp == 4
MsgType_DeviceSendReq == 5
MsgType_DeviceSendResp == 6
MsgType_ServerSendReq == 7
MsgType_ServerSendResp == 8

Code_Success == 1
Code_VerifyFail == 3
Code_ParaInvalid == 4
Code_LengthErr == 5

HeaderLen == 5
Version == 0
DeviceIDLen == 36
DeviceSecretLenMin == 24
DeviceSecretLenMax == 64

capLevelToSize == <<512, 1024, 2048, 4096>>
GetCapSize(level) == IF level > 3 THEN {} ELSE {capLevelToSize[level + 1]}

-----------------------------------------------------------------------------
(* The header.                                                              *)

\* (h.Version << 3) & 0x80: the mask takes the wrong bit, a version of 1 is lost.
EncodeHeader(h) ==
  <<(((h.type % 16) * 16) + ((h.version \div 16) % 2) * 128 + (h.code % 8)) % 256,
    High(h.id), Low(h.id), High(h.bodyLen), Low(h.bodyLen)>>

\* Mutant: the two bytes of the id are swapped.
DecodeHeader_SwapsID(b) ==
  {h \in {[type |-> b[1] \div 16, version |-> (b[1] \div 8) % 2, code |-> b[1] % 8,
           id |-> Num2(b[3], b[2]), bodyLen |-> Num2(b[4], b[5])]} :
     h.bodyLen <= 4096}

DecodeHeader(b) ==
  {h \in {[type |-> b[1] \div 16, version |-> (b[1] \div 8) % 2, code |-> b[1] % 8,
           id |-> Num2(b[2], b[3]), bodyLen |-> Num2(b[4], b[5])]} :
     h.bodyLen <= 4096}

HeaderOf(type, id, bodyLen, code) ==
  [type |-> type, version |-> Version, id |-> id, bodyLen |-> bodyLen, code |-> code]

-----------------------------------------------------------------------------
(* Verification and ping.  The text of a verification is not spelled out:   *)
(* v says that its id has idLen bytes and its secret secretLen, and colon   *)
(* that the id has a ':' of its own.                                        *)

BodyLenVerify(v) == 1 + v.idLen + 1 + v.secretLen

\* The parts are not looked at one by one.
EncodeVerifyReq(v) ==
  IF BodyLenVerify(v) \in 1 + DeviceIDLen + 1 + DeviceSecretLenMin
                          .. 1 + DeviceIDLen + 1 + DeviceSecretLenMax
  THEN {[header |-> EncodeHeader(HeaderOf(MsgType_DeviceVerifyReq, v.id, BodyLenVerify(v), 0)),
         head |-> <<(v.capLevel % 4) * 64>>, data |-> BodyLenVerify(v) - 1]}
  ELSE {}

\* The first ':' of the body ends the id.
DecodeVerifyReqBody(h, body, v) ==
  IF /\ h.bodyLen \in DeviceIDLen + DeviceSecretLenMin + 1
                      .. 1 + DeviceIDLen + 1 + DeviceSecretLenMax
     /\ ~v.colon /\ v.idLen = DeviceIDLen
     /\ v.secretLen \in DeviceSecretLenMin .. DeviceSecretLenMax
  THEN {[v EXCEPT !.capLevel = body.head[1] \div 64]}
  ELSE {}

\* A timeout of 0 is a ping without a body.
EncodePingReq(id, timeout) ==
  LET body == IF timeout = 0 THEN <<>> ELSE <<High(timeout), Low(timeout)>> IN
  [header |-> EncodeHeader(HeaderOf(MsgType_DevicePingReq, id, Len(body), 0)),
   head |-> body, data |-> 0]

\* Any other length is ErrLengthError.
DecodePingReqBody(h, body) ==
  IF h.bodyLen = 0 THEN {0}
  ELSE IF h.bodyLen = 2 THEN {Num2(body.head[1], body.head[2])} ELSE {}

EncodeVerifyResp(id, code) ==
  [header |-> EncodeHeader(HeaderOf(MsgType_DeviceVerifyResp, id, 0, code)),
   head |-> <<>>, data |-> 0]
EncodePingResp(id, code) ==
  [header |-> EncodeHeader(HeaderOf(MsgType_DevicePingResp, id, 0, code)),
   head |-> <<>>, data |-> 0]

-----------------------------------------------------------------------------
(* The REST-like bodies.                                                    *)

Method_ConstrainedGet == 1
Method_ConstrainedPost == 2
Method_ObservedGet == 3

HeaderLen_RestMin == 1
HeaderLen_CoReq == 5
HeaderLen_CoResp == 1
HeaderLen_ObGetEstabReq == 7
HeaderLen_ObGetEstabResp == 3
HeaderLen_ObGetNotifyReq == 3
HeaderLen_ObGetNotifyResp == 3

BodySize(body) == Len(body.head) + body.data

\* A body is written only into a buffer with room for it.
Into(size, body) == IF size < BodySize(body) THEN {} ELSE {body}

\* The first byte of a body: four bits of method and four of status.
First(m) == (m.method % 16) * 16 + (m.code % 16)

DecodeMethod(body) ==
  IF BodySize(body) < HeaderLen_RestMin THEN {} ELSE {body.head[1] \div 16}

EncodeCoReq(req, size) ==
  Into(size, [head |-> <<(req.method % 16) * 16, Top(req.uri), Second(req.uri), High(req.uri),
                         Low(req.uri)>>,
              data |-> req.data])
DecodeCoReq(id, body) ==
  IF BodySize(body) < HeaderLen_CoReq THEN {}
  ELSE {[id |-> id, method |-> body.head[1] \div 16,
         uri |-> Num4(body.head[2], body.head[3], body.head[4], body.head[5]),
         data |-> body.data]}

EncodeCoResp(resp, size) == Into(size, [head |-> <<First(resp)>>, data |-> resp.data])
DecodeCoResp(id, body) ==
  IF BodySize(body) < HeaderLen_CoResp THEN {}
  ELSE {[id |-> id, method |-> body.head[1] \div 16, code |-> body.head[1] % 16,
         data |-> body.data]}

EncodeObGetEstabReq(req, size) ==
  Into(size, [head |-> <<(req.method % 16) * 16, High(req.obid), Low(req.obid), Top(req.uri),
                         Second(req.uri), High(req.uri), Low(req.uri)>>,
              data |-> req.data])
DecodeObGetEstabReq(id, body) ==
  IF BodySize(body) < HeaderLen_ObGetEstabReq THEN {}
  ELSE {[id |-> id, method |-> body.head[1] \div 16,
         obid |-> Num2(body.head[2], body.head[3]),
         uri |-> Num4(body.head[4], body.head[5], body.head[6], body.head[7]),
         data |-> body.data]}

\* A response to an observation, and to a notification: no data.
EncodeObGetEstabResp(resp, size) ==
  Into(size, [head |-> <<First(resp), High(resp.obid), Low(resp.obid)>>, data |-> 0])
DecodeObGetEstabResp(id, body) ==
  IF BodySize(body) < HeaderLen_ObGetEstabResp THEN {}
  ELSE {[id |-> id, method |-> body.head[1] \div 16, code |-> body.head[1] % 16,
         obid |-> Num2(body.head[2], body.head[3])]}

EncodeObGetNotifyReq(req, size) ==
  Into(size, [head |-> <<First(req), High(req.obid), Low(req.obid)>>, data |-> req.data])
DecodeObGetNotifyReq(id, body) ==
  IF BodySize(body) < HeaderLen_ObGetNotifyReq THEN {}
  ELSE {[id |-> id, method |-> body.head[1] \div 16, code |-> body.head[1] % 16,
         obid |-> Num2(body.head[2], body.head[3]), data |-> body.data]}

EncodeObGetNotifyResp(resp, size) == EncodeObGetEstabResp(resp, size)
DecodeObGetNotifyResp(id, body) == DecodeObGetEstabResp(id, body)

-----------------------------------------------------------------------------
(* A body over a message: the body goes behind the header of the buffer,    *)
(* and the length in the header is of 16 bits.                              *)

Over(type, id, bodies) ==
  {[header |-> EncodeHeader(HeaderOf(type, id, UInt16(Len(b.head) + UInt16(b.data)), Code_Success)),
    head |-> b.head, data |-> b.data] : b \in bodies}

\* What is left of a buffer behind the header.
Rest(size) == IF size < HeaderLen THEN 0 ELSE size - HeaderLen

EncodeCoReq_OverDeviceSendReq(req, size) ==
  Over(MsgType_DeviceSendReq, req.id, EncodeCoReq(req, Rest(size)))
EncodeCoReq_OverServerSendReq(req, size) ==
  Over(MsgType_ServerSendReq, req.id, EncodeCoReq(req, Rest(size)))
EncodeCoResp_OverDeviceSendResp(resp, size) ==
  Over(MsgType_DeviceSendResp, resp.id, EncodeCoResp(resp, Rest(size)))
EncodeCoResp_OverServerSendResp(resp, size) ==
  Over(MsgType_ServerSendResp, resp.id, EncodeCoResp(resp, Rest(size)))
EncodeObGetEstabReq_OverServerSendReq(req, size) ==
  Over(MsgType_ServerSendReq, req.id, EncodeObGetEstabReq(req, Rest(size)))
EncodeObGetEstabResp_OverServerSendResp(resp, size) ==
  Over(MsgType_ServerSendResp, resp.id, EncodeObGetEstabResp(resp, Rest(size)))
EncodeObGetNotifyReq_OverDeviceSendReq(req, size) ==
  Over(MsgType_DeviceSendReq, req.id, EncodeObGetNotifyReq(req, Rest(size)))
EncodeObGetNotifyResp_OverDeviceSendResp(resp, size) ==
  Over(MsgType_DeviceSendResp, resp.id, EncodeObGetNotifyResp(resp, Rest(size)))
=============================================================================

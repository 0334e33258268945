----------------------------- MODULE WireProofs -----------------------------
(***************************************************************************)
(* Proofs about Wire, for every set of lengths, ids and uris: what a side  *)
(* decodes is what the other meant (Intact), and what a length can cost is *)
(* what LossesExplained says.                                              *)
(*                                                                         *)
(* The argument: the bytes of a number give it back, so a header decodes   *)
(* to what was encoded, so each body decodes to its message with as many   *)
(* bytes of data as the header counts; the invariant Kept says so of the   *)
(* frame under way, and that a handler answers what was decoded.  For the  *)
(* losses, FlightInv says that the header of the frame under way counts    *)
(* its bytes modulo 2^16, decodes up to 4096, and then the body does too;  *)
(* a frame for the device is shorter than 64 KiB; and only a notification  *)
(* whose header counts one byte or two is a request without its leading    *)
(* bytes (ObReqs).                                                         *)
(***************************************************************************)
EXTENDS Wire, Integers, TLAPS

(* Numbers and their bytes.                                                 *)
LEMMA Bytes2Num ==
  ASSUME NEW n \in U16
  PROVE  Num2(High(n), Low(n)) = n
  BY SMT DEF High, Low, Num2, U16

LEMMA Bytes4Num ==
  ASSUME NEW n \in U32
  PROVE  Num4(Top(n), Second(n), High(n), Low(n)) = n
  BY SMT DEF Top, Second, High, Low, Num4, U32

LEMMA Wrap ==
  ASSUME NEW n \in Nat, NEW d \in Nat
  PROVE  (n + (d % 65536)) % 65536 = (n + d) % 65536
  BY SMT

LEMMA Width ==
  ASSUME NEW n \in Nat
  PROVE  n % 65536 \in U16
  BY SMT DEF U16

\* A header decodes to what was encoded, if the length is within the limit, and not
\* at all if it is not.
LEMMA HeaderFields ==
  ASSUME NEW type \in 1 .. 15, NEW id \in U16, NEW len \in U16, NEW code \in 0 .. 7
  PROVE  DecodeHeader(EncodeHeader(HeaderOf(type, id, len, code)))
         = {h \in {HeaderOf(type, id, len, code)} : h.bodyLen <= 4096}
<1> DEFINE h == HeaderOf(type, id, len, code)
<1> DEFINE b == EncodeHeader(h)
<1>1. b = <<type * 16 + code, High(id), Low(id), High(len), Low(len)>>
  <2>1. (((type % 16) * 16) + ((0 \div 16) % 2) * 128 + (code % 8)) % 256 = type * 16 + code
    BY SMT
  <2>2. QED BY <2>1, SMT DEF EncodeHeader, HeaderOf, Version
<1>2. /\ (type * 16 + code) \div 16 = type
      /\ ((type * 16 + code) \div 8) % 2 = 0
      /\ (type * 16 + code) % 8 = code
  BY SMT
<1>3. /\ Num2(High(id), Low(id)) = id
      /\ Num2(High(len), Low(len)) = len
  BY Bytes2Num
<1> HIDE DEF b
<1>4. [type |-> b[1] \div 16, version |-> (b[1] \div 8) % 2, code |-> b[1] % 8,
       id |-> Num2(b[2], b[3]), bodyLen |-> Num2(b[4], b[5])] = h
  BY <1>1, <1>2, <1>3, SMT DEF HeaderOf, Version
<1> HIDE DEF h
<1>5. DecodeHeader(b) = {g \in {h} : g.bodyLen <= 4096}
  BY <1>4, SMT DEF DecodeHeader
<1>6. QED BY <1>5 DEF b, h

LEMMA HeaderRoundTrip ==
  ASSUME NEW type \in 1 .. 15, NEW id \in U16, NEW len \in U16, NEW code \in 0 .. 7
  PROVE  DecodeHeader(EncodeHeader(HeaderOf(type, id, len, code)))
         \subseteq {HeaderOf(type, id, len, code)}
  BY HeaderFields

LEMMA FirstByte ==
  ASSUME NEW m \in 1 .. 3, NEW c \in 0 .. 15
  PROVE  /\ ((m % 16) * 16 + (c % 16)) \div 16 = m
         /\ ((m % 16) * 16 + (c % 16)) % 16 = c
         /\ ((m % 16) * 16) \div 16 = m
  BY SMT

-----------------------------------------------------------------------------
(* The reader takes as many bytes as the header counts.  If these are fewer than
   the leading bytes of the body, nothing is decoded; if not, the data are
   the rest.                                                                *)

LEMMA ShortBody ==
  ASSUME NEW frame, NEW h, frame.head \in Seq(Nat), h.bodyLen \in Nat,
         h.bodyLen < Len(frame.head)
  PROVE  BodySize(BodyOf(frame, h)) < Len(frame.head)
  BY SMT DEF BodyOf, BodySize

LEMMA WholeBody ==
  ASSUME NEW frame, NEW h, frame.head \in Seq(Nat), h.bodyLen \in Nat,
         ~(h.bodyLen < Len(frame.head))
  PROVE  /\ BodyOf(frame, h) = [head |-> frame.head, data |-> h.bodyLen - Len(frame.head)]
         /\ ~(BodySize(BodyOf(frame, h)) < Len(frame.head))
  BY SMT DEF BodyOf, BodySize

LEMMA MethodKept ==
  ASSUME NEW frame, NEW h, frame.head \in Seq(Nat), h.bodyLen \in Nat, Len(frame.head) >= 1
  PROVE  DecodeMethod(BodyOf(frame, h)) \subseteq {frame.head[1] \div 16}
<1>1. CASE h.bodyLen < 1
  <2>1. BodySize(BodyOf(frame, h)) = 0
    BY <1>1, SMT DEF BodyOf, BodySize
  <2>2. QED BY <2>1, SMT DEF DecodeMethod, HeaderLen_RestMin
<1>2. CASE ~(h.bodyLen < 1)
  <2>1. BodyOf(frame, h).head[1] = frame.head[1]
    BY <1>2, SMT DEF BodyOf
  <2>2. QED BY <2>1, Zenon DEF DecodeMethod
<1>3. QED BY <1>1, <1>2

-----------------------------------------------------------------------------
(* What each decoder makes of its encoder's leading bytes.                  *)

CoReqMsg == [id : U16, method : 1 .. 2, uri : U32, data : Int]
EstabMsg == [id : U16, method : {3}, obid : U16, uri : U32, data : Int]
NotifyMsg == [id : U16, method : {3}, code : 0 .. 15, obid : U16, data : Int]
CoRespMsg == [id : U16, method : 1 .. 3, code : 0 .. 15, data : Int]
ObRespMsg == [id : U16, method : 1 .. 3, code : 0 .. 15, obid : U16]

LEMMA CoReqDecodes ==
  ASSUME NEW m \in CoReqMsg, NEW h, NEW frame, h.id = m.id, h.bodyLen \in Nat,
         frame.head = <<(m.method % 16) * 16, Top(m.uri), Second(m.uri), High(m.uri), Low(m.uri)>>
  PROVE  DecodedReq(h, BodyOf(frame, h)) \subseteq {[m EXCEPT !.data = h.bodyLen - 5]}
<1> DEFINE body == BodyOf(frame, h)
<1> HIDE DEF body
<1>1. frame.head \in Seq(Nat) /\ Len(frame.head) = 5 /\ Len(frame.head) >= 1
  BY SMT DEF Top, Second, High, Low, CoReqMsg, U32
<1>2. frame.head[1] \div 16 = m.method /\ m.method # 3
  BY SMT DEF CoReqMsg
<1>3. DecodedReq(h, body) \subseteq DecodeCoReq(h.id, body)
  <2>1. DecodeMethod(body) \subseteq {frame.head[1] \div 16}
    BY <1>1, MethodKept, Zenon DEF body
  <2>2. \A method \in DecodeMethod(body) : method # 3
    BY <2>1, <1>2, Zenon
  <2>3. QED BY <2>2, SMT DEF DecodedReq, Method_ObservedGet
<1>4. CASE h.bodyLen < 5
  <2>1. BodySize(body) < 5
    BY <1>1, <1>4, ShortBody, Zenon DEF body
  <2>2. QED BY <1>3, <2>1, Zenon DEF DecodeCoReq, HeaderLen_CoReq, body
<1>5. CASE ~(h.bodyLen < 5)
  <2>1. body = [head |-> frame.head, data |-> h.bodyLen - 5] /\ ~(BodySize(body) < 5)
    BY <1>1, <1>5, WholeBody, Zenon DEF body
  <2>2. Num4(frame.head[2], frame.head[3], frame.head[4], frame.head[5]) = m.uri
    BY Bytes4Num DEF CoReqMsg
  <2>3. DecodeCoReq(h.id, body) =
          {[id |-> m.id, method |-> m.method, uri |-> m.uri, data |-> h.bodyLen - 5]}
    BY <2>1, <2>2, <1>2, Zenon DEF DecodeCoReq, HeaderLen_CoReq
  <2>4. [m EXCEPT !.data = h.bodyLen - 5]
        = [id |-> m.id, method |-> m.method, uri |-> m.uri, data |-> h.bodyLen - 5]
    BY SMT DEF CoReqMsg
  <2>5. QED BY <1>3, <2>3, <2>4, Zenon DEF body
<1>6. QED BY <1>4, <1>5

LEMMA EstabDecodes ==
  ASSUME NEW m \in EstabMsg, NEW h, NEW frame, h.id = m.id, h.bodyLen \in Nat,
         h.type = MsgType_ServerSendReq,
         frame.head = <<(m.method % 16) * 16, High(m.obid), Low(m.obid), Top(m.uri),
                        Second(m.uri), High(m.uri), Low(m.uri)>>
  PROVE  DecodedReq(h, BodyOf(frame, h)) \subseteq {[m EXCEPT !.data = h.bodyLen - 7]}
<1> DEFINE body == BodyOf(frame, h)
<1> HIDE DEF body
<1>1. frame.head \in Seq(Nat) /\ Len(frame.head) = 7 /\ Len(frame.head) >= 1
  BY SMT DEF Top, Second, High, Low, EstabMsg, U16, U32
<1>2. frame.head[1] \div 16 = m.method /\ m.method = 3
  BY SMT DEF EstabMsg
<1>3. DecodedReq(h, body) \subseteq DecodeObGetEstabReq(h.id, body)
  <2>1. DecodeMethod(body) \subseteq {frame.head[1] \div 16}
    BY <1>1, MethodKept, Zenon DEF body
  <2>2. \A method \in DecodeMethod(body) : method = 3
    BY <2>1, <1>2, Zenon
  <2>3. QED BY <2>2, SMT DEF DecodedReq, Method_ObservedGet, MsgType_ServerSendReq,
                             MsgType_DeviceSendReq
<1>4. CASE h.bodyLen < 7
  <2>1. BodySize(body) < 7
    BY <1>1, <1>4, ShortBody, Zenon DEF body
  <2>2. QED BY <1>3, <2>1, Zenon DEF DecodeObGetEstabReq, HeaderLen_ObGetEstabReq, body
<1>5. CASE ~(h.bodyLen < 7)
  <2>1. body = [head |-> frame.head, data |-> h.bodyLen - 7] /\ ~(BodySize(body) < 7)
    BY <1>1, <1>5, WholeBody, Zenon DEF body
  <2>2. /\ Num4(frame.head[4], frame.head[5], frame.head[6], frame.head[7]) = m.uri
        /\ Num2(frame.head[2], frame.head[3]) = m.obid
    BY Bytes4Num, Bytes2Num DEF EstabMsg
  <2>3. DecodeObGetEstabReq(h.id, body) =
          {[id |-> m.id, method |-> m.method, obid |-> m.obid, uri |-> m.uri,
            data |-> h.bodyLen - 7]}
    BY <2>1, <2>2, <1>2, Zenon DEF DecodeObGetEstabReq, HeaderLen_ObGetEstabReq
  <2>4. [m EXCEPT !.data = h.bodyLen - 7]
        = [id |-> m.id, method |-> m.method, obid |-> m.obid, uri |-> m.uri,
           data |-> h.bodyLen - 7]
    BY SMT DEF EstabMsg
  <2>5. QED BY <1>3, <2>3, <2>4, Zenon DEF body
<1>6. QED BY <1>4, <1>5

LEMMA NotifyDecodes ==
  ASSUME NEW m \in NotifyMsg, NEW h, NEW frame, h.id = m.id, h.bodyLen \in Nat,
         h.type = MsgType_DeviceSendReq,
         frame.head = <<First(m), High(m.obid), Low(m.obid)>>
  PROVE  DecodedReq(h, BodyOf(frame, h)) \subseteq {[m EXCEPT !.data = h.bodyLen - 3]}
<1> DEFINE body == BodyOf(frame, h)
<1> HIDE DEF body
<1>1. frame.head \in Seq(Nat) /\ Len(frame.head) = 3 /\ Len(frame.head) >= 1
  BY SMT DEF First, High, Low, NotifyMsg, U16
<1>2. /\ frame.head[1] \div 16 = m.method /\ m.method = 3
      /\ frame.head[1] % 16 = m.code
  BY FirstByte, SMT DEF NotifyMsg, First
<1>3. DecodedReq(h, body) \subseteq DecodeObGetNotifyReq(h.id, body)
  <2>1. DecodeMethod(body) \subseteq {frame.head[1] \div 16}
    BY <1>1, MethodKept, Zenon DEF body
  <2>2. \A method \in DecodeMethod(body) : method = 3
    BY <2>1, <1>2, Zenon
  <2>3. QED BY <2>2, SMT DEF DecodedReq, Method_ObservedGet
<1>4. CASE h.bodyLen < 3
  <2>1. BodySize(body) < 3
    BY <1>1, <1>4, ShortBody, Zenon DEF body
  <2>2. QED BY <1>3, <2>1, Zenon DEF DecodeObGetNotifyReq, HeaderLen_ObGetNotifyReq, body
<1>5. CASE ~(h.bodyLen < 3)
  <2>1. body = [head |-> frame.head, data |-> h.bodyLen - 3] /\ ~(BodySize(body) < 3)
    BY <1>1, <1>5, WholeBody, Zenon DEF body
  <2>2. Num2(frame.head[2], frame.head[3]) = m.obid
    BY Bytes2Num DEF NotifyMsg
  <2>3. DecodeObGetNotifyReq(h.id, body) =
          {[id |-> m.id, method |-> m.method, code |-> m.code, obid |-> m.obid,
            data |-> h.bodyLen - 3]}
    BY <2>1, <2>2, <1>2, Zenon DEF DecodeObGetNotifyReq, HeaderLen_ObGetNotifyReq
  <2>4. [m EXCEPT !.data = h.bodyLen - 3]
        = [id |-> m.id, method |-> m.method, code |-> m.code, obid |-> m.obid,
           data |-> h.bodyLen - 3]
    BY SMT DEF NotifyMsg
  <2>5. QED BY <1>3, <2>3, <2>4, Zenon DEF body
<1>6. QED BY <1>4, <1>5

LEMMA CoRespDecodes ==
  ASSUME NEW m \in CoRespMsg, NEW h, NEW frame, h.id = m.id, h.bodyLen \in Nat,
         frame.head = <<First(m)>>
  PROVE  DecodeCoResp(h.id, BodyOf(frame, h)) \subseteq {[m EXCEPT !.data = h.bodyLen - 1]}
<1> DEFINE body == BodyOf(frame, h)
<1> HIDE DEF body
<1>1. frame.head \in Seq(Nat) /\ Len(frame.head) = 1
  BY SMT DEF First, CoRespMsg
<1>2. frame.head[1] \div 16 = m.method /\ frame.head[1] % 16 = m.code
  BY FirstByte, SMT DEF CoRespMsg, First
<1>4. CASE h.bodyLen < 1
  <2>1. BodySize(body) < 1
    BY <1>1, <1>4, ShortBody, Zenon DEF body
  <2>2. QED BY <2>1, Zenon DEF DecodeCoResp, HeaderLen_CoResp, body
<1>5. CASE ~(h.bodyLen < 1)
  <2>1. body = [head |-> frame.head, data |-> h.bodyLen - 1] /\ ~(BodySize(body) < 1)
    BY <1>1, <1>5, WholeBody, Zenon DEF body
  <2>3. DecodeCoResp(h.id, body) =
          {[id |-> m.id, method |-> m.method, code |-> m.code, data |-> h.bodyLen - 1]}
    BY <2>1, <1>2, Zenon DEF DecodeCoResp, HeaderLen_CoResp
  <2>4. [m EXCEPT !.data = h.bodyLen - 1]
        = [id |-> m.id, method |-> m.method, code |-> m.code, data |-> h.bodyLen - 1]
    BY SMT DEF CoRespMsg
  <2>5. QED BY <2>3, <2>4, Zenon DEF body
<1>6. QED BY <1>4, <1>5

LEMMA ObRespDecodes ==
  ASSUME NEW m \in ObRespMsg, NEW h, NEW frame, h.id = m.id, h.bodyLen \in Nat,
         frame.head = <<First(m), High(m.obid), Low(m.obid)>>
  PROVE  DecodeObGetEstabResp(h.id, BodyOf(frame, h)) \subseteq {m}
<1> DEFINE body == BodyOf(frame, h)
<1> HIDE DEF body
<1>1. frame.head \in Seq(Nat) /\ Len(frame.head) = 3
  BY SMT DEF First, High, Low, ObRespMsg, U16
<1>2. frame.head[1] \div 16 = m.method /\ frame.head[1] % 16 = m.code
  BY FirstByte, SMT DEF ObRespMsg, First
<1>4. CASE h.bodyLen < 3
  <2>1. BodySize(body) < 3
    BY <1>1, <1>4, ShortBody, Zenon DEF body
  <2>2. QED BY <2>1, Zenon DEF DecodeObGetEstabResp, HeaderLen_ObGetEstabResp, body
<1>5. CASE ~(h.bodyLen < 3)
  <2>1. body = [head |-> frame.head, data |-> h.bodyLen - 3] /\ ~(BodySize(body) < 3)
    BY <1>1, <1>5, WholeBody, Zenon DEF body
  <2>2. Num2(frame.head[2], frame.head[3]) = m.obid
    BY Bytes2Num DEF ObRespMsg
  <2>3. DecodeObGetEstabResp(h.id, body) =
          {[id |-> m.id, method |-> m.method, code |-> m.code, obid |-> m.obid]}
    BY <2>1, <2>2, <1>2, Zenon DEF DecodeObGetEstabResp, HeaderLen_ObGetEstabResp
  <2>4. m = [id |-> m.id, method |-> m.method, code |-> m.code, obid |-> m.obid]
    BY SMT DEF ObRespMsg
  <2>5. QED BY <2>3, <2>4, Zenon DEF body
<1>6. QED BY <1>4, <1>5

-----------------------------------------------------------------------------
(* The frame of each encoder carries its message.                           *)

VerifyMsg == [id : U16, capLevel : 0 .. 3, idLen : Nat, secretLen : Nat, colon : BOOLEAN]

MsgOf(kind) ==
  CASE kind = "coreq" -> CoReqMsg
    [] kind = "estab" -> EstabMsg
    [] kind = "notify" -> NotifyMsg
    [] kind = "coresp" -> CoRespMsg
    [] kind \in {"estabresp", "notifyresp"} -> ObRespMsg
    [] OTHER -> [id : U16]

\* A frame decodes to a message of its kind, and to the one that was meant if its
\* header counts all its bytes.
Carried(f) ==
  \A h \in DecodeHeader(f.frame.header) :
    \A got \in Decoded(f.kind, h, BodyOf(f.frame, h), f.sent) :
      /\ f.kind \in {"coreq", "estab", "notify"} => got \in MsgOf(f.kind)
      /\ f.kind = "verify" => got \in VerifyMsg
      /\ f.kind = "ping" => got.id \in U16
      /\ ~(h.bodyLen < BodySize(f.frame)) => got = f.sent

\* The header of a body over a message counts its bytes, modulo 2^16.
LEMMA OverHeader ==
  ASSUME NEW type \in 1 .. 15, NEW id \in U16, NEW b, NEW bodies, bodies \subseteq {b},
         Len(b.head) \in Nat, b.data \in Nat,
         NEW frame \in Over(type, id, bodies)
  PROVE  /\ frame.head = b.head /\ frame.data = b.data
         /\ \A h \in DecodeHeader(frame.header) :
              /\ h.type = type /\ h.id = id
              /\ h.bodyLen = UInt16(Len(b.head) + b.data) /\ h.bodyLen \in Nat
<1> DEFINE len == UInt16(Len(b.head) + UInt16(b.data))
<1>1. len = (Len(b.head) + b.data) % 65536
  BY Wrap, SMT DEF UInt16
<1>2. len \in U16
  BY <1>1, Width, Len(b.head) + b.data \in Nat, SMT
<1>3. frame = [header |-> EncodeHeader(HeaderOf(type, id, len, Code_Success)),
               head |-> b.head, data |-> b.data]
  BY Zenon DEF Over, len
<1> HIDE DEF len
<1>4. Code_Success \in 0 .. 7
  BY SMT DEF Code_Success
<1>5. \A h \in DecodeHeader(frame.header) : h = HeaderOf(type, id, len, Code_Success)
  BY <1>2, <1>3, <1>4, HeaderRoundTrip, SMT
<1>6. QED BY <1>1, <1>2, <1>3, <1>5, SMT DEF HeaderOf, U16, UInt16

LEMMA CoReqCarried ==
  ASSUME NEW m \in CoReqMsg, m.data \in Nat, NEW to, NEW size,
         NEW type \in {MsgType_DeviceSendReq, MsgType_ServerSendReq},
         NEW frame \in Over(type, m.id, EncodeCoReq(m, size))
  PROVE  Carried([to |-> to, kind |-> "coreq", frame |-> frame, sent |-> m])
<1> DEFINE head == <<(m.method % 16) * 16, Top(m.uri), Second(m.uri), High(m.uri), Low(m.uri)>>
<1> DEFINE b == [head |-> head, data |-> m.data]
<1>1. EncodeCoReq(m, size) \subseteq {b}
  BY Zenon DEF EncodeCoReq, Into
<1>2. /\ Len(head) = 5 /\ b.data = m.data /\ b.head = head
      /\ Len(b.head) \in Nat /\ b.data \in Nat
  BY SMT
<1> HIDE DEF b, head
<1>3. type \in 1 .. 15 /\ m.id \in U16
  BY SMT DEF MsgType_DeviceSendReq, MsgType_ServerSendReq, CoReqMsg
<1>a. /\ frame.head = b.head /\ frame.data = b.data
      /\ \A h \in DecodeHeader(frame.header) :
           /\ h.type = type /\ h.id = m.id
           /\ h.bodyLen = UInt16(Len(b.head) + b.data) /\ h.bodyLen \in Nat
  BY <1>1, <1>2, <1>3, OverHeader, ZenonT(30)
<1>4. /\ frame.head = head /\ frame.data = m.data /\ Len(head) = 5
      /\ \A h \in DecodeHeader(frame.header) :
           /\ h.type = type /\ h.id = m.id
           /\ h.bodyLen = UInt16(5 + m.data) /\ h.bodyLen \in Nat
  BY <1>a, <1>2
<1>5. BodySize(frame) = 5 + m.data
  BY <1>4, Zenon DEF BodySize
<1>6. SUFFICES ASSUME NEW h \in DecodeHeader(frame.header),
                      NEW got \in Decoded("coreq", h, BodyOf(frame, h), m)
               PROVE  got \in CoReqMsg /\ (~(h.bodyLen < BodySize(frame)) => got = m)
  BY SMT DEF Carried, MsgOf
<1>7. got \in DecodedReq(h, BodyOf(frame, h))
  BY <1>4, SMT DEF Decoded, MsgType_DeviceSendReq, MsgType_ServerSendReq,
     MsgType_DeviceVerifyReq, MsgType_DevicePingReq, MsgType_DeviceVerifyResp,
     MsgType_DevicePingResp, MsgType_DeviceSendResp, MsgType_ServerSendResp
<1>8. got = [m EXCEPT !.data = h.bodyLen - 5]
  BY <1>4, <1>7, CoReqDecodes, SMT DEF head
<1>9. got \in CoReqMsg
  BY <1>4, <1>8, SMT DEF CoReqMsg
<1>10. ~(h.bodyLen < BodySize(frame)) => h.bodyLen - 5 = m.data
  BY <1>4, <1>5, SMT DEF UInt16
<1>11. [m EXCEPT !.data = m.data] = m
  BY SMT DEF CoReqMsg
<1>12. QED BY <1>8, <1>9, <1>10, <1>11, Zenon
LEMMA EstabCarried ==
  ASSUME NEW m \in EstabMsg, m.data \in Nat, NEW to, NEW size,
         NEW type \in {MsgType_ServerSendReq},
         NEW frame \in Over(type, m.id, EncodeObGetEstabReq(m, size))
  PROVE  Carried([to |-> to, kind |-> "estab", frame |-> frame, sent |-> m])
<1> DEFINE head == <<(m.method % 16) * 16, High(m.obid), Low(m.obid), Top(m.uri), Second(m.uri),
                     High(m.uri), Low(m.uri)>>
<1> DEFINE b == [head |-> head, data |-> m.data]
<1>1. EncodeObGetEstabReq(m, size) \subseteq {b}
  BY Zenon DEF EncodeObGetEstabReq, Into
<1>2. /\ Len(head) = 7 /\ b.data = m.data /\ b.head = head
      /\ Len(b.head) \in Nat /\ b.data \in Nat
  BY SMT
<1> HIDE DEF b, head
<1>3. type \in 1 .. 15 /\ m.id \in U16
  BY SMT DEF MsgType_DeviceSendReq, MsgType_ServerSendReq, EstabMsg
<1>a. /\ frame.head = b.head /\ frame.data = b.data
      /\ \A h \in DecodeHeader(frame.header) :
           /\ h.type = type /\ h.id = m.id
           /\ h.bodyLen = UInt16(Len(b.head) + b.data) /\ h.bodyLen \in Nat
  BY <1>1, <1>2, <1>3, OverHeader, ZenonT(30)
<1>4. /\ frame.head = head /\ frame.data = m.data /\ Len(head) = 7
      /\ \A h \in DecodeHeader(frame.header) :
           /\ h.type = type /\ h.id = m.id
           /\ h.bodyLen = UInt16(7 + m.data) /\ h.bodyLen \in Nat
  BY <1>a, <1>2
<1>5. BodySize(frame) = 7 + m.data
  BY <1>4, Zenon DEF BodySize
<1>6. SUFFICES ASSUME NEW h \in DecodeHeader(frame.header),
                      NEW got \in Decoded("estab", h, BodyOf(frame, h), m)
               PROVE  got \in EstabMsg /\ (~(h.bodyLen < BodySize(frame)) => got = m)
  BY SMT DEF Carried, MsgOf
<1>7. got \in DecodedReq(h, BodyOf(frame, h))
  BY <1>4, SMT DEF Decoded, MsgType_DeviceSendReq, MsgType_ServerSendReq,
     MsgType_DeviceVerifyReq, MsgType_DevicePingReq, MsgType_DeviceVerifyResp,
     MsgType_DevicePingResp, MsgType_DeviceSendResp, MsgType_ServerSendResp
<1>8. got = [m EXCEPT !.data = h.bodyLen - 7]
  BY <1>4, <1>7, EstabDecodes, SMT DEF head
<1>9. got \in EstabMsg
  BY <1>4, <1>8, SMT DEF EstabMsg
<1>10. ~(h.bodyLen < BodySize(frame)) => h.bodyLen - 7 = m.data
  BY <1>4, <1>5, SMT DEF UInt16
<1>11. [m EXCEPT !.data = m.data] = m
  BY SMT DEF EstabMsg
<1>12. QED BY <1>8, <1>9, <1>10, <1>11, Zenon
LEMMA NotifyCarried ==
  ASSUME NEW m \in NotifyMsg, m.data \in Nat, NEW to, NEW size,
         NEW type \in {MsgType_DeviceSendReq},
         NEW frame \in Over(type, m.id, EncodeObGetNotifyReq(m, size))
  PROVE  Carried([to |-> to, kind |-> "notify", frame |-> frame, sent |-> m])
<1> DEFINE head == <<First(m), High(m.obid), Low(m.obid)>>
<1> DEFINE b == [head |-> head, data |-> m.data]
<1>1. EncodeObGetNotifyReq(m, size) \subseteq {b}
  BY Zenon DEF EncodeObGetNotifyReq, Into
<1>2. /\ Len(head) = 3 /\ b.data = m.data /\ b.head = head
      /\ Len(b.head) \in Nat /\ b.data \in Nat
  BY SMT
<1> HIDE DEF b, head
<1>3. type \in 1 .. 15 /\ m.id \in U16
  BY SMT DEF MsgType_DeviceSendReq, MsgType_ServerSendReq, NotifyMsg
<1>a. /\ frame.head = b.head /\ frame.data = b.data
      /\ \A h \in DecodeHeader(frame.header) :
           /\ h.type = type /\ h.id = m.id
           /\ h.bodyLen = UInt16(Len(b.head) + b.data) /\ h.bodyLen \in Nat
  BY <1>1, <1>2, <1>3, OverHeader, ZenonT(30)
<1>4. /\ frame.head = head /\ frame.data = m.data /\ Len(head) = 3
      /\ \A h \in DecodeHeader(frame.header) :
           /\ h.type = type /\ h.id = m.id
           /\ h.bodyLen = UInt16(3 + m.data) /\ h.bodyLen \in Nat
  BY <1>a, <1>2
<1>5. BodySize(frame) = 3 + m.data
  BY <1>4, Zenon DEF BodySize
<1>6. SUFFICES ASSUME NEW h \in DecodeHeader(frame.header),
                      NEW got \in Decoded("notify", h, BodyOf(frame, h), m)
               PROVE  got \in NotifyMsg /\ (~(h.bodyLen < BodySize(frame)) => got = m)
  BY SMT DEF Carried, MsgOf
<1>7. got \in DecodedReq(h, BodyOf(frame, h))
  BY <1>4, SMT DEF Decoded, MsgType_DeviceSendReq, MsgType_ServerSendReq,
     MsgType_DeviceVerifyReq, MsgType_DevicePingReq, MsgType_DeviceVerifyResp,
     MsgType_DevicePingResp, MsgType_DeviceSendResp, MsgType_ServerSendResp
<1>8. got = [m EXCEPT !.data = h.bodyLen - 3]
  BY <1>4, <1>7, NotifyDecodes, SMT DEF head
<1>9. got \in NotifyMsg
  BY <1>4, <1>8, SMT DEF NotifyMsg
<1>10. ~(h.bodyLen < BodySize(frame)) => h.bodyLen - 3 = m.data
  BY <1>4, <1>5, SMT DEF UInt16
<1>11. [m EXCEPT !.data = m.data] = m
  BY SMT DEF NotifyMsg
<1>12. QED BY <1>8, <1>9, <1>10, <1>11, Zenon
LEMMA CoRespCarried ==
  ASSUME NEW m \in CoRespMsg, m.data \in Nat, NEW to, NEW size,
         NEW type \in {MsgType_DeviceSendResp, MsgType_ServerSendResp},
         NEW frame \in Over(type, m.id, EncodeCoResp(m, size))
  PROVE  Carried([to |-> to, kind |-> "coresp", frame |-> frame, sent |-> m])
<1> DEFINE head == <<First(m)>>
<1> DEFINE b == [head |-> head, data |-> m.data]
<1>1. EncodeCoResp(m, size) \subseteq {b}
  BY Zenon DEF EncodeCoResp, Into
<1>2. /\ Len(head) = 1 /\ b.data = m.data /\ b.head = head
      /\ Len(b.head) \in Nat /\ b.data \in Nat
  BY SMT
<1> HIDE DEF b, head
<1>3. type \in 1 .. 15 /\ m.id \in U16
  BY SMT DEF MsgType_DeviceSendResp, MsgType_ServerSendResp, CoRespMsg
<1>a. /\ frame.head = b.head /\ frame.data = b.data
      /\ \A h \in DecodeHeader(frame.header) :
           /\ h.type = type /\ h.id = m.id
           /\ h.bodyLen = UInt16(Len(b.head) + b.data) /\ h.bodyLen \in Nat
  BY <1>1, <1>2, <1>3, OverHeader, ZenonT(30)
<1>4. /\ frame.head = head /\ frame.data = m.data /\ Len(head) = 1
      /\ \A h \in DecodeHeader(frame.header) :
           /\ h.type = type /\ h.id = m.id
           /\ h.bodyLen = UInt16(1 + m.data) /\ h.bodyLen \in Nat
  BY <1>a, <1>2
<1>5. BodySize(frame) = 1 + m.data
  BY <1>4, Zenon DEF BodySize
<1>6. SUFFICES ASSUME NEW h \in DecodeHeader(frame.header),
                      NEW got \in Decoded("coresp", h, BodyOf(frame, h), m)
               PROVE  got \in CoRespMsg /\ (~(h.bodyLen < BodySize(frame)) => got = m)
  BY SMT DEF Carried, MsgOf
<1>7. got \in DecodeCoResp(h.id, BodyOf(frame, h))
  BY <1>4, SMT DEF Decoded, DecodedResp, MsgType_DeviceSendReq, MsgType_ServerSendReq,
     MsgType_DeviceVerifyReq, MsgType_DevicePingReq, MsgType_DeviceVerifyResp,
     MsgType_DevicePingResp, MsgType_DeviceSendResp, MsgType_ServerSendResp
<1>8. got = [m EXCEPT !.data = h.bodyLen - 1]
  BY <1>4, <1>7, CoRespDecodes, SMT DEF head
<1>9. got \in CoRespMsg
  BY <1>4, <1>8, SMT DEF CoRespMsg
<1>10. ~(h.bodyLen < BodySize(frame)) => h.bodyLen - 1 = m.data
  BY <1>4, <1>5, SMT DEF UInt16
<1>11. [m EXCEPT !.data = m.data] = m
  BY SMT DEF CoRespMsg
<1>12. QED BY <1>8, <1>9, <1>10, <1>11, Zenon

LEMMA ObRespCarried ==
  ASSUME NEW m \in ObRespMsg, NEW to, NEW size, NEW kind \in {"estabresp", "notifyresp"},
         NEW type \in {MsgType_DeviceSendResp, MsgType_ServerSendResp},
         NEW frame \in Over(type, m.id, EncodeObGetEstabResp(m, size))
  PROVE  Carried([to |-> to, kind |-> kind, frame |-> frame, sent |-> m])
<1> DEFINE head == <<First(m), High(m.obid), Low(m.obid)>>
<1> DEFINE b == [head |-> head, data |-> 0]
<1>1. EncodeObGetEstabResp(m, size) \subseteq {b}
  BY Zenon DEF EncodeObGetEstabResp, Into
<1>2. Len(b.head) \in Nat /\ b.data \in Nat
  BY SMT
<1>a. b.head = head
  BY SMT
<1> HIDE DEF b, head
<1>3. type \in 1 .. 15 /\ m.id \in U16
  BY SMT DEF MsgType_DeviceSendResp, MsgType_ServerSendResp, ObRespMsg
<1>4. /\ frame.head = b.head
      /\ \A h \in DecodeHeader(frame.header) :
           /\ h.type = type /\ h.id = m.id
           /\ h.bodyLen = UInt16(Len(b.head) + b.data) /\ h.bodyLen \in Nat
  <2>1. \A bodies : bodies \subseteq {b} => \A f \in Over(type, m.id, bodies) :
    f.head = b.head /\ \A h \in DecodeHeader(f.header) :
           /\ h.type = type /\ h.id = m.id
           /\ h.bodyLen = UInt16(Len(b.head) + b.data) /\ h.bodyLen \in Nat
   BY <1>2, <1>3, OverHeader, SMTT(30)
  <2>2. QED BY <2>1, <1>1, ZenonT(30)
<1>5. SUFFICES ASSUME NEW h \in DecodeHeader(frame.header),
                      NEW got \in Decoded(kind, h, BodyOf(frame, h), m)
               PROVE  got = m
  BY SMT DEF Carried
<1>6. got \in DecodeObGetEstabResp(h.id, BodyOf(frame, h))
  BY <1>4, SMT DEF Decoded, DecodedResp, DecodeObGetNotifyResp,
     MsgType_DeviceSendReq, MsgType_ServerSendReq,
     MsgType_DeviceVerifyReq, MsgType_DevicePingReq, MsgType_DeviceVerifyResp,
     MsgType_DevicePingResp, MsgType_DeviceSendResp, MsgType_ServerSendResp
<1>7. QED BY <1>a, <1>4, <1>6, ObRespDecodes, SMT DEF head

\* The frames without a REST-like body.
LEMMA RespCarried ==
  ASSUME NEW m \in [id : U16, code : 0 .. 7], NEW to,
         NEW type \in {MsgType_DeviceVerifyResp, MsgType_DevicePingResp},
         NEW frame, frame.header = EncodeHeader(HeaderOf(type, m.id, 0, m.code))
  PROVE  Carried([to |-> to, kind |-> "resp", frame |-> frame, sent |-> m])
<1>1. type \in 1 .. 15 /\ m.id \in U16 /\ m.code \in 0 .. 7 /\ 0 \in U16
  BY SMT DEF MsgType_DeviceVerifyResp, MsgType_DevicePingResp, U16
<1>2. \A h \in DecodeHeader(frame.header) : h = HeaderOf(type, m.id, 0, m.code)
  BY <1>1, HeaderRoundTrip, SMT
<1>3. SUFFICES ASSUME NEW h \in DecodeHeader(frame.header),
                      NEW got \in Decoded("resp", h, BodyOf(frame, h), m)
               PROVE  got = m
  BY SMT DEF Carried
<1>4. h.type = type /\ h.id = m.id /\ h.code = m.code
  BY <1>2, SMT DEF HeaderOf
<1>5. got = [id |-> m.id, code |-> m.code]
  BY <1>4, SMT DEF Decoded, MsgType_DeviceVerifyReq, MsgType_DevicePingReq,
     MsgType_DeviceVerifyResp, MsgType_DevicePingResp, MsgType_DeviceSendReq,
     MsgType_ServerSendReq, MsgType_DeviceSendResp, MsgType_ServerSendResp
<1>6. QED BY <1>5, SMT

LEMMA PingCarried ==
  ASSUME NEW m \in [id : U16, timeout : U16], NEW to, NEW frame,
         frame = EncodePingReq(m.id, m.timeout)
  PROVE  Carried([to |-> to, kind |-> "ping", frame |-> frame, sent |-> m])
<1> DEFINE len == IF m.timeout = 0 THEN 0 ELSE 2
<1>1. /\ frame.head = IF m.timeout = 0 THEN <<>> ELSE <<High(m.timeout), Low(m.timeout)>>
      /\ frame.head \in Seq(Nat)
      /\ Len(frame.head) = len
      /\ frame.header = EncodeHeader(HeaderOf(MsgType_DevicePingReq, m.id, len, 0))
  BY SMT DEF EncodePingReq, High, Low, U16
<1>2. /\ MsgType_DevicePingReq \in 1 .. 15 /\ m.id \in U16 /\ len \in U16 /\ 0 \in 0 .. 7
  BY SMT DEF MsgType_DevicePingReq, U16
<1>3. \A h \in DecodeHeader(frame.header) : h = HeaderOf(MsgType_DevicePingReq, m.id, len, 0)
  BY <1>1, <1>2, HeaderRoundTrip, SMT
<1>4. SUFFICES ASSUME NEW h \in DecodeHeader(frame.header),
                      NEW got \in Decoded("ping", h, BodyOf(frame, h), m)
               PROVE  got = m
  BY SMT DEF Carried
<1>5. h.type = MsgType_DevicePingReq /\ h.id = m.id /\ h.bodyLen = len
  BY <1>3, SMT DEF HeaderOf
<1>6. PICK t \in DecodePingReqBody(h, BodyOf(frame, h)) : got = [id |-> m.id, timeout |-> t]
  BY <1>5, SMT DEF Decoded, MsgType_DeviceVerifyReq, MsgType_DevicePingReq,
     MsgType_DeviceVerifyResp, MsgType_DevicePingResp, MsgType_DeviceSendReq,
     MsgType_ServerSendReq, MsgType_DeviceSendResp, MsgType_ServerSendResp
<1>7. t = m.timeout
  <2>1. CASE m.timeout = 0
    BY <1>5, <2>1, SMT DEF DecodePingReqBody
  <2>2. CASE m.timeout # 0
    <3>1. BodyOf(frame, h).head = <<High(m.timeout), Low(m.timeout)>>
      BY <1>1, <1>5, <2>2, SMT DEF BodyOf
    <3>2. Num2(High(m.timeout), Low(m.timeout)) = m.timeout
      BY Bytes2Num
    <3>3. QED BY <1>5, <2>2, <3>1, <3>2, SMT DEF DecodePingReqBody
  <2>3. QED BY <2>1, <2>2
<1>8. QED BY <1>6, <1>7, SMT

LEMMA VerifyCarried ==
  ASSUME NEW m \in VerifyMsg, NEW to, NEW frame \in EncodeVerifyReq(m)
  PROVE  Carried([to |-> to, kind |-> "verify", frame |-> frame, sent |-> m])
<1> DEFINE len == BodyLenVerify(m)
<1>1. /\ len \in U16 /\ len > 1
      /\ frame = [header |-> EncodeHeader(HeaderOf(MsgType_DeviceVerifyReq, m.id, len, 0)),
                  head |-> <<(m.capLevel % 4) * 64>>, data |-> len - 1]
  BY SMT DEF EncodeVerifyReq, BodyLenVerify, VerifyMsg, U16, DeviceIDLen, DeviceSecretLenMin,
     DeviceSecretLenMax
<1> HIDE DEF len
<1>2. /\ MsgType_DeviceVerifyReq \in 1 .. 15 /\ m.id \in U16 /\ 0 \in 0 .. 7
  BY SMT DEF MsgType_DeviceVerifyReq, VerifyMsg
<1>3. \A h \in DecodeHeader(frame.header) : h = HeaderOf(MsgType_DeviceVerifyReq, m.id, len, 0)
  BY <1>1, <1>2, HeaderRoundTrip, SMT
<1>4. SUFFICES ASSUME NEW h \in DecodeHeader(frame.header),
                      NEW got \in Decoded("verify", h, BodyOf(frame, h), m)
               PROVE  got = m
  BY SMT DEF Carried, VerifyMsg
<1>5. h.type = MsgType_DeviceVerifyReq /\ h.bodyLen = len
  BY <1>3, SMT DEF HeaderOf
<1>6. BodyOf(frame, h).head[1] = (m.capLevel % 4) * 64
  BY <1>1, <1>5, SMT DEF BodyOf, U16
<1>7. got = [m EXCEPT !.capLevel = BodyOf(frame, h).head[1] \div 64]
  BY <1>5, SMT DEF Decoded, DecodeVerifyReqBody, MsgType_DeviceVerifyReq, MsgType_DevicePingReq,
     MsgType_DeviceVerifyResp, MsgType_DevicePingResp, MsgType_DeviceSendReq,
     MsgType_ServerSendReq, MsgType_DeviceSendResp, MsgType_ServerSendResp
<1>8. ((m.capLevel % 4) * 64) \div 64 = m.capLevel
  BY SMT DEF VerifyMsg
<1>9. QED BY <1>6, <1>7, <1>8, SMT DEF VerifyMsg

-----------------------------------------------------------------------------
(* The invariant: the message under way is Carried, and what a handler is at has
   the type of its kind.                                                    *)

WorkOK ==
  /\ work.kind \in {"coreq", "estab", "notify"} => work.got \in MsgOf(work.kind)
  /\ work.kind \in {"verify", "ping"} => work.got.id \in U16

Kept == WorkOK /\ (flight # None => Carried(flight))

LEMMA SentCarried ==
  ASSUME NEW to, NEW kind, NEW frames, NEW m, Sends(to, kind, frames, m),
         \A f \in frames : Carried([to |-> to, kind |-> kind, frame |-> f, sent |-> m])
  PROVE  flight' # None => Carried(flight')
<1>1. CASE frames = {}
  BY <1>1, SMT DEF Sends
<1>2. CASE frames # {}
  <2>1. (CHOOSE f \in frames : TRUE) \in frames
    BY <1>2, SMT
  <2>2. flight' = [to |-> to, kind |-> kind, frame |-> CHOOSE f \in frames : TRUE, sent |-> m]
    BY <1>2, SMT DEF Sends
  <2>3. QED BY <2>1, <2>2, Zenon
<1>3. QED BY <1>1, <1>2

\* The messages that the constants give have the types of the lemmas above.
LEMMA Inputs ==
  /\ \A m \in CoReqs : m \in CoReqMsg /\ m.data \in Nat
  /\ \A m \in EstabReqs : m \in EstabMsg /\ m.data \in Nat
  /\ \A m \in NotifyReqs : m \in NotifyMsg /\ m.data \in Nat
  /\ \A v \in Verifies : v \in VerifyMsg
  /\ \A id \in Ids : id \in U16
  /\ \A t \in Timeouts : t \in U16
<1>1. \A v \in Verifies : v \in VerifyMsg
  BY VerifiesAssumption, Zenon DEF VerifyMsg
<1>6. \A m \in CoReqs : m \in CoReqMsg /\ m.data \in Nat
  <2> SUFFICES ASSUME NEW m \in CoReqs PROVE m \in CoReqMsg /\ m.data \in Nat
    OBVIOUS
  <2>a. m.id \in Ids /\ m.method \in 1 .. 2 /\ m.uri \in URIs /\ m.data \in Lengths
    BY SMT DEF CoReqs, Method_ConstrainedGet, Method_ConstrainedPost
  <2>1. m = [id |-> m.id, method |-> m.method, uri |-> m.uri, data |-> m.data]
    BY Zenon DEF CoReqs
  <2>2. /\ m.id \in U16
        /\ m.method \in 1 .. 2
        /\ m.uri \in U32
        /\ m.data \in Nat
    BY <2>a, LengthsAssumption, IdsAssumption, URIsAssumption
  <2>3. QED BY <2>1, <2>2, SMT DEF CoReqMsg
<1>7. \A m \in EstabReqs : m \in EstabMsg /\ m.data \in Nat
  <2> SUFFICES ASSUME NEW m \in EstabReqs PROVE m \in EstabMsg /\ m.data \in Nat
    OBVIOUS
  <2>a. m.id \in Ids /\ m.method \in {3} /\ m.obid \in ObIDs
      /\ m.uri \in URIs /\ m.data \in Lengths
    BY SMT DEF EstabReqs, Method_ObservedGet
  <2>1. m = [id |-> m.id, method |-> m.method, obid |-> m.obid, uri |-> m.uri, data |-> m.data]
    BY Zenon DEF EstabReqs
  <2>2. /\ m.id \in U16
        /\ m.method \in {3}
        /\ m.obid \in U16
        /\ m.uri \in U32
        /\ m.data \in Nat
    BY <2>a, LengthsAssumption, IdsAssumption, URIsAssumption
  <2>3. QED BY <2>1, <2>2, SMT DEF EstabMsg
<1>8. \A m \in NotifyReqs : m \in NotifyMsg /\ m.data \in Nat
  <2> SUFFICES ASSUME NEW m \in NotifyReqs PROVE m \in NotifyMsg /\ m.data \in Nat
    OBVIOUS
  <2>a. m.id \in Ids /\ m.method \in {3} /\ m.code \in 0 .. 15
      /\ m.obid \in ObIDs /\ m.data \in Lengths
    BY SMT DEF NotifyReqs, Method_ObservedGet
  <2>1. m = [id |-> m.id, method |-> m.method, code |-> m.code, obid |-> m.obid, data |-> m.data]
    BY Zenon DEF NotifyReqs
  <2>2. /\ m.id \in U16
        /\ m.method \in {3}
        /\ m.code \in 0 .. 15
        /\ m.obid \in U16
        /\ m.data \in Nat
    BY <2>a, LengthsAssumption, IdsAssumption
  <2>3. QED BY <2>1, <2>2, SMT DEF NotifyMsg
<1>9. QED BY <1>1, <1>6, <1>7, <1>8, IdsAssumption, TimeoutsAssumption

LEMMA KeptStep == Kept /\ Next => Kept'
<1> SUFFICES ASSUME Kept, Next PROVE Kept'
  OBVIOUS
<1>1. ASSUME NEW m \in CoReqs, UserGets(m) PROVE Kept'
  <2>1. m \in CoReqMsg /\ m.data \in Nat
    BY Inputs
  <2>2. PICK size : Sends("device", "coreq", EncodeCoReq_OverServerSendReq(m, size), m)
                /\ work' = work
    BY <1>1, Zenon DEF UserGets, Starts
  <2>3. \A f \in EncodeCoReq_OverServerSendReq(m, size) :
          Carried([to |-> "device", kind |-> "coreq", frame |-> f, sent |-> m])
    BY <2>1, CoReqCarried, Zenon DEF EncodeCoReq_OverServerSendReq
  <2>4. QED BY <2>2, <2>3, SentCarried, Zenon DEF Kept, WorkOK
<1>2. ASSUME NEW m \in CoReqs, DeviceGets(m) PROVE Kept'
  <2>1. m \in CoReqMsg /\ m.data \in Nat
    BY Inputs
  <2>2. PICK size : Sends("server", "coreq", EncodeCoReq_OverDeviceSendReq(m, size), m)
                /\ work' = work
    BY <1>2, Zenon DEF DeviceGets, Starts
  <2>3. \A f \in EncodeCoReq_OverDeviceSendReq(m, size) :
          Carried([to |-> "server", kind |-> "coreq", frame |-> f, sent |-> m])
    BY <2>1, CoReqCarried, Zenon DEF EncodeCoReq_OverDeviceSendReq
  <2>4. QED BY <2>2, <2>3, SentCarried, Zenon DEF Kept, WorkOK
<1>3. ASSUME NEW m \in EstabReqs, UserObserves(m) PROVE Kept'
  <2>1. m \in EstabMsg /\ m.data \in Nat
    BY Inputs
  <2>2. PICK size : Sends("device", "estab", EncodeObGetEstabReq_OverServerSendReq(m, size), m)
                /\ work' = work
    BY <1>3, Zenon DEF UserObserves, Starts
  <2>3. \A f \in EncodeObGetEstabReq_OverServerSendReq(m, size) :
          Carried([to |-> "device", kind |-> "estab", frame |-> f, sent |-> m])
    BY <2>1, EstabCarried, Zenon DEF EncodeObGetEstabReq_OverServerSendReq
  <2>4. QED BY <2>2, <2>3, SentCarried, Zenon DEF Kept, WorkOK
<1>4. ASSUME NEW m \in NotifyReqs, DeviceNotifies(m) PROVE Kept'
  <2>1. m \in NotifyMsg /\ m.data \in Nat
    BY Inputs
  <2>2. PICK size : Sends("server", "notify", EncodeObGetNotifyReq_OverDeviceSendReq(m, size), m)
                /\ work' = work
    BY <1>4, Zenon DEF DeviceNotifies, Starts
  <2>3. \A f \in EncodeObGetNotifyReq_OverDeviceSendReq(m, size) :
          Carried([to |-> "server", kind |-> "notify", frame |-> f, sent |-> m])
    BY <2>1, NotifyCarried, Zenon DEF EncodeObGetNotifyReq_OverDeviceSendReq
  <2>4. QED BY <2>2, <2>3, SentCarried, Zenon DEF Kept, WorkOK
<1>5. ASSUME NEW code \in {2, 5}, NEW n \in Lengths, DeviceAnswersCo(code, n) PROVE Kept'
  <2> DEFINE m == [id |-> work.got.id, method |-> work.got.method, code |-> code, data |-> n]
  <2>1. PICK size : Answers("device", "server", "coreq", "coresp", 
                            EncodeCoResp_OverServerSendResp(m, size), m)
    BY <1>5, Zenon DEF DeviceAnswersCo
  <2>2. work.got \in CoReqMsg
    BY <2>1, Zenon DEF Answers, Kept, WorkOK, MsgOf
  <2>3. m \in CoRespMsg /\ m.data \in Nat
    BY <2>2, LengthsAssumption, SMT DEF CoReqMsg, CoRespMsg
  <2> HIDE DEF m
  <2>4. \A f \in EncodeCoResp_OverServerSendResp(m, size) :
          Carried([to |-> "server", kind |-> "coresp", frame |-> f, sent |-> m])
    BY <2>3, CoRespCarried, Zenon DEF EncodeCoResp_OverServerSendResp
  <2>5. work' = None /\ Sends("server", "coresp", 
                                EncodeCoResp_OverServerSendResp(m, size), m)
    BY <2>1, Zenon DEF Answers
  <2>6. QED BY <2>4, <2>5, SentCarried, Zenon DEF Kept, WorkOK, None
<1>6. ASSUME NEW code \in {2, 5}, NEW n \in Lengths, ServerAnswersCo(code, n) PROVE Kept'
  <2> DEFINE m == [id |-> work.got.id, method |-> work.got.method, code |-> code, data |-> n]
  <2>1. PICK size : Answers("server", "device", "coreq", "coresp", 
                            EncodeCoResp_OverDeviceSendResp(m, size), m)
    BY <1>6, Zenon DEF ServerAnswersCo
  <2>2. work.got \in CoReqMsg
    BY <2>1, Zenon DEF Answers, Kept, WorkOK, MsgOf
  <2>3. m \in CoRespMsg /\ m.data \in Nat
    BY <2>2, LengthsAssumption, SMT DEF CoReqMsg, CoRespMsg
  <2> HIDE DEF m
  <2>4. \A f \in EncodeCoResp_OverDeviceSendResp(m, size) :
          Carried([to |-> "device", kind |-> "coresp", frame |-> f, sent |-> m])
    BY <2>3, CoRespCarried, Zenon DEF EncodeCoResp_OverDeviceSendResp
  <2>5. work' = None /\ Sends("device", "coresp", 
                                EncodeCoResp_OverDeviceSendResp(m, size), m)
    BY <2>1, Zenon DEF Answers
  <2>6. QED BY <2>4, <2>5, SentCarried, Zenon DEF Kept, WorkOK, None
<1>7. ASSUME NEW code \in {3, 4, 5}, DeviceAnswersOb(code) PROVE Kept'
  <2> DEFINE m == [id |-> work.got.id, method |-> work.got.method, code |-> code,
                 obid |-> work.got.obid]
  <2>1. PICK size : Answers("device", "server", "estab", "estabresp", 
                            EncodeObGetEstabResp_OverServerSendResp(m, size), m)
    BY <1>7, Zenon DEF DeviceAnswersOb
  <2>2. work.got \in EstabMsg
    BY <2>1, Zenon DEF Answers, Kept, WorkOK, MsgOf
  <2>3. m \in ObRespMsg
    BY <2>2, LengthsAssumption, SMT DEF EstabMsg, ObRespMsg
  <2> HIDE DEF m
  <2>4. \A f \in EncodeObGetEstabResp_OverServerSendResp(m, size) :
          Carried([to |-> "server", kind |-> "estabresp", frame |-> f, sent |-> m])
    BY <2>3, ObRespCarried, Zenon DEF EncodeObGetEstabResp_OverServerSendResp
  <2>5. work' = None /\ Sends("server", "estabresp", 
                                EncodeObGetEstabResp_OverServerSendResp(m, size), m)
    BY <2>1, Zenon DEF Answers
  <2>6. QED BY <2>4, <2>5, SentCarried, Zenon DEF Kept, WorkOK, None
<1>8. ASSUME NEW code \in {3, 4, 5}, ServerAnswersOb(code) PROVE Kept'
  <2> DEFINE m == [id |-> work.got.id, method |-> work.got.method, code |-> code,
                 obid |-> work.got.obid]
  <2>1. PICK size : Answers("server", "device", "notify", "notifyresp", 
                            EncodeObGetNotifyResp_OverDeviceSendResp(m, size), m)
    BY <1>8, Zenon DEF ServerAnswersOb
  <2>2. work.got \in NotifyMsg
    BY <2>1, Zenon DEF Answers, Kept, WorkOK, MsgOf
  <2>3. m \in ObRespMsg
    BY <2>2, LengthsAssumption, SMT DEF NotifyMsg, ObRespMsg
  <2> HIDE DEF m
  <2>4. \A f \in EncodeObGetNotifyResp_OverDeviceSendResp(m, size) :
          Carried([to |-> "device", kind |-> "notifyresp", frame |-> f, sent |-> m])
    BY <2>3, ObRespCarried, Zenon DEF EncodeObGetNotifyResp_OverDeviceSendResp, EncodeObGetNotifyResp
  <2>5. work' = None /\ Sends("device", "notifyresp", 
                                EncodeObGetNotifyResp_OverDeviceSendResp(m, size), m)
    BY <2>1, Zenon DEF Answers
  <2>6. QED BY <2>4, <2>5, SentCarried, Zenon DEF Kept, WorkOK, None
<1>9. ASSUME NEW v \in Verifies, DeviceVerifies(v) PROVE Kept'
  <2>1. v \in VerifyMsg
    BY Inputs
  <2>2. \A f \in EncodeVerifyReq(v) :
          Carried([to |-> "server", kind |-> "verify", frame |-> f, sent |-> v])
    BY <2>1, VerifyCarried, Zenon
  <2>3. QED BY <1>9, <2>2, SentCarried, Zenon DEF DeviceVerifies, Starts, Kept, WorkOK
<1>10. ASSUME NEW id \in Ids, NEW t \in Timeouts, DevicePings(id, t) PROVE Kept'
  <2> DEFINE m == [id |-> id, timeout |-> t]
  <2>1. m \in [id : U16, timeout : U16] /\ m.id = id /\ m.timeout = t
    BY Inputs
  <2> DEFINE frames == {EncodePingReq(id, t)}
  <2>2. Sends("server", "ping", frames, m)
                /\ work' = work
    BY <1>10, Zenon DEF DevicePings, Starts
  <2> HIDE DEF m
  <2>3. \A f \in frames :
          Carried([to |-> "server", kind |-> "ping", frame |-> f, sent |-> m])
    BY <2>1, PingCarried, Zenon
  <2> HIDE DEF frames
  <2>4. QED BY <2>2, <2>3, SentCarried, Zenon DEF Kept, WorkOK
<1>11. ASSUME ServerPongs PROVE Kept'
  <2> DEFINE code == IF work.got.timeout \in {0} \cup HeartbeatRange
                     THEN Code_Success ELSE Code_ParaInvalid
  <2> DEFINE m == [id |-> work.got.id, code |-> code]
  <2>1. Answers("server", "device", "ping", "resp", {EncodePingResp(m.id, m.code)}, m)
    BY <1>11, Zenon DEF ServerPongs
  <2>2. work.got.id \in U16
    BY <2>1, Zenon DEF Answers, Kept, WorkOK
  <2>3. m \in [id : U16, code : 0 .. 7]
    BY <2>2, SMT DEF Code_Success, Code_ParaInvalid
  <2> DEFINE frames == {EncodePingResp(m.id, m.code)}
  <2>4. work' = None /\ Sends("device", "resp", frames, m)
    BY <2>1, Zenon DEF Answers
  <2> HIDE DEF m
  <2>5. \A f \in frames :
          Carried([to |-> "device", kind |-> "resp", frame |-> f, sent |-> m])
    <3>1. EncodePingResp(m.id, m.code).header
            = EncodeHeader(HeaderOf(MsgType_DevicePingResp, m.id, 0, m.code))
      BY Zenon DEF EncodePingResp
    <3>2. QED BY <2>3, <3>1, RespCarried, Zenon
  <2> HIDE DEF frames
  <2>6. QED BY <2>4, <2>5, SentCarried, Zenon DEF Kept, WorkOK, None
<1>12. ASSUME ServerRefuses PROVE Kept'
  <2> DEFINE m == [id |-> work.got.id, code |-> Code_VerifyFail]
  <2>1. Answers("server", "device", "verify", "resp", {EncodeVerifyResp(m.id, m.code)}, m)
    BY <1>12, Zenon DEF ServerRefuses
  <2>2. work.got.id \in U16
    BY <2>1, Zenon DEF Answers, Kept, WorkOK
  <2>3. m \in [id : U16, code : 0 .. 7]
    BY <2>2, SMT DEF Code_VerifyFail
  <2> DEFINE frames == {EncodeVerifyResp(m.id, m.code)}
  <2>4. work' = None /\ Sends("device", "resp", frames, m)
    BY <2>1, Zenon DEF Answers
  <2> HIDE DEF m
  <2>5. \A f \in frames :
          Carried([to |-> "device", kind |-> "resp", frame |-> f, sent |-> m])
    <3>1. EncodeVerifyResp(m.id, m.code).header
            = EncodeHeader(HeaderOf(MsgType_DeviceVerifyResp, m.id, 0, m.code))
      BY Zenon DEF EncodeVerifyResp
    <3>2. QED BY <2>3, <3>1, RespCarried, Zenon
  <2> HIDE DEF frames
  <2>6. QED BY <2>4, <2>5, SentCarried, Zenon DEF Kept, WorkOK, None
<1>13. ASSUME NEW side, Fails(side) \/ Panics(side) PROVE Kept'
  BY <1>13, Zenon DEF Fails, Panics, Reads, Kept, WorkOK
<1>14. ASSUME NEW side, Takes(side) PROVE Kept'
  <2>1. PICK got \in Results :
          work' = IF flight.kind \in {"coreq", "estab", "notify"}
                  THEN [at |-> side, kind |-> flight.kind, got |-> got] ELSE None
    BY <1>14, Zenon DEF Takes
  <2>2. flight' = None /\ flight # None
    BY <1>14, Zenon DEF Takes, Reads
  <2>3. CASE flight.kind \in {"coreq", "estab", "notify"}
    <3>1. got \in MsgOf(flight.kind)
      BY <2>2, <2>3, Zenon DEF Kept, Carried, Results
    <3>2. work' = [at |-> side, kind |-> flight.kind, got |-> got]
      BY <2>1, <2>3, Zenon
    <3>3. WorkOK'
      BY <2>3, <3>1, <3>2, SMT DEF WorkOK
    <3>4. QED BY <2>2, <3>3, Zenon DEF Kept
  <2>4. CASE flight.kind \notin {"coreq", "estab", "notify"}
    BY <2>1, <2>2, <2>4, SMT DEF Kept, WorkOK, None
  <2>5. QED BY <2>3, <2>4
<1>15. ASSUME ServerVerifies PROVE Kept'
  BY <1>15, Zenon DEF ServerVerifies, Reads, Kept, WorkOK
<1>16. ASSUME ServerRejects \/ ServerPinged PROVE Kept'
  <2>1. flight' = None /\ flight # None /\ flight.kind \in {"verify", "ping"}
    BY <1>16, Zenon DEF ServerRejects, ServerPinged, Reads
  <2>2. PICK got \in Results : work' \in {[at |-> "server", kind |-> "verify", got |-> got],
                                         [at |-> "server", kind |-> "ping", got |-> got]}
    BY <1>16, Zenon DEF ServerRejects, ServerPinged
  <2>3. got.id \in U16
    BY <2>1, <2>2, Zenon DEF Kept, Carried, Results, VerifyMsg
  <2>4. WorkOK'
    BY <2>2, <2>3, SMT DEF WorkOK
  <2>5. QED BY <2>1, <2>4, Zenon DEF Kept
<1>17. ASSUME ExchangeEnds PROVE Kept'
  BY <1>17, Zenon DEF ExchangeEnds, Kept, WorkOK
<1>18. QED
  BY <1>1, <1>2, <1>3, <1>4, <1>5, <1>6, <1>7, <1>8, <1>9, <1>10, <1>11, <1>12, <1>13, <1>14,
     <1>15, <1>16, <1>17, ZenonT(60) DEF Next

LEMMA InitKept == Init => Kept
<1>1. Init => flight = None /\ work = None
  BY SMT DEF Init
<1>2. QED BY <1>1, SMT DEF Kept, WorkOK, None

LEMMA KeptAlways == Spec => []Kept
<1>1. Kept /\ UNCHANGED vars => Kept'
  BY Zenon DEF Kept, WorkOK, vars
<1>2. QED BY InitKept, KeptStep, <1>1, PTL DEF Spec

LEMMA ReadsIntact ==
  ASSUME NEW side, Kept, Reads(side)
  PROVE  Intact'
<1>1. SUFFICES ASSUME skewed' = {}, NEW got \in last'.got PROVE got = last'.sent
  BY Zenon DEF Intact
<1>2. /\ flight # None /\ last'.got = Results /\ last'.sent = flight.sent
      /\ skewed' = IF \E h \in DecodeHeader(flight.frame.header) :
                        h.bodyLen < BodySize(flight.frame) THEN {side} ELSE skewed
  BY Zenon DEF Reads
<1>3. ~ \E h \in DecodeHeader(flight.frame.header) : h.bodyLen < BodySize(flight.frame)
  BY <1>1, <1>2, Zenon
<1>4. QED BY <1>1, <1>2, <1>3, Zenon DEF Kept, Carried, Results

LEMMA IntactStep == Kept /\ Intact /\ [Next]_vars => Intact'
<1> SUFFICES ASSUME Kept, Intact, [Next]_vars PROVE Intact'
  OBVIOUS
<1>1. ASSUME NEW to, NEW kind, NEW frames, NEW m, Sends(to, kind, frames, m), last' = last
      PROVE  Intact'
  BY <1>1, Zenon DEF Sends, Intact
<1>2. ASSUME NEW to, NEW kind, NEW frames, NEW m, Starts(to, kind, frames, m) PROVE Intact'
  BY <1>1, <1>2, Zenon DEF Starts
<1>3. ASSUME NEW at, NEW to, NEW kind, NEW answer, NEW frames, NEW m,
             Answers(at, to, kind, answer, frames, m)
      PROVE  Intact'
  BY <1>1, <1>3, Zenon DEF Answers
<1>4. CASE \E m \in CoReqs : UserGets(m) \/ DeviceGets(m)
  BY <1>2, <1>4, Zenon DEF UserGets, DeviceGets
<1>5. CASE \E m \in EstabReqs : UserObserves(m)
  BY <1>2, <1>5, Zenon DEF UserObserves
<1>6. CASE \E m \in NotifyReqs : DeviceNotifies(m)
  BY <1>2, <1>6, Zenon DEF DeviceNotifies
<1>7. CASE \E code \in {2, 5}, n \in Lengths : DeviceAnswersCo(code, n) \/ ServerAnswersCo(code, n)
  BY <1>3, <1>7, Zenon DEF DeviceAnswersCo, ServerAnswersCo
<1>8. CASE \E code \in {3, 4, 5} : DeviceAnswersOb(code) \/ ServerAnswersOb(code)
  BY <1>3, <1>8, Zenon DEF DeviceAnswersOb, ServerAnswersOb
<1>9. CASE \/ \E v \in Verifies : DeviceVerifies(v)
           \/ \E id \in Ids, t \in Timeouts : DevicePings(id, t)
  BY <1>2, <1>9, Zenon DEF DeviceVerifies, DevicePings
<1>10. CASE ServerPongs \/ ServerRefuses
  BY <1>3, <1>10, Zenon DEF ServerPongs, ServerRefuses
<1>11. CASE \E side \in {"device", "server"} : Fails(side) \/ Panics(side) \/ Takes(side)
  BY <1>11, ReadsIntact, Zenon DEF Fails, Panics, Takes
<1>12. CASE ServerVerifies \/ ServerRejects \/ ServerPinged
  BY <1>12, ReadsIntact, Zenon DEF ServerVerifies, ServerRejects, ServerPinged
<1>13. CASE ExchangeEnds
  BY <1>13, Zenon DEF ExchangeEnds, Intact
<1>14. CASE UNCHANGED vars
  BY <1>14, Zenon DEF vars, Intact
<1>15. QED
  BY <1>4, <1>5, <1>6, <1>7, <1>8, <1>9, <1>10, <1>11, <1>12, <1>13, <1>14, Zenon DEF Next

\* On every connection whose readers have kept their place, each decoder returns
\* the message that the other side encoded.
THEOREM IntactAlways == Spec => []Intact
<1>1. Init => Intact
  BY Zenon DEF Init, Intact
<1>2. QED BY <1>1, IntactStep, KeptAlways, PTL DEF Spec

-----------------------------------------------------------------------------
(* What a length costs: when a reader loses its place, and when a connection is
   closed.                                                                  *)

\* A request of an observation is too short for its decoder only if it has lost 64 KiB:
\* for the server, if it is a notification whose header counts one byte or two.
ObReqs(f) ==
  /\ NoObReq(f.to, f.frame) => BodySize(f.frame) >= 65536
  /\ NoObReq(f.to, f.frame) /\ f.to # "device" =>
       f.kind = "notify" /\ UInt16(BodySize(f.frame)) \in {1, 2}
  /\ f.kind = "notify" => f.to = "server"
  /\ f.kind = "notify" /\ UInt16(BodySize(f.frame)) \in {1, 2} => NoObReq(f.to, f.frame)

\* A header counts the bytes of its frame modulo 2^16, and decodes unless they are
\* too many.  A frame that is read as a whole decodes, but for a verification and
\* for a response that tells of a failure.
Counted(f) ==
  /\ ObReqs(f)
  /\ BodySize(f.frame) \in Nat
  /\ BodySize(f.frame) <= 4096 => \E h \in DecodeHeader(f.frame.header) : TRUE
  /\ \A h \in DecodeHeader(f.frame.header) :
       /\ h.bodyLen = UInt16(BodySize(f.frame))
       /\ h.bodyLen = BodySize(f.frame) /\ f.kind \notin {"verify", "resp"}
            => Decoded(f.kind, h, BodyOf(f.frame, h), f.sent) # {}

\* The device gets no frame of 64 KiB, and a request within its capacity, but for
\* the four bytes of CoReq.
Bounded(f) ==
  f.to = "device" =>
    /\ BodySize(f.frame) < 65536
    /\ f.kind = "coreq" => /\ f.sent.data \in Nat /\ f.sent.data <= BodyCapSize - 1
                           /\ BodySize(f.frame) = 5 + f.sent.data
    /\ f.kind = "estab" => BodySize(f.frame) <= BodyCapSize

FrameOf(frame, type, b) ==
  /\ frame.head = b.head /\ frame.data = b.data
  /\ BodySize(frame) = Len(b.head) + b.data
  /\ BodySize(frame) <= 4096 => \E h \in DecodeHeader(frame.header) : TRUE
  /\ UInt16(BodySize(frame)) <= 4096 => \E h \in DecodeHeader(frame.header) : TRUE
  /\ \A h \in DecodeHeader(frame.header) :
       h.type = type /\ h.bodyLen = UInt16(BodySize(frame))

LEMMA SuccessHeader ==
  \A type \in 1 .. 15, id \in U16, len \in U16 :
    DecodeHeader(EncodeHeader(HeaderOf(type, id, len, Code_Success)))
      = {h \in {HeaderOf(type, id, len, Code_Success)} : h.bodyLen <= 4096}
<1>1. Code_Success \in 0 .. 7
  BY SMT DEF Code_Success
<1>2. QED BY <1>1, HeaderFields

LEMMA OverCounts ==
  ASSUME NEW type \in 1 .. 15, NEW id \in U16, NEW b, NEW bodies, bodies \subseteq {b},
         Len(b.head) \in Nat, b.data \in Nat,
         NEW frame \in Over(type, id, bodies)
  PROVE  b \in bodies /\ FrameOf(frame, type, b)
<1> DEFINE len == UInt16(Len(b.head) + UInt16(b.data))
<1>1. /\ frame.head = b.head /\ frame.data = b.data
      /\ \A h \in DecodeHeader(frame.header) :
           /\ h.type = type /\ h.id = id
           /\ h.bodyLen = UInt16(Len(b.head) + b.data) /\ h.bodyLen \in Nat
  BY OverHeader, SMTT(30)
<1>2. BodySize(frame) = Len(b.head) + b.data
  BY <1>1 DEF BodySize
<1>a. frame = [header |-> EncodeHeader(HeaderOf(type, id, len, Code_Success)),
               head |-> b.head, data |-> b.data]
  BY Zenon DEF Over, len
<1>b. b \in bodies
  BY Zenon DEF Over
<1>3. frame.header = EncodeHeader(HeaderOf(type, id, len, Code_Success))
  BY <1>a, Zenon
<1>4. len = (Len(b.head) + b.data) % 65536
  BY Wrap, SMT DEF UInt16
<1>5. len \in U16
  BY <1>4, Width, Len(b.head) + b.data \in Nat, SMT
<1> HIDE DEF len
<1> DEFINE g == HeaderOf(type, id, len, Code_Success)
<1>c. DecodeHeader(EncodeHeader(g)) = {h \in {g} : h.bodyLen <= 4096}
  BY <1>5, SuccessHeader, SMTT(30)
<1>d. g.bodyLen = len
  BY DEF HeaderOf
<1>e. frame.header = EncodeHeader(g)
  BY <1>3
<1> HIDE DEF g
<1>7. len <= 4096 => \E h \in DecodeHeader(frame.header) : TRUE
  BY <1>c, <1>d, <1>e
<1>8. len <= Len(b.head) + b.data
  BY <1>4, SMT
<1>9. len \in Nat
  BY <1>5 DEF U16
<1>10. UInt16(BodySize(frame)) = len
  BY <1>2, <1>4 DEF UInt16
<1>11. QED BY <1>1, <1>2, <1>b, <1>7, <1>8, <1>9, <1>10 DEF FrameOf

\* The reader of a frame that is read as a whole has its bytes.
LEMMA ReadWhole ==
  ASSUME NEW frame, NEW h, frame.head \in Seq(Nat), frame.data \in Nat,
         h.bodyLen = BodySize(frame)
  PROVE  BodyOf(frame, h) = [head |-> frame.head, data |-> frame.data]
  BY SMT DEF BodyOf, BodySize

LEMMA TypesDiffer ==
  /\ \A type \in {MsgType_DeviceSendReq, MsgType_ServerSendReq} :
       type \in 1 .. 15 /\ \A kind, h, body, m :
         h.type = type => Decoded(kind, h, body, m) = DecodedReq(h, body)
  /\ \A type \in {MsgType_DeviceSendResp, MsgType_ServerSendResp} :
       type \in 1 .. 15 /\ \A kind, h, body, m :
         h.type = type => Decoded(kind, h, body, m) = DecodedResp(kind, h, body)
  BY SMT DEF Decoded, MsgType_DeviceSendReq, MsgType_ServerSendReq, MsgType_DeviceVerifyReq,
     MsgType_DevicePingReq, MsgType_DeviceVerifyResp, MsgType_DevicePingResp,
     MsgType_DeviceSendResp, MsgType_ServerSendResp

\* A frame that is no request, or of another method, is no request of an observation.
LEMMA OtherKind ==
  ASSUME NEW to, NEW kind, kind # "notify", NEW frame, NEW m,
         \A h \in DecodeHeader(frame.header) :
           \/ h.type \notin {MsgType_DeviceSendReq, MsgType_ServerSendReq}
           \/ Method_ObservedGet \notin DecodeMethod(BodyOf(frame, h))
  PROVE  ObReqs([to |-> to, kind |-> kind, frame |-> frame, sent |-> m])
<1>1. ~NoObReq(to, frame)
  BY Zenon DEF NoObReq, RequestsTo
<1> DEFINE f == [to |-> to, kind |-> kind, frame |-> frame, sent |-> m]
<1>2. f.to = to /\ f.kind = kind /\ f.frame = frame
  OBVIOUS
<1> HIDE DEF f
<1>3. ~NoObReq(f.to, f.frame) /\ f.kind # "notify"
  BY <1>1, <1>2, Zenon
<1>4. ObReqs(f)
  BY <1>3, SMT DEF ObReqs
<1>5. QED BY <1>4 DEF f

\* The types of the other messages.
LEMMA OtherTypes ==
  \A type \in {MsgType_DeviceSendResp, MsgType_ServerSendResp, MsgType_DeviceVerifyReq,
               MsgType_DevicePingReq, MsgType_DeviceVerifyResp, MsgType_DevicePingResp} :
    type \notin {MsgType_DeviceSendReq, MsgType_ServerSendReq}
  BY SMT DEF MsgType_DeviceSendReq, MsgType_ServerSendReq, MsgType_DeviceVerifyReq,
     MsgType_DevicePingReq, MsgType_DeviceVerifyResp, MsgType_DevicePingResp,
     MsgType_DeviceSendResp, MsgType_ServerSendResp

LEMMA CoReqCounted ==
  ASSUME NEW m \in CoReqMsg, m.data \in Nat, NEW to, NEW size,
         NEW type \in {MsgType_DeviceSendReq, MsgType_ServerSendReq},
         NEW frame \in Over(type, m.id, EncodeCoReq(m, size))
  PROVE  /\ Counted([to |-> to, kind |-> "coreq", frame |-> frame, sent |-> m])
         /\ BodySize(frame) = 5 + m.data
<1> DEFINE head == <<(m.method % 16) * 16, Top(m.uri), Second(m.uri), High(m.uri), Low(m.uri)>>
<1> DEFINE b == [head |-> head, data |-> m.data]
<1>1. EncodeCoReq(m, size) \subseteq {b}
  BY Zenon DEF EncodeCoReq, Into
<1>2. /\ Len(head) = 5 /\ b.data = m.data /\ b.head = head
      /\ Len(b.head) \in Nat /\ b.data \in Nat
  BY SMT
<1>3. head \in Seq(Nat) /\ head[1] \div 16 # 3
  BY SMT DEF Top, Second, High, Low, CoReqMsg, U32
<1> HIDE DEF b, head
<1>4. type \in 1 .. 15 /\ m.id \in U16
  BY TypesDiffer DEF CoReqMsg
<1>a. FrameOf(frame, type, b)
  BY <1>1, <1>2, <1>4, OverCounts, Zenon
<1>5. frame.head = head /\ frame.data = m.data /\ BodySize(frame) = 5 + m.data
  BY <1>a, <1>2 DEF FrameOf
<1>6. ASSUME NEW h \in DecodeHeader(frame.header), h.bodyLen = BodySize(frame)
      PROVE  Decoded("coreq", h, BodyOf(frame, h), m) # {}
  <2> DEFINE body == BodyOf(frame, h)
  <2>1. body = [head |-> head, data |-> m.data]
    BY <1>3, <1>5, <1>6, ReadWhole
  <2> HIDE DEF body
  <2>2. body.head = head /\ BodySize(body) = 5 + m.data
    BY <1>2, <2>1 DEF BodySize
  <2>3. DecodeMethod(body) = {head[1] \div 16}
    BY <2>2 DEF DecodeMethod, HeaderLen_RestMin
  <2>4. DecodeCoReq(h.id, body) # {}
    <3>1. ~(BodySize(body) < HeaderLen_CoReq)
      BY <2>2 DEF HeaderLen_CoReq
    <3>2. QED BY <3>1, Zenon DEF DecodeCoReq
  <2>5. DecodedReq(h, body) # {}
    BY <1>3, <2>3, <2>4 DEF DecodedReq, Method_ObservedGet
  <2>6. QED BY <1>a, <2>5, TypesDiffer DEF body, FrameOf
<1>7. ASSUME NEW h \in DecodeHeader(frame.header)
      PROVE  Method_ObservedGet \notin DecodeMethod(BodyOf(frame, h))
  <2>1. h.bodyLen \in Nat
    BY <1>a, <1>5 DEF FrameOf, UInt16
  <2>2. frame.head = head /\ Len(head) >= 1
    BY <1>2, <1>5
  <2>a. frame.head \in Seq(Nat) /\ Len(frame.head) >= 1 /\ frame.head[1] \div 16 # 3
    BY <1>3, <2>2
  <2>3. DecodeMethod(BodyOf(frame, h)) \subseteq {frame.head[1] \div 16}
    BY <2>1, <2>a, MethodKept
  <2>4. QED BY <2>a, <2>3 DEF Method_ObservedGet
<1>8. ObReqs([to |-> to, kind |-> "coreq", frame |-> frame, sent |-> m])
  BY <1>7, OtherKind
<1>9. QED BY <1>a, <1>5, <1>6, <1>8 DEF Counted, FrameOf

LEMMA EstabCounted ==
  ASSUME NEW m \in EstabMsg, m.data \in Nat, NEW to \in {"device", "server"}, NEW size,
         NEW type \in {MsgType_ServerSendReq},
         NEW frame \in Over(type, m.id, EncodeObGetEstabReq(m, size))
  PROVE  /\ Counted([to |-> to, kind |-> "estab", frame |-> frame, sent |-> m])
         /\ BodySize(frame) = 7 + m.data
<1> DEFINE head == <<(m.method % 16) * 16, High(m.obid), Low(m.obid), Top(m.uri), Second(m.uri),
                     High(m.uri), Low(m.uri)>>
<1> DEFINE b == [head |-> head, data |-> m.data]
<1>1. EncodeObGetEstabReq(m, size) \subseteq {b}
  BY Zenon DEF EncodeObGetEstabReq, Into
<1>2. /\ Len(head) = 7 /\ b.data = m.data /\ b.head = head
      /\ Len(b.head) \in Nat /\ b.data \in Nat
  BY SMT
<1>3. head \in Seq(Nat) /\ head[1] \div 16 = 3
  BY SMT DEF Top, Second, High, Low, EstabMsg, U16, U32
<1> HIDE DEF b, head
<1>4. type \in 1 .. 15 /\ m.id \in U16
  BY TypesDiffer DEF EstabMsg
<1>a. FrameOf(frame, type, b)
  BY <1>1, <1>2, <1>4, OverCounts, Zenon
<1>5. frame.head = head /\ frame.data = m.data /\ BodySize(frame) = 7 + m.data
  BY <1>a, <1>2 DEF FrameOf
<1>6. ASSUME NEW h \in DecodeHeader(frame.header), h.bodyLen = BodySize(frame)
      PROVE  Decoded("estab", h, BodyOf(frame, h), m) # {}
  <2> DEFINE body == BodyOf(frame, h)
  <2>1. body = [head |-> head, data |-> m.data]
    BY <1>3, <1>5, <1>6, ReadWhole
  <2> HIDE DEF body
  <2>2. body.head = head /\ BodySize(body) = 7 + m.data
    BY <1>2, <2>1 DEF BodySize
  <2>3. DecodeMethod(body) = {head[1] \div 16}
    BY <2>2 DEF DecodeMethod, HeaderLen_RestMin
  <2>4. DecodeObGetEstabReq(h.id, body) # {}
    <3>1. ~(BodySize(body) < HeaderLen_ObGetEstabReq)
      BY <2>2 DEF HeaderLen_ObGetEstabReq
    <3>2. QED BY <3>1, Zenon DEF DecodeObGetEstabReq
  <2>a. h.type # MsgType_DeviceSendReq
    BY <1>a DEF FrameOf, MsgType_DeviceSendReq, MsgType_ServerSendReq
  <2>5. DecodedReq(h, body) # {}
    BY <1>3, <2>3, <2>4, <2>a DEF DecodedReq, Method_ObservedGet
  <2>6. QED BY <1>a, <2>5, TypesDiffer DEF body, FrameOf
<1>7. ASSUME NEW h \in DecodeHeader(frame.header), DecodedReq(h, BodyOf(frame, h)) = {}
      PROVE  BodySize(frame) >= 65536
  <2>1. h.bodyLen = BodySize(frame) % 65536 /\ BodySize(frame) \in Nat
    BY <1>a, <1>5 DEF FrameOf, UInt16
  <2>2. h.bodyLen # BodySize(frame)
    BY <1>6, <1>7, <1>a, TypesDiffer DEF FrameOf
  <2>3. QED BY <2>1, <2>2
<1>8. NoObReq(to, frame) => BodySize(frame) >= 65536
  <2>1. SUFFICES ASSUME NoObReq(to, frame) PROVE BodySize(frame) >= 65536
    OBVIOUS
  <2>2. PICK h \in DecodeHeader(frame.header) : DecodedReq(h, BodyOf(frame, h)) = {}
    BY <2>1, Zenon DEF NoObReq
  <2>3. QED BY <1>7, <2>2
<1>9. \A h \in DecodeHeader(frame.header) : h.type = MsgType_ServerSendReq
  BY <1>a DEF FrameOf
<1>10. NoObReq(to, frame) => to # "server"
  BY <1>9, SMT DEF NoObReq, RequestsTo, MsgType_DeviceSendReq, MsgType_ServerSendReq
<1> DEFINE f == [to |-> to, kind |-> "estab", frame |-> frame, sent |-> m]
<1>11. f.to = to /\ f.kind = "estab" /\ f.frame = frame
  OBVIOUS
<1> HIDE DEF f
<1>12. ObReqs(f)
  BY <1>8, <1>10, <1>11, SMT DEF ObReqs
<1>13. ObReqs([to |-> to, kind |-> "estab", frame |-> frame, sent |-> m])
  BY <1>12 DEF f
<1>14. QED BY <1>a, <1>5, <1>6, <1>13 DEF Counted, FrameOf

LEMMA NotifyCounted ==
  ASSUME NEW m \in NotifyMsg, m.data \in Nat, NEW size,
         NEW type \in {MsgType_DeviceSendReq},
         NEW frame \in Over(type, m.id, EncodeObGetNotifyReq(m, size))
  PROVE  /\ Counted([to |-> "server", kind |-> "notify", frame |-> frame, sent |-> m])
         /\ BodySize(frame) = 3 + m.data
<1> DEFINE head == <<First(m), High(m.obid), Low(m.obid)>>
<1> DEFINE b == [head |-> head, data |-> m.data]
<1>1. EncodeObGetNotifyReq(m, size) \subseteq {b}
  BY Zenon DEF EncodeObGetNotifyReq, Into
<1>2. /\ Len(head) = 3 /\ b.data = m.data /\ b.head = head
      /\ Len(b.head) \in Nat /\ b.data \in Nat
  BY SMT
<1>3. head \in Seq(Nat) /\ head[1] \div 16 = 3
  BY SMT DEF First, High, Low, NotifyMsg, U16
<1> HIDE DEF b, head
<1>4. type \in 1 .. 15 /\ m.id \in U16
  BY TypesDiffer DEF NotifyMsg
<1>a. FrameOf(frame, type, b)
  BY <1>1, <1>2, <1>4, OverCounts, Zenon
<1>5. frame.head = head /\ frame.data = m.data /\ BodySize(frame) = 3 + m.data
  BY <1>a, <1>2 DEF FrameOf
<1>6. ASSUME NEW h \in DecodeHeader(frame.header), h.bodyLen = BodySize(frame)
      PROVE  Decoded("notify", h, BodyOf(frame, h), m) # {}
  <2> DEFINE body == BodyOf(frame, h)
  <2>1. body = [head |-> head, data |-> m.data]
    BY <1>3, <1>5, <1>6, ReadWhole
  <2> HIDE DEF body
  <2>2. body.head = head /\ BodySize(body) = 3 + m.data
    BY <1>2, <2>1 DEF BodySize
  <2>3. DecodeMethod(body) = {head[1] \div 16}
    BY <2>2 DEF DecodeMethod, HeaderLen_RestMin
  <2>4. DecodeObGetNotifyReq(h.id, body) # {}
    <3>1. ~(BodySize(body) < HeaderLen_ObGetNotifyReq)
      BY <2>2 DEF HeaderLen_ObGetNotifyReq
    <3>2. QED BY <3>1, Zenon DEF DecodeObGetNotifyReq
  <2>a. h.type = MsgType_DeviceSendReq
    BY <1>a DEF FrameOf, MsgType_DeviceSendReq, MsgType_ServerSendReq
  <2>5. DecodedReq(h, body) # {}
    BY <1>3, <2>3, <2>4, <2>a DEF DecodedReq, Method_ObservedGet
  <2>6. QED BY <1>a, <2>5, TypesDiffer DEF body, FrameOf
<1>7. \A h \in DecodeHeader(frame.header) :
        /\ h.type = MsgType_DeviceSendReq /\ h.bodyLen = UInt16(BodySize(frame))
        /\ h.bodyLen \in Nat
  BY <1>a, <1>5 DEF FrameOf, UInt16
<1>8. ASSUME NEW h \in DecodeHeader(frame.header)
      PROVE  /\ Method_ObservedGet \in DecodeMethod(BodyOf(frame, h)) => h.bodyLen >= 1
             /\ h.bodyLen >= 3 => DecodedReq(h, BodyOf(frame, h)) # {}
                                \/ Method_ObservedGet \notin DecodeMethod(BodyOf(frame, h))
             /\ h.bodyLen \in {1, 2} => /\ Method_ObservedGet \in DecodeMethod(BodyOf(frame, h))
                                        /\ DecodedReq(h, BodyOf(frame, h)) = {}
  <2>1. h.bodyLen \in Nat /\ h.type = MsgType_DeviceSendReq
    BY <1>7
  <2> DEFINE body == BodyOf(frame, h)
  <2>2. CASE h.bodyLen >= 3
    <3>0. Len(frame.head) = 3
      BY <1>2, <1>5
    <3>1. ~(h.bodyLen < Len(frame.head))
      BY <2>1, <2>2, <3>0
    <3>2. ~(BodySize(body) < Len(frame.head))
      BY <1>3, <1>5, <2>1, <3>1, WholeBody
    <3>3. DecodeObGetNotifyReq(h.id, body) # {}
      BY <1>2, <1>5, <3>2, Zenon DEF DecodeObGetNotifyReq, HeaderLen_ObGetNotifyReq
    <3> HIDE DEF body
    <3>4. Method_ObservedGet \in DecodeMethod(body) => DecodedReq(h, body) # {}
      BY <2>1, <3>3 DEF DecodedReq
    <3>5. h.bodyLen >= 1 /\ h.bodyLen \notin {1, 2}
      BY <2>1, <2>2
    <3>6. QED BY <3>4, <3>5 DEF body
  <2>3. CASE h.bodyLen < 3
    <3>1. h.bodyLen < Len(frame.head)
      BY <1>2, <1>5, <2>1, <2>3
    <3>2. body = [head |-> SubSeq(head, 1, h.bodyLen), data |-> 0]
      BY <1>5, <3>1 DEF BodyOf
    <3>3. BodySize(body) = h.bodyLen
      BY <1>2, <1>3, <1>5, <2>1, <3>1, <3>2, SMT DEF BodySize
    <3>4. h.bodyLen >= 1 => body.head[1] = head[1]
      BY <1>2, <1>3, <1>5, <2>1, <3>1, <3>2, SMT
    <3> HIDE DEF body
    <3>5. h.bodyLen = 0 => DecodeMethod(body) = {}
      BY <3>3 DEF DecodeMethod, HeaderLen_RestMin
    <3>6. h.bodyLen >= 1 => DecodeMethod(body) = {Method_ObservedGet}
      BY <1>3, <2>1, <3>3, <3>4 DEF DecodeMethod, HeaderLen_RestMin, Method_ObservedGet
    <3>7. DecodeObGetNotifyReq(h.id, body) = {}
      BY <2>3, <3>3 DEF DecodeObGetNotifyReq, HeaderLen_ObGetNotifyReq
    <3>8. h.bodyLen >= 1 => DecodedReq(h, body) = {}
      BY <2>1, <3>6, <3>7 DEF DecodedReq
    <3>9. QED BY <2>1, <2>3, <3>5, <3>6, <3>8 DEF body
  <2>4. QED BY <2>1, <2>2, <2>3
<1>9. NoObReq("server", frame) => UInt16(BodySize(frame)) \in {1, 2}
  <2>1. SUFFICES ASSUME NoObReq("server", frame) PROVE UInt16(BodySize(frame)) \in {1, 2}
    OBVIOUS
  <2>2. PICK h \in DecodeHeader(frame.header) :
          /\ Method_ObservedGet \in DecodeMethod(BodyOf(frame, h))
          /\ DecodedReq(h, BodyOf(frame, h)) = {}
    BY <2>1, Zenon DEF NoObReq
  <2>3. h.bodyLen >= 1 /\ ~(h.bodyLen >= 3) /\ h.bodyLen \in Nat
    BY <1>7, <1>8, <2>2
  <2>4. h.bodyLen \in {1, 2}
    BY <2>3
  <2>5. QED BY <1>7, <2>4
<1>10. UInt16(BodySize(frame)) \in {1, 2} => NoObReq("server", frame)
  <2>1. SUFFICES ASSUME UInt16(BodySize(frame)) \in {1, 2} PROVE NoObReq("server", frame)
    OBVIOUS
  <2>2. PICK h \in DecodeHeader(frame.header) : TRUE
    BY <1>a, <2>1 DEF FrameOf
  <2>3. h.bodyLen \in {1, 2} /\ h.type = MsgType_DeviceSendReq
    BY <1>7, <2>1, <2>2
  <2>4. /\ Method_ObservedGet \in DecodeMethod(BodyOf(frame, h))
        /\ DecodedReq(h, BodyOf(frame, h)) = {}
    BY <1>8, <2>3
  <2>5. QED BY <2>3, <2>4, Zenon DEF NoObReq, RequestsTo
<1>11. UInt16(BodySize(frame)) \in {1, 2} => BodySize(frame) >= 65536
  BY <1>5 DEF UInt16
<1> DEFINE f == [to |-> "server", kind |-> "notify", frame |-> frame, sent |-> m]
<1>12. f.to = "server" /\ f.kind = "notify" /\ f.frame = frame
  OBVIOUS
<1> HIDE DEF f
<1>b. NoObReq(f.to, f.frame) <=> UInt16(BodySize(f.frame)) \in {1, 2}
  BY <1>9, <1>10, <1>12, Zenon
<1>c. UInt16(BodySize(f.frame)) \in {1, 2} => BodySize(f.frame) >= 65536
  BY <1>11, <1>12
<1>13. ObReqs(f)
  BY <1>12, <1>b, <1>c, SMT DEF ObReqs
<1>14. ObReqs([to |-> "server", kind |-> "notify", frame |-> frame, sent |-> m])
  BY <1>13 DEF f
<1>15. QED BY <1>a, <1>5, <1>6, <1>14 DEF Counted, FrameOf

LEMMA CoRespCounted ==
  ASSUME NEW m \in CoRespMsg, m.data \in Nat, NEW to, NEW size,
         NEW type \in {MsgType_DeviceSendResp, MsgType_ServerSendResp},
         NEW frame \in Over(type, m.id, EncodeCoResp(m, size))
  PROVE  /\ Counted([to |-> to, kind |-> "coresp", frame |-> frame, sent |-> m])
         /\ BodySize(frame) = 1 + m.data
<1> DEFINE head == <<First(m)>>
<1> DEFINE b == [head |-> head, data |-> m.data]
<1>1. EncodeCoResp(m, size) \subseteq {b}
  BY Zenon DEF EncodeCoResp, Into
<1>2. /\ Len(head) = 1 /\ b.data = m.data /\ b.head = head
      /\ Len(b.head) \in Nat /\ b.data \in Nat
  BY SMT
<1>3. head \in Seq(Nat)
  BY SMT DEF First, CoRespMsg
<1> HIDE DEF b, head
<1>4. type \in 1 .. 15 /\ m.id \in U16
  BY TypesDiffer DEF CoRespMsg
<1>a. FrameOf(frame, type, b)
  BY <1>1, <1>2, <1>4, OverCounts, Zenon
<1>5. frame.head = head /\ frame.data = m.data /\ BodySize(frame) = 1 + m.data
  BY <1>a, <1>2 DEF FrameOf
<1>6. ASSUME NEW h \in DecodeHeader(frame.header), h.bodyLen = BodySize(frame)
      PROVE  Decoded("coresp", h, BodyOf(frame, h), m) # {}
  <2> DEFINE body == BodyOf(frame, h)
  <2>1. body = [head |-> head, data |-> m.data]
    BY <1>3, <1>5, <1>6, ReadWhole
  <2> HIDE DEF body
  <2>2. BodySize(body) = 1 + m.data
    BY <1>2, <2>1 DEF BodySize
  <2>3. DecodeCoResp(h.id, body) # {}
    <3>1. ~(BodySize(body) < HeaderLen_CoResp)
      BY <2>2 DEF HeaderLen_CoResp
    <3>2. QED BY <3>1, Zenon DEF DecodeCoResp
  <2>4. DecodedResp("coresp", h, body) # {}
    BY <2>3 DEF DecodedResp
  <2>5. QED BY <1>a, <2>4, TypesDiffer DEF body, FrameOf
<1>7. \A h \in DecodeHeader(frame.header) :
        h.type \notin {MsgType_DeviceSendReq, MsgType_ServerSendReq}
  BY <1>a, OtherTypes DEF FrameOf
<1>8. ObReqs([to |-> to, kind |-> "coresp", frame |-> frame, sent |-> m])
  BY <1>7, OtherKind
<1>9. QED BY <1>a, <1>5, <1>6, <1>8 DEF Counted, FrameOf

LEMMA ObRespCounted ==
  ASSUME NEW m \in ObRespMsg, NEW to, NEW size, NEW kind \in {"estabresp", "notifyresp"},
         NEW type \in {MsgType_DeviceSendResp, MsgType_ServerSendResp},
         NEW frame \in Over(type, m.id, EncodeObGetEstabResp(m, size))
  PROVE  /\ Counted([to |-> to, kind |-> kind, frame |-> frame, sent |-> m])
         /\ BodySize(frame) = 3
<1> DEFINE head == <<First(m), High(m.obid), Low(m.obid)>>
<1> DEFINE b == [head |-> head, data |-> 0]
<1>1. EncodeObGetEstabResp(m, size) \subseteq {b}
  BY Zenon DEF EncodeObGetEstabResp, Into
<1>2. /\ Len(head) = 3 /\ b.data = 0 /\ b.head = head
      /\ Len(b.head) \in Nat /\ b.data \in Nat
  BY SMT
<1>3. head \in Seq(Nat)
  BY SMT DEF First, High, Low, ObRespMsg, U16
<1> HIDE DEF b, head
<1>4. type \in 1 .. 15 /\ m.id \in U16
  BY TypesDiffer DEF ObRespMsg
<1>a. FrameOf(frame, type, b)
  BY <1>1, <1>2, <1>4, OverCounts, Zenon
<1>5. frame.head = head /\ frame.data = 0 /\ BodySize(frame) = 3
  <2>1. frame.head = head /\ frame.data = 0 /\ BodySize(frame) = Len(b.head) + b.data
    BY <1>a, <1>2, Zenon DEF FrameOf
  <2>2. Len(b.head) + b.data = 3
    BY <1>2
  <2>3. QED BY <2>1, <2>2
<1>6. ASSUME NEW h \in DecodeHeader(frame.header), h.bodyLen = BodySize(frame)
      PROVE  Decoded(kind, h, BodyOf(frame, h), m) # {}
  <2> DEFINE body == BodyOf(frame, h)
  <2>1. body = [head |-> head, data |-> 0]
    BY <1>3, <1>5, <1>6, ReadWhole
  <2> HIDE DEF body
  <2>2. BodySize(body) = 3
    BY <1>2, <2>1 DEF BodySize
  <2>3. DecodeObGetEstabResp(h.id, body) # {}
    <3>1. ~(BodySize(body) < HeaderLen_ObGetEstabResp)
      BY <2>2 DEF HeaderLen_ObGetEstabResp
    <3>2. QED BY <3>1, Zenon DEF DecodeObGetEstabResp
  <2>4. DecodedResp(kind, h, body) # {}
    BY <2>3 DEF DecodedResp, DecodeObGetNotifyResp
  <2>5. QED BY <1>a, <2>4, TypesDiffer DEF body, FrameOf
<1>7. Counted([to |-> to, kind |-> kind, frame |-> frame, sent |-> m])
  <2>1. BodySize(frame) \in Nat
    BY <1>5
  <2>2. /\ BodySize(frame) <= 4096 => \E h \in DecodeHeader(frame.header) : TRUE
        /\ \A h \in DecodeHeader(frame.header) : h.bodyLen = UInt16(BodySize(frame))
    BY <1>a, Zenon DEF FrameOf
  <2> DEFINE f == [to |-> to, kind |-> kind, frame |-> frame, sent |-> m]
  <2>3. f.kind = kind /\ f.frame = frame /\ f.sent = m
    OBVIOUS
  <2>a. \A h \in DecodeHeader(frame.header) :
          h.type \notin {MsgType_DeviceSendReq, MsgType_ServerSendReq}
    BY <1>a, OtherTypes DEF FrameOf
  <2>b. ObReqs(f)
    BY <2>a, OtherKind
  <2> HIDE DEF f
  <2>4. Counted(f)
    BY <1>6, <2>1, <2>2, <2>3, <2>b DEF Counted
  <2>5. QED BY <2>4 DEF f
<1>8. QED BY <1>5, <1>7

LEMMA RespCounted ==
  ASSUME NEW m \in [id : U16, code : 0 .. 7], NEW to,
         NEW type \in {MsgType_DeviceVerifyResp, MsgType_DevicePingResp},
         NEW frame, frame.header = EncodeHeader(HeaderOf(type, m.id, 0, m.code)),
         frame.head = <<>>, frame.data = 0
  PROVE  /\ Counted([to |-> to, kind |-> "resp", frame |-> frame, sent |-> m])
         /\ BodySize(frame) = 0
<1> DEFINE g == HeaderOf(type, m.id, 0, m.code)
<1>1. type \in 1 .. 15 /\ m.id \in U16 /\ m.code \in 0 .. 7 /\ 0 \in U16
  BY SMT DEF MsgType_DeviceVerifyResp, MsgType_DevicePingResp, U16
<1>2. DecodeHeader(EncodeHeader(g)) = {h \in {g} : h.bodyLen <= 4096}
  BY <1>1, HeaderFields, SMTT(30)
<1>3. g.bodyLen = 0 /\ g.type = type
  BY DEF HeaderOf
<1>4. BodySize(frame) = 0
  BY DEF BodySize
<1> HIDE DEF g
<1>5. frame.header = EncodeHeader(g)
  BY DEF g
<1>6. \A h \in DecodeHeader(frame.header) :
        h.type \notin {MsgType_DeviceSendReq, MsgType_ServerSendReq}
  BY <1>2, <1>3, <1>5, OtherTypes
<1>7. ObReqs([to |-> to, kind |-> "resp", frame |-> frame, sent |-> m])
  BY <1>6, OtherKind
<1>8. QED BY <1>2, <1>3, <1>4, <1>5, <1>7 DEF Counted, UInt16

LEMMA PingCounted ==
  ASSUME NEW m \in [id : U16, timeout : U16], NEW to, NEW frame,
         frame = EncodePingReq(m.id, m.timeout)
  PROVE  Counted([to |-> to, kind |-> "ping", frame |-> frame, sent |-> m])
<1> DEFINE len == IF m.timeout = 0 THEN 0 ELSE 2
<1> DEFINE g == HeaderOf(MsgType_DevicePingReq, m.id, len, 0)
<1>1. /\ frame.head \in Seq(Nat)
      /\ Len(frame.head) = len /\ frame.data = 0
      /\ frame.header = EncodeHeader(g)
  BY SMT DEF EncodePingReq, High, Low, U16
<1>2. /\ MsgType_DevicePingReq \in 1 .. 15 /\ m.id \in U16 /\ len \in U16 /\ 0 \in 0 .. 7
  BY SMT DEF MsgType_DevicePingReq, U16
<1>3. DecodeHeader(EncodeHeader(g)) = {h \in {g} : h.bodyLen <= 4096}
  BY <1>2, HeaderFields
<1>4. g.bodyLen = len /\ g.type = MsgType_DevicePingReq
  BY DEF HeaderOf
<1>5. len \in {0, 2} /\ BodySize(frame) = len
  BY <1>1 DEF BodySize
<1> HIDE DEF g, len
<1>6. Decoded("ping", g, BodyOf(frame, g), m) # {}
  <2>1. DecodePingReqBody(g, BodyOf(frame, g)) # {}
    BY <1>4, <1>5 DEF DecodePingReqBody
  <2>2. Decoded("ping", g, BodyOf(frame, g), m)
          = {[id |-> g.id, timeout |-> t] : t \in DecodePingReqBody(g, BodyOf(frame, g))}
    BY <1>4, SMT DEF Decoded, MsgType_DeviceVerifyReq, MsgType_DevicePingReq,
       MsgType_DeviceVerifyResp, MsgType_DevicePingResp, MsgType_DeviceSendReq,
       MsgType_ServerSendReq, MsgType_DeviceSendResp, MsgType_ServerSendResp
  <2>3. PICK t \in DecodePingReqBody(g, BodyOf(frame, g)) : TRUE
    BY <2>1
  <2>4. [id |-> g.id, timeout |-> t] \in Decoded("ping", g, BodyOf(frame, g), m)
    BY <2>2, <2>3, Zenon
  <2>5. QED BY <2>4
<1>7. \A h \in DecodeHeader(frame.header) :
        h.type \notin {MsgType_DeviceSendReq, MsgType_ServerSendReq}
  BY <1>1, <1>3, <1>4, OtherTypes
<1>8. ObReqs([to |-> to, kind |-> "ping", frame |-> frame, sent |-> m])
  BY <1>7, OtherKind
<1>9. QED BY <1>1, <1>3, <1>4, <1>5, <1>6, <1>8 DEF Counted, UInt16

LEMMA VerifyCounted ==
  ASSUME NEW m \in VerifyMsg, NEW to, NEW frame \in EncodeVerifyReq(m)
  PROVE  Counted([to |-> to, kind |-> "verify", frame |-> frame, sent |-> m])
<1> DEFINE len == BodyLenVerify(m)
<1> DEFINE g == HeaderOf(MsgType_DeviceVerifyReq, m.id, len, 0)
<1>1. /\ len \in U16 /\ len > 1
      /\ frame = [header |-> EncodeHeader(g), head |-> <<(m.capLevel % 4) * 64>>,
                  data |-> len - 1]
  BY SMT DEF EncodeVerifyReq, BodyLenVerify, VerifyMsg, U16, DeviceIDLen, DeviceSecretLenMin,
     DeviceSecretLenMax
<1> HIDE DEF len
<1>2. /\ MsgType_DeviceVerifyReq \in 1 .. 15 /\ m.id \in U16 /\ 0 \in 0 .. 7
  BY SMT DEF MsgType_DeviceVerifyReq, VerifyMsg
<1>3. DecodeHeader(EncodeHeader(g)) = {h \in {g} : h.bodyLen <= 4096}
  BY <1>1, <1>2, HeaderFields
<1>4. g.bodyLen = len /\ g.type = MsgType_DeviceVerifyReq
  BY DEF HeaderOf
<1>5. BodySize(frame) = len /\ frame.header = EncodeHeader(g) /\ len \in Nat /\ len < 65536
  BY <1>1 DEF BodySize, U16
<1> HIDE DEF g
<1>6. \A h \in DecodeHeader(frame.header) :
        h.type \notin {MsgType_DeviceSendReq, MsgType_ServerSendReq}
  BY <1>3, <1>4, <1>5, OtherTypes
<1>7. ObReqs([to |-> to, kind |-> "verify", frame |-> frame, sent |-> m])
  BY <1>6, OtherKind
<1>8. QED BY <1>3, <1>4, <1>5, <1>7 DEF Counted, UInt16

-----------------------------------------------------------------------------
CapInv == BodyCapSize \in {0, 512, 1024, 2048, 4096}
FlightInv == flight # None => Counted(flight) /\ Bounded(flight)
LossInv == CapInv /\ FlightInv /\ LossesExplained

\* What an encoder returns is counted and bounded.
Counts(to, kind, frames, m) ==
  \A f \in frames : Counted([to |-> to, kind |-> kind, frame |-> f, sent |-> m])
Goes(to, kind, frames, m) ==
  /\ Counts(to, kind, frames, m)
  /\ \A f \in frames : Bounded([to |-> to, kind |-> kind, frame |-> f, sent |-> m])

\* A frame whose length its header can count.
Short(frame) == BodySize(frame) < 65536

\* It returns a frame, or a response did not fit.
Answered(frames, m) ==
  (\E f \in frames : TRUE) \/ m.data + HeaderLen + HeaderLen_CoResp >= 65536

\* What is sent is counted and bounded, and nothing is lost by sending.
LEMMA SentCounted ==
  ASSUME NEW to, NEW kind, NEW frames, NEW m, Sends(to, kind, frames, m), LossInv,
         Goes(to, kind, frames, m)
  PROVE  CapInv' /\ FlightInv'
<1>1. BodyCapSize' = BodyCapSize
  BY DEF Sends, session
<1>2. CapInv'
  BY <1>1 DEF LossInv, CapInv
<1>3. CASE frames = {}
  <2>1. flight' = None
    BY <1>3, Zenon DEF Sends
  <2>2. QED BY <1>2, <2>1, Zenon DEF FlightInv
<1>4. CASE frames # {}
  <2>1. PICK f \in frames : flight' = [to |-> to, kind |-> kind, frame |-> f, sent |-> m]
    BY <1>4 DEF Sends
  <2> DEFINE g == [to |-> to, kind |-> kind, frame |-> f, sent |-> m]
  <2>2. Counted(g) /\ Bounded(g) /\ flight' = g
    BY <2>1, Zenon DEF Goes, Counts
  <2> HIDE DEF g
  <2>3. Counted(flight') /\ Bounded(flight)'
    BY <1>1, <2>2 DEF Bounded
  <2>4. QED BY <1>2, <2>3, Zenon DEF FlightInv
<1>5. QED BY <1>2, <1>3, <1>4

LEMMA StartLosses ==
  ASSUME NEW to, NEW kind, NEW frames, NEW m, Starts(to, kind, frames, m), LossInv,
         Goes(to, kind, frames, m)
  PROVE  LossInv'
<1>1. Sends(to, kind, frames, m) /\ UNCHANGED <<work, dropped, last, skewed, open, panicked, session>>
  BY DEF Starts, Sends
<1>2. CapInv' /\ FlightInv'
  BY <1>1, SentCounted
<1>3. LossesExplained'
  BY <1>1 DEF LossInv, LossesExplained, session
<1>4. QED BY <1>2, <1>3 DEF LossInv

LEMMA AnswerLosses ==
  ASSUME NEW at, NEW to, NEW kind, NEW answer, NEW frames, NEW m,
         Answers(at, to, kind, answer, frames, m), LossInv,
         Goes(to, answer, frames, m), Answered(frames, m)
  PROVE  LossInv'
<1>1. /\ Sends(to, answer, frames, m) /\ UNCHANGED <<last, skewed, open, panicked, session>>
      /\ dropped' = IF frames = {} THEN m ELSE dropped
  BY DEF Answers, Sends
<1>2. CapInv' /\ FlightInv'
  BY <1>1, SentCounted
<1>3. dropped' # dropped => dropped' = m /\ m.data + HeaderLen + HeaderLen_CoResp >= 65536
  BY <1>1 DEF Answered
<1>4. LossesExplained'
  BY <1>1, <1>3 DEF LossInv, LossesExplained, session
<1>5. QED BY <1>2, <1>4 DEF LossInv

\* Who reads loses his place only to 64 KiB, and that is not the device.
LEMMA ReadLosses ==
  ASSUME NEW side \in {"device", "server"}, Reads(side), LossInv, NEW bytes,
         bytes = BodySize(flight.frame)
  PROVE  /\ flight' = None /\ dropped' = dropped /\ "device" \notin skewed'
         /\ last' # None /\ last'.to = side /\ last'.kind = flight.kind
         /\ last'.sent = flight.sent /\ last'.bytes = bytes /\ bytes \in Nat
         /\ "server" \in skewed' /\ side = "server" => bytes >= 65536
<1>1. /\ flight # None /\ flight.to = side /\ side \notin skewed
      /\ flight' = None /\ dropped' = dropped
      /\ last' = [to |-> side, kind |-> flight.kind, sent |-> flight.sent, got |-> Results,
                  bytes |-> bytes]
      /\ skewed' = IF \E h \in DecodeHeader(flight.frame.header) : h.bodyLen < bytes
                   THEN {side} ELSE skewed
  BY DEF Reads
<1>2. Counted(flight) /\ Bounded(flight)
  BY <1>1 DEF LossInv, FlightInv
<1>3. bytes \in Nat /\ (side = "device" => bytes < 65536)
  BY <1>1, <1>2 DEF Counted, Bounded
<1>4. ASSUME NEW h \in DecodeHeader(flight.frame.header), h.bodyLen < bytes
      PROVE  bytes >= 65536
  <2>1. h.bodyLen = bytes % 65536
    BY <1>2 DEF Counted, UInt16
  <2>2. QED BY <1>3, <1>4, <2>1
<1>5. last' # None /\ last'.to = side /\ last'.kind = flight.kind
      /\ last'.sent = flight.sent /\ last'.bytes = bytes
  BY <1>1 DEF None
<1>6. "device" \notin skewed
  BY DEF LossInv, LossesExplained
<1>7. CASE \E h \in DecodeHeader(flight.frame.header) : h.bodyLen < bytes
  <2>1. bytes >= 65536 /\ skewed' = {side}
    BY <1>1, <1>4, <1>7
  <2>2. side = "server"
    BY <1>3, <2>1
  <2>3. QED BY <1>1, <1>3, <1>5, <2>1, <2>2
<1>8. CASE ~ \E h \in DecodeHeader(flight.frame.header) : h.bodyLen < bytes
  BY <1>1, <1>3, <1>5, <1>6, <1>8
<1>9. QED BY <1>7, <1>8

\* A reader that goes on.
LEMMA ReadOnLosses ==
  ASSUME NEW side \in {"device", "server"}, Reads(side), LossInv, open' = open, panicked' = panicked, CapInv'
  PROVE  LossInv'
<1>1. /\ flight' = None /\ dropped' = dropped /\ "device" \notin skewed'
      /\ last'.to = side
      /\ "server" \in skewed' /\ side = "server" => last'.bytes >= 65536
  BY ReadLosses
<1>2. open'
  BY DEF Reads
<1>3. LossesExplained'
  BY <1>1, <1>2 DEF LossInv, LossesExplained
<1>4. QED BY <1>1, <1>3 DEF LossInv, FlightInv

\* A reader that closes the connection: over a header that does not decode, because
\* the message is too long, or over what the reader lost before it.
LEMMA FailLosses ==
  ASSUME NEW side \in {"device", "server"}, Fails(side), LossInv
  PROVE  LossInv'
<1> DEFINE bytes == BodySize(flight.frame)
<1>1. /\ Reads(side) /\ UNCHANGED <<panicked, session>> /\ flight # None /\ flight.to = side
      /\ open /\ ~open' /\ ~NoObReq(side, flight.frame)
      /\ \A got \in Results : flight.kind = "resp" /\ got.code # Code_Success
  BY DEF Fails, Reads
<1>2. Counted(flight) /\ Bounded(flight)
  BY <1>1 DEF LossInv, FlightInv
<1>a. bytes = BodySize(flight.frame)
  OBVIOUS
<1> HIDE DEF bytes
<1>3. /\ flight' = None /\ dropped' = dropped /\ "device" \notin skewed'
      /\ last'.to = side /\ last'.kind = flight.kind
      /\ last'.sent = flight.sent /\ last'.bytes = bytes /\ bytes \in Nat
      /\ "server" \in skewed' /\ side = "server" => bytes >= 65536
  BY <1>1, <1>a, ReadLosses
<1>4. ASSUME flight.kind \notin {"verify", "resp"}, bytes <= 4096
      PROVE  FALSE
  <2>1. PICK h \in DecodeHeader(flight.frame.header) : TRUE
    BY <1>2, <1>4, <1>a DEF Counted
  <2>2. h.bodyLen = UInt16(bytes)
    BY <1>2, <1>a DEF Counted
  <2>3. h.bodyLen = bytes
    BY <1>3, <1>4, <2>2 DEF UInt16
  <2>4. Decoded(flight.kind, h, BodyOf(flight.frame, h), flight.sent) # {}
    BY <1>2, <1>4, <1>a, <2>3 DEF Counted
  <2>5. PICK got \in Decoded(flight.kind, h, BodyOf(flight.frame, h), flight.sent) : TRUE
    BY <2>4
  <2>6. got \in Results
    BY <2>5, Zenon DEF Results
  <2>7. QED BY <1>1, <1>4, <2>6
<1>5. flight.kind \in {"verify", "resp"} \/ bytes > 4096
  BY <1>3, <1>4
<1>6. ASSUME side = "device", flight.kind \in {"coreq", "estab"}, bytes > 4096
      PROVE  BodyCapSize = 4096 /\ flight.kind = "coreq" /\ flight.sent.data \in 4092 .. 4095
  <2>1. CapInv
    BY DEF LossInv
  <2>2. flight.kind # "estab"
    <3> SUFFICES ASSUME flight.kind = "estab" PROVE FALSE
      OBVIOUS
    <3>1. bytes <= BodyCapSize
      BY <1>1, <1>2, <1>6, <1>a DEF Bounded
    <3>2. BodyCapSize <= 4096 /\ BodyCapSize \in Nat
      BY <2>1 DEF CapInv
    <3>3. QED BY <1>3, <1>6, <3>1, <3>2
  <2>3. /\ flight.sent.data \in Nat /\ flight.sent.data <= BodyCapSize - 1
        /\ bytes = 5 + flight.sent.data
    BY <1>1, <1>2, <1>6, <1>a, <2>2 DEF Bounded
  <2>4. QED BY <1>6, <2>1, <2>2, <2>3 DEF CapInv
<1>7. BodyCapSize' = BodyCapSize
  BY <1>1 DEF session
<1>8. LossesExplained'
  <2>1. "device" \notin skewed'
    BY <1>3
  <2>2. "server" \in skewed' /\ last' # None => (last'.to = "server" => last'.bytes >= 65536)
    BY <1>3
  <2>3. dropped' # None => dropped'.data + HeaderLen + HeaderLen_CoResp >= 65536
    BY <1>3 DEF LossInv, LossesExplained
  <2>4. \/ last'.kind \in {"verify", "resp"}
        \/ /\ last'.bytes > 4096
           /\ last'.to = "device" /\ last'.kind \in {"coreq", "estab"} =>
                BodyCapSize' = 4096 /\ last'.kind = "coreq" /\ last'.sent.data \in 4092 .. 4095
    BY <1>3, <1>5, <1>6, <1>7
  <2>5. ~panicked'
    BY <1>1 DEF LossInv, LossesExplained
  <2>6. ~(last'.kind = "notify" /\ UInt16(last'.bytes) \in {1, 2})
    BY <1>1, <1>2, <1>3, <1>a DEF Counted, ObReqs
  <2>7. QED BY <1>1, <2>1, <2>2, <2>3, <2>4, <2>5, <2>6 DEF LossesExplained
<1>9. QED BY <1>3, <1>7, <1>8 DEF LossInv, CapInv, FlightInv

\* A reader that panics: the server, over a notification.
LEMMA PanicLosses ==
  ASSUME NEW side \in {"device", "server"}, Panics(side), LossInv
  PROVE  LossInv'
<1> DEFINE bytes == BodySize(flight.frame)
<1>1. /\ Reads(side) /\ UNCHANGED session /\ flight # None /\ flight.to = side
      /\ NoObReq(side, flight.frame) /\ ~open' /\ panicked'
  BY DEF Panics, Reads
<1>2. Counted(flight) /\ Bounded(flight)
  BY <1>1 DEF LossInv, FlightInv
<1>a. bytes = BodySize(flight.frame)
  OBVIOUS
<1> HIDE DEF bytes
<1>3. /\ flight' = None /\ dropped' = dropped /\ "device" \notin skewed'
      /\ last'.to = side /\ last'.kind = flight.kind
      /\ last'.sent = flight.sent /\ last'.bytes = bytes /\ bytes \in Nat
      /\ "server" \in skewed' /\ side = "server" => bytes >= 65536
  BY <1>1, <1>a, ReadLosses
<1>4. bytes >= 65536 /\ side = "server"
  BY <1>1, <1>2, <1>a, <1>3 DEF Counted, ObReqs, Bounded
<1>5. flight.kind = "notify" /\ UInt16(bytes) \in {1, 2}
  BY <1>1, <1>2, <1>a, <1>4 DEF Counted, ObReqs
<1>6. BodyCapSize' = BodyCapSize
  BY <1>1 DEF session
<1>7. LossesExplained'
  <2>1. dropped' # None => dropped'.data + HeaderLen + HeaderLen_CoResp >= 65536
    BY <1>3 DEF LossInv, LossesExplained
  <2>2. last'.to = "server" /\ last'.bytes > 4096 /\ last'.bytes >= 65536
    BY <1>3, <1>4
  <2>3. last'.kind = "notify" /\ UInt16(last'.bytes) \in {1, 2}
    BY <1>3, <1>5
  <2>4. QED BY <1>1, <1>3, <2>1, <2>2, <2>3 DEF LossesExplained
<1>8. QED BY <1>3, <1>6, <1>7 DEF LossInv, CapInv, FlightInv

\* A response has room in the buffer that is sized for it.
LEMMA OverAll ==
  ASSUME NEW type, NEW id, NEW bodies, NEW b \in bodies
  PROVE  \E f \in Over(type, id, bodies) : TRUE
  BY Zenon DEF Over

LEMMA CoRespRoom ==
  ASSUME NEW m, m.data \in Nat, NEW size \in Nat, NEW type
  PROVE  /\ size >= 1 + m.data => \E f \in Over(type, m.id, EncodeCoResp(m, size)) : TRUE
         /\ (\E f \in Over(type, m.id, EncodeCoResp(m, size)) : TRUE) => 1 + m.data <= size
<1> DEFINE b == [head |-> <<First(m)>>, data |-> m.data]
<1>1. BodySize(b) = 1 + m.data
  BY DEF BodySize
<1> HIDE DEF b
<1>2. EncodeCoResp(m, size) = IF size < 1 + m.data THEN {} ELSE {b}
  BY <1>1, Zenon DEF EncodeCoResp, Into, b
<1>3. ASSUME size >= 1 + m.data
      PROVE  \E f \in Over(type, m.id, EncodeCoResp(m, size)) : TRUE
  <2>1. b \in EncodeCoResp(m, size)
    BY <1>2, <1>3
  <2>2. QED BY <2>1, OverAll, Zenon
<1>4. ASSUME NEW f \in Over(type, m.id, EncodeCoResp(m, size)) PROVE 1 + m.data <= size
  <2>1. \E c \in EncodeCoResp(m, size) : TRUE
    BY <1>4, Zenon DEF Over
  <2>2. QED BY <1>2, <2>1
<1>5. QED BY <1>3, <1>4, Zenon

LEMMA ObRespRoom ==
  ASSUME NEW m, NEW type, NEW id
  PROVE  \E f \in Over(type, id, EncodeObGetEstabResp(m, 3)) : TRUE
<1> DEFINE b == [head |-> <<First(m), High(m.obid), Low(m.obid)>>, data |-> 0]
<1>1. BodySize(b) = 3
  BY DEF BodySize
<1> HIDE DEF b
<1>2. b \in EncodeObGetEstabResp(m, 3)
  <2>1. ~(3 < BodySize(b))
    BY <1>1
  <2>2. QED BY <2>1, Zenon DEF EncodeObGetEstabResp, Into, b
<1>3. QED BY <1>2, OverAll, Zenon

\* What is to be said of the bounds of a frame: nothing of one for the server.
LEMMA SomeAnswer ==
  ASSUME NEW frames, NEW m, \E f \in frames : TRUE
  PROVE  Answered(frames, m)
  BY SMT DEF Answered

LEMMA ToServer ==
  ASSUME NEW kind, NEW frames, NEW m, Counts("server", kind, frames, m)
  PROVE  Goes("server", kind, frames, m)
<1>1. \A f : Bounded([to |-> "server", kind |-> kind, frame |-> f, sent |-> m])
  BY DEF Bounded
<1>2. QED BY <1>1, Zenon DEF Goes

LEMMA ToDevice ==
  ASSUME NEW kind \in {"coresp", "estabresp", "notifyresp", "resp"}, NEW frames, NEW m,
         Counts("device", kind, frames, m), \A f \in frames : Short(f)
  PROVE  Goes("device", kind, frames, m)
<1>1. ASSUME NEW f \in frames
      PROVE  Bounded([to |-> "device", kind |-> kind, frame |-> f, sent |-> m])
  <2> DEFINE g == [to |-> "device", kind |-> kind, frame |-> f, sent |-> m]
  <2>1. g.kind \notin {"coreq", "estab"} /\ g.frame = f
    BY SMT
  <2> HIDE DEF g
  <2>2. BodySize(f) < 65536
    BY <1>1 DEF Short
  <2>3. Bounded(g)
    BY <2>1, <2>2 DEF Bounded
  <2>4. QED BY <2>3, Zenon DEF g
<1>2. QED BY <1>1, Zenon DEF Goes

\* So is a user's request that apprpc admits.
LEMMA CoReqGoes ==
  ASSUME NEW m \in CoReqMsg, m.data \in Nat, m.data <= BodyCapSize - 1, CapInv, NEW size
  PROVE  Goes("device", "coreq", EncodeCoReq_OverServerSendReq(m, size), m)
<1> DEFINE frames == EncodeCoReq_OverServerSendReq(m, size)
<1>1. Counts("device", "coreq", frames, m)
  BY CoReqCounted, Zenon DEF Counts, EncodeCoReq_OverServerSendReq
<1>2. ASSUME NEW f \in frames
      PROVE  Bounded([to |-> "device", kind |-> "coreq", frame |-> f, sent |-> m])
  <2> DEFINE g == [to |-> "device", kind |-> "coreq", frame |-> f, sent |-> m]
  <2>1. BodySize(f) = 5 + m.data
    BY <1>2, CoReqCounted, Zenon DEF EncodeCoReq_OverServerSendReq
  <2>2. BodySize(f) < 65536
    BY <2>1 DEF CapInv
  <2>3. g.kind = "coreq" /\ g.frame = f /\ g.sent = m
    OBVIOUS
  <2> HIDE DEF g
  <2>4. Bounded(g)
    BY <2>1, <2>2, <2>3 DEF Bounded
  <2>5. QED BY <2>4, Zenon DEF g
<1>3. QED BY <1>1, <1>2, Zenon DEF Goes

LEMMA EstabGoes ==
  ASSUME NEW m \in EstabMsg, m.data \in Nat, m.data <= BodyCapSize - 7, CapInv, NEW size
  PROVE  Goes("device", "estab", EncodeObGetEstabReq_OverServerSendReq(m, size), m)
<1> DEFINE frames == EncodeObGetEstabReq_OverServerSendReq(m, size)
<1>1. Counts("device", "estab", frames, m)
  BY EstabCounted, Zenon DEF Counts, EncodeObGetEstabReq_OverServerSendReq
<1>2. ASSUME NEW f \in frames
      PROVE  Bounded([to |-> "device", kind |-> "estab", frame |-> f, sent |-> m])
  <2> DEFINE g == [to |-> "device", kind |-> "estab", frame |-> f, sent |-> m]
  <2>1. BodySize(f) = 7 + m.data
    BY <1>2, EstabCounted, Zenon DEF EncodeObGetEstabReq_OverServerSendReq
  <2>2. BodySize(f) < 65536 /\ BodySize(f) <= BodyCapSize
    BY <2>1 DEF CapInv
  <2>3. g.kind = "estab" /\ g.frame = f /\ g.sent = m
    OBVIOUS
  <2> HIDE DEF g
  <2>4. Bounded(g)
    BY <2>2, <2>3 DEF Bounded
  <2>5. QED BY <2>4, Zenon DEF g
<1>3. QED BY <1>1, <1>2, Zenon DEF Goes

\* One step, for each action.
LEMMA LossStep == Kept /\ LossInv /\ [Next]_vars => LossInv'
<1> SUFFICES ASSUME Kept, LossInv, [Next]_vars PROVE LossInv'
  OBVIOUS
<1>a. CapInv
  BY DEF LossInv
<1>1. ASSUME NEW m \in CoReqs, UserGets(m) PROVE LossInv'
  <2>1. m \in CoReqMsg /\ m.data \in Nat
    BY Inputs
  <2>2. PICK size : Starts("device", "coreq", EncodeCoReq_OverServerSendReq(m, size), m)
    BY <1>1, Zenon DEF UserGets
  <2>3. m.data <= BodyCapSize - 1
    BY <1>1 DEF UserGets, HeaderLen_CoResp
  <2>4. QED BY <1>a, <2>1, <2>2, <2>3, CoReqGoes, StartLosses, Zenon
<1>2. ASSUME NEW m \in CoReqs, DeviceGets(m) PROVE LossInv'
  <2>1. m \in CoReqMsg /\ m.data \in Nat
    BY Inputs
  <2>2. PICK size : Starts("server", "coreq", EncodeCoReq_OverDeviceSendReq(m, size), m)
    BY <1>2, Zenon DEF DeviceGets
  <2>3. Counts("server", "coreq", EncodeCoReq_OverDeviceSendReq(m, size), m)
    BY <2>1, CoReqCounted, Zenon DEF Counts, EncodeCoReq_OverDeviceSendReq
  <2>4. QED BY <2>2, <2>3, StartLosses, ToServer, Zenon
<1>3. ASSUME NEW m \in EstabReqs, UserObserves(m) PROVE LossInv'
  <2>1. m \in EstabMsg /\ m.data \in Nat
    BY Inputs
  <2>2. PICK size : Starts("device", "estab", EncodeObGetEstabReq_OverServerSendReq(m, size), m)
    BY <1>3, Zenon DEF UserObserves
  <2>3. m.data <= BodyCapSize - 7
    BY <1>3 DEF UserObserves, HeaderLen_ObGetEstabReq
  <2>4. QED BY <1>a, <2>1, <2>2, <2>3, EstabGoes, StartLosses, Zenon
<1>4. ASSUME NEW m \in NotifyReqs, DeviceNotifies(m) PROVE LossInv'
  <2>1. m \in NotifyMsg /\ m.data \in Nat
    BY Inputs
  <2>2. PICK size : Starts("server", "notify", EncodeObGetNotifyReq_OverDeviceSendReq(m, size), m)
    BY <1>4, Zenon DEF DeviceNotifies
  <2>3. Counts("server", "notify", EncodeObGetNotifyReq_OverDeviceSendReq(m, size), m)
    BY <2>1, NotifyCounted, Zenon DEF Counts, EncodeObGetNotifyReq_OverDeviceSendReq
  <2>4. QED BY <2>2, <2>3, StartLosses, ToServer, Zenon
<1>5. ASSUME NEW code \in {2, 5}, NEW n \in Lengths, DeviceAnswersCo(code, n) PROVE LossInv'
  <2> DEFINE m == [id |-> work.got.id, method |-> work.got.method, code |-> code, data |-> n]
  <2> DEFINE size == HeaderLen + HeaderLen_CoResp + n
  <2> DEFINE frames == EncodeCoResp_OverServerSendResp(m, size)
  <2>1. Answers("device", "server", "coreq", "coresp", frames, m)
    BY <1>5, Zenon DEF DeviceAnswersCo
  <2>2. work.got \in CoReqMsg
    BY <2>1, Zenon DEF Answers, Kept, WorkOK, MsgOf
  <2>3. m \in CoRespMsg /\ m.data \in Nat /\ m.data = n
    BY <2>2, LengthsAssumption, SMT DEF CoReqMsg, CoRespMsg
  <2>4. Rest(size) = 1 + m.data /\ Rest(size) \in Nat
    BY <2>3, SMT DEF HeaderLen, HeaderLen_CoResp, Rest
  <2> HIDE DEF m, size
  <2>5. frames = Over(MsgType_ServerSendResp, m.id, EncodeCoResp(m, Rest(size)))
    BY Zenon DEF EncodeCoResp_OverServerSendResp
  <2> HIDE DEF frames
  <2>6. Counts("server", "coresp", frames, m)
    BY <2>3, <2>5, CoRespCounted, Zenon DEF Counts
  <2> DEFINE rest == Rest(size)
  <2>7. rest \in Nat /\ rest >= 1 + m.data
    BY <2>3, <2>4
  <2> HIDE DEF rest
  <2>8. \E f \in Over(MsgType_ServerSendResp, m.id, EncodeCoResp(m, rest)) : TRUE
    BY <2>3, <2>7, CoRespRoom, Zenon
  <2>9. Answered(frames, m)
    BY <2>5, <2>8, SomeAnswer, Zenon DEF rest
  <2>10. Goes("server", "coresp", frames, m)
    BY <2>6, ToServer, Zenon
  <2>11. QED BY <2>1, <2>9, <2>10, AnswerLosses, Zenon
<1>6. ASSUME NEW code \in {2, 5}, NEW n \in Lengths, ServerAnswersCo(code, n) PROVE LossInv'
  <2> DEFINE m == [id |-> work.got.id, method |-> work.got.method, code |-> code, data |-> n]
  <2> DEFINE size == UInt16(HeaderLen + HeaderLen_CoResp + UInt16(n))
  <2> DEFINE frames == EncodeCoResp_OverDeviceSendResp(m, size)
  <2>1. Answers("server", "device", "coreq", "coresp", frames, m)
    BY <1>6, Zenon DEF ServerAnswersCo
  <2>2. work.got \in CoReqMsg
    BY <2>1, Zenon DEF Answers, Kept, WorkOK, MsgOf
  <2>3. m \in CoRespMsg /\ m.data \in Nat /\ m.data = n
    BY <2>2, LengthsAssumption, SMT DEF CoReqMsg, CoRespMsg
  <2> DEFINE rest == Rest(size)
  <2>a. rest \in Nat
    BY <2>3, SMT DEF HeaderLen, HeaderLen_CoResp, Rest, UInt16
  <2>4. /\ rest < 65536
        /\ m.data + 6 < 65536 => rest = 1 + m.data
    BY <2>3, SMT DEF HeaderLen, HeaderLen_CoResp, Rest, UInt16
  <2> HIDE DEF m, size
  <2>5. frames = Over(MsgType_DeviceSendResp, m.id, EncodeCoResp(m, rest))
    BY Zenon DEF EncodeCoResp_OverDeviceSendResp
  <2> HIDE DEF frames, rest
  <2>6. /\ Counts("device", "coresp", frames, m)
        /\ \A f \in frames : BodySize(f) = 1 + m.data
    BY <2>3, <2>5, CoRespCounted, Zenon DEF Counts
  <2>7. /\ rest >= 1 + m.data => \E f \in frames : TRUE
        /\ (\E f \in frames : TRUE) => 1 + m.data <= rest
    BY <2>3, <2>5, <2>a, CoRespRoom, Zenon
  <2>8. ASSUME NEW f \in frames PROVE Short(f)
    BY <2>3, <2>4, <2>6, <2>7, <2>a DEF Short
  <2>9. Goes("device", "coresp", frames, m)
    BY <2>6, <2>8, ToDevice, Zenon
  <2>10. Answered(frames, m)
    BY <2>3, <2>4, <2>7, <2>a DEF Answered, HeaderLen, HeaderLen_CoResp
  <2>11. QED BY <2>1, <2>9, <2>10, AnswerLosses, Zenon
<1>7. ASSUME NEW code \in {3, 4, 5}, DeviceAnswersOb(code) PROVE LossInv'
  <2> DEFINE m == [id |-> work.got.id, method |-> work.got.method, code |-> code,
                   obid |-> work.got.obid]
  <2> DEFINE frames == EncodeObGetEstabResp_OverServerSendResp(m, HeaderLen + HeaderLen_ObGetEstabResp)
  <2>1. Answers("device", "server", "estab", "estabresp", frames, m)
    BY <1>7, Zenon DEF DeviceAnswersOb
  <2>2. work.got \in EstabMsg
    BY <2>1, Zenon DEF Answers, Kept, WorkOK, MsgOf
  <2>3. m \in ObRespMsg
    BY <2>2, SMT DEF EstabMsg, ObRespMsg
  <2> HIDE DEF m
  <2>4. Rest(HeaderLen + HeaderLen_ObGetEstabResp) = 3
    BY DEF Rest, HeaderLen, HeaderLen_ObGetEstabResp
  <2>5. frames = Over(MsgType_ServerSendResp, m.id, EncodeObGetEstabResp(m, 3))
    BY <2>4, Zenon DEF EncodeObGetEstabResp_OverServerSendResp
  <2> HIDE DEF frames
  <2>6. Counts("server", "estabresp", frames, m)
    BY <2>3, <2>5, ObRespCounted, Zenon DEF Counts
  <2>7. Answered(frames, m)
    BY <2>5, ObRespRoom, SomeAnswer, Zenon
  <2>8. Goes("server", "estabresp", frames, m)
    BY <2>6, ToServer, Zenon
  <2>9. QED BY <2>1, <2>7, <2>8, AnswerLosses, Zenon
<1>8. ASSUME NEW code \in {3, 4, 5}, ServerAnswersOb(code) PROVE LossInv'
  <2> DEFINE m == [id |-> work.got.id, method |-> work.got.method, code |-> code,
                   obid |-> work.got.obid]
  <2> DEFINE frames == EncodeObGetNotifyResp_OverDeviceSendResp(m, HeaderLen + HeaderLen_ObGetNotifyResp)
  <2>1. Answers("server", "device", "notify", "notifyresp", frames, m)
    BY <1>8, Zenon DEF ServerAnswersOb
  <2>2. work.got \in NotifyMsg
    BY <2>1, Zenon DEF Answers, Kept, WorkOK, MsgOf
  <2>3. m \in ObRespMsg
    BY <2>2, SMT DEF NotifyMsg, ObRespMsg
  <2> HIDE DEF m
  <2>4. Rest(HeaderLen + HeaderLen_ObGetNotifyResp) = 3
    BY DEF Rest, HeaderLen, HeaderLen_ObGetNotifyResp
  <2>5. frames = Over(MsgType_DeviceSendResp, m.id, EncodeObGetEstabResp(m, 3))
    BY <2>4, Zenon DEF EncodeObGetNotifyResp_OverDeviceSendResp, EncodeObGetNotifyResp
  <2> HIDE DEF frames
  <2>6. /\ Counts("device", "notifyresp", frames, m)
        /\ \A f \in frames : BodySize(f) = 3
    BY <2>3, <2>5, ObRespCounted, Zenon DEF Counts
  <2>7. \A f \in frames : Short(f)
    BY <2>6 DEF Short
  <2>8. Goes("device", "notifyresp", frames, m)
    BY <2>6, <2>7, ToDevice, Zenon
  <2>9. Answered(frames, m)
    BY <2>5, ObRespRoom, SomeAnswer, Zenon
  <2>10. QED BY <2>1, <2>8, <2>9, AnswerLosses, Zenon
<1>9. ASSUME NEW v \in Verifies, DeviceVerifies(v) PROVE LossInv'
  <2>1. v \in VerifyMsg
    BY Inputs
  <2>2. Counts("server", "verify", EncodeVerifyReq(v), v)
    BY <2>1, VerifyCounted, Zenon DEF Counts
  <2>3. QED BY <1>9, <2>2, ToServer, StartLosses, Zenon DEF DeviceVerifies
<1>10. ASSUME NEW id \in Ids, NEW t \in Timeouts, DevicePings(id, t) PROVE LossInv'
  <2> DEFINE m == [id |-> id, timeout |-> t]
  <2>1. m \in [id : U16, timeout : U16] /\ m.id = id /\ m.timeout = t
    BY Inputs
  <2> DEFINE frames == {EncodePingReq(id, t)}
  <2>2. Starts("server", "ping", frames, m)
    BY <1>10, Zenon DEF DevicePings
  <2> HIDE DEF m
  <2>3. Counts("server", "ping", frames, m)
    BY <2>1, PingCounted, Zenon DEF Counts
  <2> HIDE DEF frames
  <2>4. QED BY <2>2, <2>3, StartLosses, ToServer, Zenon
<1>11. ASSUME ServerPongs PROVE LossInv'
  <2> DEFINE code == IF work.got.timeout \in {0} \cup HeartbeatRange
                     THEN Code_Success ELSE Code_ParaInvalid
  <2> DEFINE m == [id |-> work.got.id, code |-> code]
  <2> DEFINE f == EncodePingResp(m.id, m.code)
  <2>1. Answers("server", "device", "ping", "resp", {f}, m)
    BY <1>11, Zenon DEF ServerPongs
  <2>2. work.got.id \in U16
    BY <2>1, Zenon DEF Answers, Kept, WorkOK
  <2>3. m \in [id : U16, code : 0 .. 7]
    BY <2>2, SMT DEF Code_Success, Code_ParaInvalid
  <2> HIDE DEF m
  <2>4. /\ f.header = EncodeHeader(HeaderOf(MsgType_DevicePingResp, m.id, 0, m.code))
        /\ f.head = <<>> /\ f.data = 0
    BY Zenon DEF EncodePingResp
  <2> HIDE DEF f
  <2>5. /\ Counts("device", "resp", {f}, m)
        /\ BodySize(f) = 0
    BY <2>3, <2>4, RespCounted, Zenon DEF Counts
  <2>6. Short(f)
    BY <2>5 DEF Short
  <2>7. Goes("device", "resp", {f}, m)
    BY <2>5, <2>6, ToDevice, Zenon
  <2>8. Answered({f}, m)
    BY DEF Answered
  <2>9. QED BY <2>1, <2>7, <2>8, AnswerLosses, Zenon
<1>12. ASSUME ServerRefuses PROVE LossInv'
  <2> DEFINE m == [id |-> work.got.id, code |-> Code_VerifyFail]
  <2> DEFINE f == EncodeVerifyResp(m.id, m.code)
  <2>1. Answers("server", "device", "verify", "resp", {f}, m)
    BY <1>12, Zenon DEF ServerRefuses
  <2>2. work.got.id \in U16
    BY <2>1, Zenon DEF Answers, Kept, WorkOK
  <2>3. m \in [id : U16, code : 0 .. 7]
    BY <2>2, SMT DEF Code_VerifyFail
  <2> HIDE DEF m
  <2>4. /\ f.header = EncodeHeader(HeaderOf(MsgType_DeviceVerifyResp, m.id, 0, m.code))
        /\ f.head = <<>> /\ f.data = 0
    BY Zenon DEF EncodeVerifyResp
  <2> HIDE DEF f
  <2>5. /\ Counts("device", "resp", {f}, m)
        /\ BodySize(f) = 0
    BY <2>3, <2>4, RespCounted, Zenon DEF Counts
  <2>6. Short(f)
    BY <2>5 DEF Short
  <2>7. Goes("device", "resp", {f}, m)
    BY <2>5, <2>6, ToDevice, Zenon
  <2>8. Answered({f}, m)
    BY DEF Answered
  <2>9. QED BY <2>1, <2>7, <2>8, AnswerLosses, Zenon
<1>13. ASSUME NEW side \in {"device", "server"}, Fails(side) PROVE LossInv'
  BY <1>13, FailLosses
<1>p. ASSUME NEW side \in {"device", "server"}, Panics(side) PROVE LossInv'
  BY <1>p, PanicLosses
<1>14. ASSUME NEW side \in {"device", "server"}, Takes(side) PROVE LossInv'
  <2>1. Reads(side) /\ open' = open /\ panicked' = panicked /\ BodyCapSize' = BodyCapSize
    BY <1>14 DEF Takes, session
  <2>2. CapInv'
    BY <1>a, <2>1 DEF CapInv
  <2>3. QED BY <2>1, <2>2, ReadOnLosses, Zenon
<1>15. ASSUME ServerVerifies PROVE LossInv'
  <2>1. PICK got \in Results : BodyCapSize' \in GetCapSize(got.capLevel)
    BY <1>15, Zenon DEF ServerVerifies
  <2>2. Reads("server") /\ open' = open /\ panicked' = panicked /\ flight # None /\ flight.kind = "verify"
    BY <1>15, Zenon DEF ServerVerifies, Reads
  <2>3. got \in VerifyMsg
    BY <2>1, <2>2, Zenon DEF Kept, Carried, Results
  <2>4. CapInv'
    BY <2>1, <2>3, SMT DEF VerifyMsg, GetCapSize, capLevelToSize, CapInv
  <2>5. QED BY <2>2, <2>4, ReadOnLosses, Zenon
<1>16. ASSUME ServerRejects \/ ServerPinged PROVE LossInv'
  <2>1. Reads("server") /\ open' = open /\ panicked' = panicked /\ BodyCapSize' = BodyCapSize
    BY <1>16 DEF ServerRejects, ServerPinged, session
  <2>2. CapInv'
    BY <1>a, <2>1 DEF CapInv
  <2>3. QED BY <2>1, <2>2, ReadOnLosses, Zenon
<1>17. ASSUME ExchangeEnds PROVE LossInv'
  BY <1>17 DEF ExchangeEnds, session, LossInv, CapInv, FlightInv, Bounded, LossesExplained
<1>18. ASSUME UNCHANGED vars PROVE LossInv'
  BY <1>18 DEF vars, LossInv, CapInv, FlightInv, Bounded, LossesExplained
<1>19. QED
  BY <1>1, <1>2, <1>3, <1>4, <1>5, <1>6, <1>7, <1>8, <1>9, <1>10, <1>11, <1>12, <1>13, <1>14,
     <1>15, <1>16, <1>17, <1>18, <1>p, ZenonT(60) DEF Next

\* For every length there is: only the server can lose its place, and only to 64 KiB; a
\* response is lost only when it does not fit in 16 bits; and a connection is closed over
\* a message only when it is longer than the longest capacity, a user's request by the
\* four bytes at most that Get and Post do not count.  The server's process ends over a
\* notification whose header counts one byte or two, and the device's never.
THEOREM LossesAreExplained == Spec => []LossesExplained
<1>1. Init => LossInv
  BY DEF Init, LossInv, CapInv, FlightInv, LossesExplained
<1>2. LossInv => LossesExplained
  BY DEF LossInv
<1>3. QED BY <1>1, <1>2, LossStep, KeptAlways, PTL DEF Spec
=============================================================================

-------------------------------- MODULE Wire --------------------------------
(***************************************************************************)
(* The messages of one connection byte for byte, in the format of          *)
(* DeviceProto: what apprpc.go admits against the capacity the device has  *)
(* declared, how session.go and devicesession.go size the buffers they     *)
(* encode into, and what the other side makes of the bytes.  The exchanges *)
(* take place one after the other; how they interleave, are lost and come  *)
(* late is the business of the other modules.                              *)
(*                                                                         *)
(* A message under way carries beside its frame what the sender meant.  A  *)
(* frame whose header counts fewer bytes than it has leaves the rest to be *)
(* read as the next header: the direction is skewed, and nothing is said   *)
(* of what comes after.                                                    *)
(*                                                                         *)
(* A side whose handler looks into a request that its decoder has not      *)
(* returned is gone: a panic that nothing recovers ends its process.       *)
(***************************************************************************)
EXTENDS DeviceProto, FiniteSets

CONSTANTS
  Lengths,   \* bound: the lengths of data that are tried
  Ids,       \* bound: header ids that are tried
  ObIDs,     \* bound: observation ids that are tried
  URIs,      \* bound: uris that are tried
  Verifies,  \* bound: the verifications [id, capLevel, idLen, secretLen, colon]
  Timeouts   \* bound: the heartbeats a ping asks for

ASSUME LengthsAssumption == Lengths \subseteq Nat
ASSUME IdsAssumption == Ids \subseteq U16 /\ ObIDs \subseteq U16
ASSUME URIsAssumption == URIs \subseteq U32
ASSUME VerifiesAssumption ==
  Verifies \subseteq [id : U16, capLevel : 0 .. 3, idLen : Nat, secretLen : Nat,
                     colon : BOOLEAN]
ASSUME TimeoutsAssumption == Timeouts \subseteq U16

None == [kind |-> "none"]

VARIABLES
  flight,       \* the message under way: [to, kind, frame, sent], or None
  work,         \* what the tcpIncomming of a side is at: [at, kind, got], or None
  skewed,       \* sides whose reader has lost the start of a message
  open,         \* neither side has closed the connection
  panicked,     \* the process of the side that has read last has ended in a panic
  BodyCapSize,  \* Session.BodyCapSize; 0 before the verification
  heartbeatSeconds, \* Session.heartbeatSeconds
  dropped,      \* history: the response of this exchange that was not encoded, or None
  last          \* history: the last message read, and the results of its decoder

vars == <<flight, work, skewed, open, panicked, BodyCapSize, heartbeatSeconds, dropped, last>>
session == <<BodyCapSize, heartbeatSeconds>>

Init ==
  /\ flight = None /\ work = None
  /\ skewed = {} /\ open = TRUE /\ panicked = FALSE
  /\ BodyCapSize = 0 /\ heartbeatSeconds = 300
  /\ dropped = None /\ last = None

-----------------------------------------------------------------------------
(* Sending: frames is what an encoder returns, nothing or one frame.        *)

Sends(to, kind, frames, m) ==
  /\ open /\ flight = None
  /\ flight' = IF frames = {} THEN None
               ELSE [to |-> to, kind |-> kind, frame |-> CHOOSE f \in frames : TRUE, sent |-> m]
  /\ UNCHANGED <<skewed, open, panicked, session>>

\* A side starts an exchange.
Starts(to, kind, frames, m) ==
  /\ work = None /\ last = None /\ dropped = None
  /\ Sends(to, kind, frames, m)
  /\ UNCHANGED <<work, dropped, last>>

\* A side answers what it is at.
Answers(at, to, kind, answer, frames, m) ==
  /\ work # None /\ work.at = at /\ work.kind = kind
  /\ Sends(to, answer, frames, m)
  /\ work' = None
  /\ dropped' = IF frames = {} THEN m ELSE dropped
  /\ UNCHANGED last

\* Get and Post of apprpc, sendCoReq of the session: the size has 16 bits.
UserGets(m) ==
  LET size == UInt16(HeaderLen + HeaderLen_CoReq + UInt16(m.data)) IN
  /\ BodyCapSize > 0 /\ m.data <= BodyCapSize - HeaderLen_CoResp
  /\ Starts("device", "coreq", EncodeCoReq_OverServerSendReq(m, size), m)

\* ObGet of apprpc, sendObEstabReq of the session.
UserObserves(m) ==
  LET size == UInt16(HeaderLen + HeaderLen_ObGetEstabReq + UInt16(m.data)) IN
  /\ BodyCapSize > 0 /\ m.data <= BodyCapSize - HeaderLen_ObGetEstabReq
  /\ Starts("device", "estab", EncodeObGetEstabReq_OverServerSendReq(m, size), m)

\* verify of the device, and ping or pingRemoteSet.
DeviceVerifies(v) == Starts("server", "verify", EncodeVerifyReq(v), v)
DevicePings(id, timeout) ==
  Starts("server", "ping", {EncodePingReq(id, timeout)}, [id |-> id, timeout |-> timeout])

\* sendCoReq of the device: the size is an int, the length in the header is not.
DeviceGets(m) ==
  LET size == HeaderLen + HeaderLen_CoReq + m.data IN
  Starts("server", "coreq", EncodeCoReq_OverDeviceSendReq(m, size), m)

\* sendObNotifyReq, and sendObNotifyReqTerminate without data.
DeviceNotifies(m) ==
  LET size == HeaderLen + HeaderLen_ObGetNotifyReq + m.data IN
  Starts("server", "notify", EncodeObGetNotifyReq_OverDeviceSendReq(m, size), m)

\* coGetReqHandler and coPostReqHandler: NotFount, or OK with data.
DeviceAnswersCo(code, n) ==
  LET m == [id |-> work.got.id, method |-> work.got.method, code |-> code, data |-> n]
      size == HeaderLen + HeaderLen_CoResp + n
  IN Answers("device", "server", "coreq", "coresp",
             EncodeCoResp_OverServerSendResp(m, size), m)

\* obGetReqHandler: NotFount or Continue.
DeviceAnswersOb(code) ==
  LET m == [id |-> work.got.id, method |-> work.got.method, code |-> code,
            obid |-> work.got.obid]
      size == HeaderLen + HeaderLen_ObGetEstabResp
  IN Answers("device", "server", "estab", "estabresp",
             EncodeObGetEstabResp_OverServerSendResp(m, size), m)

\* Mutant: the buffer has no room for the header of the body.
ServerAnswersCo_Short(code, n) ==
  LET m == [id |-> work.got.id, method |-> work.got.method, code |-> code, data |-> n]
      size == UInt16(HeaderLen + UInt16(n))
  IN Answers("server", "device", "coreq", "coresp",
             EncodeCoResp_OverDeviceSendResp(m, size), m)

\* receiveCoReq and sendCoResp: the data are the service's, of any length, and a
\* size of 16 bits may be too short for them; then the device is not answered.
ServerAnswersCo(code, n) ==
  LET m == [id |-> work.got.id, method |-> work.got.method, code |-> code, data |-> n]
      size == UInt16(HeaderLen + HeaderLen_CoResp + UInt16(n))
  IN Answers("server", "device", "coreq", "coresp",
             EncodeCoResp_OverDeviceSendResp(m, size), m)

\* sendObNotifyResp: Continue or Terminate.
ServerAnswersOb(code) ==
  LET m == [id |-> work.got.id, method |-> work.got.method, code |-> code,
            obid |-> work.got.obid]
      size == HeaderLen + HeaderLen_ObGetNotifyResp
  IN Answers("server", "device", "notify", "notifyresp",
             EncodeObGetNotifyResp_OverDeviceSendResp(m, size), m)

\* The heartbeats that devicePingProcess takes: 30 s to 12 hours.
HeartbeatRange == 30 .. 43200

\* The response of devicePingProcess, and sendVerifyResp.
ServerPongs ==
  LET m == [id |-> work.got.id, code |-> IF work.got.timeout \in {0} \cup HeartbeatRange
                                         THEN Code_Success ELSE Code_ParaInvalid]
  IN Answers("server", "device", "ping", "resp", {EncodePingResp(m.id, m.code)}, m)
ServerRefuses ==
  LET m == [id |-> work.got.id, code |-> Code_VerifyFail]
  IN Answers("server", "device", "verify", "resp", {EncodeVerifyResp(m.id, m.code)}, m)

-----------------------------------------------------------------------------
(* Reading: the header, as many bytes as it counts, and the decoder.        *)

\* The bytes that the reader takes for the body.
BodyOf(frame, h) ==
  LET n == Len(frame.head) IN
  IF h.bodyLen < n THEN [head |-> SubSeq(frame.head, 1, h.bodyLen), data |-> 0]
  ELSE [head |-> frame.head, data |-> h.bodyLen - n]

\* deviceSendRequest and serverSendRequest look at the method, the caller that a
\* response goes to knows what it has asked.
DecodedReq(h, body) ==
  UNION {IF method # Method_ObservedGet THEN DecodeCoReq(h.id, body)
         ELSE IF h.type = MsgType_DeviceSendReq THEN DecodeObGetNotifyReq(h.id, body)
         ELSE DecodeObGetEstabReq(h.id, body) : method \in DecodeMethod(body)}

DecodedResp(kind, h, body) ==
  CASE kind = "coresp" -> DecodeCoResp(h.id, body)
    [] kind = "estabresp" -> DecodeObGetEstabResp(h.id, body)
    [] kind = "notifyresp" -> DecodeObGetNotifyResp(h.id, body)

Decoded(kind, h, body, m) ==
  CASE h.type = MsgType_DeviceVerifyReq -> DecodeVerifyReqBody(h, body, m)
    [] h.type = MsgType_DevicePingReq ->
         {[id |-> h.id, timeout |-> t] : t \in DecodePingReqBody(h, body)}
    [] h.type \in {MsgType_DeviceVerifyResp, MsgType_DevicePingResp} ->
         {[id |-> h.id, code |-> h.code]}
    [] h.type \in {MsgType_DeviceSendReq, MsgType_ServerSendReq} -> DecodedReq(h, body)
    [] h.type \in {MsgType_DeviceSendResp, MsgType_ServerSendResp} -> DecodedResp(kind, h, body)

Results ==
  UNION {Decoded(flight.kind, h, BodyOf(flight.frame, h), flight.sent) :
           h \in DecodeHeader(flight.frame.header)}

Reads(side) ==
  /\ open /\ flight # None /\ flight.to = side /\ side \notin skewed
  /\ flight' = None
  /\ last' = [to |-> side, kind |-> flight.kind, sent |-> flight.sent, got |-> Results,
              bytes |-> BodySize(flight.frame)]
  /\ skewed' = IF \E h \in DecodeHeader(flight.frame.header) : h.bodyLen < BodySize(flight.frame)
               THEN {side} ELSE skewed
  /\ UNCHANGED dropped

\* The type of the requests to a side.
RequestsTo(side) == IF side = "server" THEN MsgType_DeviceSendReq ELSE MsgType_ServerSendReq

\* The frame is a request of an observation too short for its decoder, which returns
\* no request.
NoObReq(side, frame) ==
  \E h \in DecodeHeader(frame.header) :
    /\ h.type = RequestsTo(side)
    /\ Method_ObservedGet \in DecodeMethod(BodyOf(frame, h))
    /\ DecodedReq(h, BodyOf(frame, h)) = {}

\* A header that does not decode, a body that does not, or a response that tells of
\* a failure ends the connection.
Fails(side) ==
  /\ Reads(side)
  /\ ~NoObReq(side, flight.frame)
  /\ \A got \in Results : flight.kind = "resp" /\ got.code # Code_Success
  /\ open' = FALSE
  /\ UNCHANGED <<work, panicked, session>>

\* receiveObNotifyReq of the server, obGetReqHandler of the device: the error is
\* logged with the ObID of the request there is not.
Panics(side) ==
  /\ Reads(side)
  /\ NoObReq(side, flight.frame)
  /\ open' = FALSE /\ panicked' = TRUE
  /\ UNCHANGED <<work, session>>

\* A request waits for its handler, a response goes to its caller.
Takes(side) ==
  /\ Reads(side)
  /\ \E got \in Results :
       /\ flight.kind = "resp" => got.code = Code_Success
       /\ work' = IF flight.kind \in {"coreq", "estab", "notify"}
                  THEN [at |-> side, kind |-> flight.kind, got |-> got] ELSE None
  /\ flight.kind \notin {"verify", "ping"}
  /\ UNCHANGED <<open, panicked, session>>

\* receiveVerifyReq: the verifier passes the device, which is not answered, or not.
ServerVerifies ==
  /\ Reads("server") /\ flight.kind = "verify"
  /\ \E got \in Results : BodyCapSize' \in GetCapSize(got.capLevel)
  /\ UNCHANGED <<open, panicked, work, heartbeatSeconds>>
ServerRejects ==
  /\ Reads("server") /\ flight.kind = "verify"
  /\ \E got \in Results : work' = [at |-> "server", kind |-> "verify", got |-> got]
  /\ UNCHANGED <<open, panicked, session>>

\* devicePingProcess: a heartbeat out of range leaves the one before.
ServerPinged ==
  /\ Reads("server") /\ flight.kind = "ping"
  /\ \E got \in Results :
       /\ heartbeatSeconds' = IF got.timeout \in HeartbeatRange THEN got.timeout
                              ELSE heartbeatSeconds
       /\ work' = [at |-> "server", kind |-> "ping", got |-> got]
  /\ UNCHANGED <<open, panicked, BodyCapSize>>

\* The exchange is over, and its history forgotten.
ExchangeEnds ==
  /\ open /\ flight = None /\ work = None /\ (last # None \/ dropped # None)
  /\ last' = None /\ dropped' = None
  /\ UNCHANGED <<flight, work, skewed, open, panicked, session>>

-----------------------------------------------------------------------------
CoReqs == [id : Ids, method : {Method_ConstrainedGet, Method_ConstrainedPost}, uri : URIs,
           data : Lengths]
EstabReqs == [id : Ids, method : {Method_ObservedGet}, obid : ObIDs, uri : URIs, data : Lengths]
NotifyReqs == [id : Ids, method : {Method_ObservedGet}, code : {3, 4}, obid : ObIDs,
               data : Lengths]

Next ==
  \/ \E m \in CoReqs : UserGets(m) \/ DeviceGets(m)
  \/ \E m \in EstabReqs : UserObserves(m)
  \/ \E m \in NotifyReqs : DeviceNotifies(m)
  \/ \E code \in {2, 5}, n \in Lengths : DeviceAnswersCo(code, n) \/ ServerAnswersCo(code, n)
  \/ \E code \in {3, 4, 5} : DeviceAnswersOb(code) \/ ServerAnswersOb(code)
  \/ \E v \in Verifies : DeviceVerifies(v)
  \/ \E id \in Ids, t \in Timeouts : DevicePings(id, t)
  \/ ServerPongs \/ ServerRefuses
  \/ \E side \in {"device", "server"} : Fails(side) \/ Panics(side) \/ Takes(side)
  \/ ServerVerifies \/ ServerRejects \/ ServerPinged
  \/ ExchangeEnds

Spec == Init /\ [][Next]_vars

-----------------------------------------------------------------------------
(* Properties.                                                              *)

\* What a side decodes is what the other meant, header id and length of the data
\* included, whatever the buffers and their 16 bits: unless the reader has lost
\* its place in the stream.
Intact ==
  last # None /\ skewed = {} => \A got \in last.got : got = last.sent

\* What a length can cost, and which.  Only the server can lose its place, and only
\* to a device that sends 64 KiB or more: its own frames are refused by the encoder
\* before that, so that a device stays without an answer when the service's data do
\* not fit in 16 bits together with the headers.  A connection is closed over a
\* message longer than the longest capacity, over a verification whose parts are of
\* other lengths than the protocol's, or over a refusal.  A user's request is that
\* long only at capacity 4096, where Get and Post count one byte for the five of the
\* request's header.  But a notification of 64 KiB whose header counts one byte or
\* two of it costs more than its connection: it ends the server's process, and
\* nothing else does; no length ends the device's.
LossesExplained ==
  /\ "device" \notin skewed
  /\ "server" \in skewed /\ last # None =>
       (last.to = "server" => last.bytes >= 65536)
  /\ dropped # None => dropped.data + HeaderLen + HeaderLen_CoResp >= 65536
  /\ panicked => ~open /\ last.to = "server"
  /\ ~open =>
       /\ panicked <=> last.kind = "notify" /\ UInt16(last.bytes) \in {1, 2}
       /\ \/ last.kind \in {"verify", "resp"}
          \/ /\ last.bytes > 4096
             /\ last.to = "device" /\ last.kind \in {"coreq", "estab"} =>
                  BodyCapSize = 4096 /\ last.kind = "coreq" /\ last.sent.data \in 4092 .. 4095
=============================================================================

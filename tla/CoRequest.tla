------------------------------ MODULE CoRequest ------------------------------
(***************************************************************************)
(* A request of a user to a device, ConstrainedGet or ConstrainedPost, and *)
(* the way its answer finds the handler that waits for it                  *)
(* (src/internal/deviceaccess/access_server: apprpc/apprpc.go Get and      *)
(* Post, devicetcp/session.go Send; the device side is                     *)
(* src/internal/deviceaccess/access_client/devicesession/devicesession.go).*)
(*                                                                         *)
(* Many handlers share one session.  A request takes the next header id,   *)
(* puts a channel under it into sendIDStore and its message into           *)
(* outgoingChan; the device answers one request after the other; and       *)
(* tcpIncomming looks the id of an answer up to find the channel.  The     *)
(* handler gives up after 10 s.                                            *)
(*                                                                         *)
(* A request is the value the 32-bit counter rollingHeaderID had for it.   *)
(* Its header id on the wire keeps 16 bits of that value, here the         *)
(* remainder by IDSpace.  Method, uri, data and status code travel         *)
(* unchanged and are left out; a message is the request it belongs to.     *)
(***************************************************************************)
EXTENDS Naturals, Sequences, SequencesExt

CONSTANTS
  Caller,     \* RPC handlers
  IDSpace,    \* number of header ids: 2^16 in the code
  QueueSize,  \* capacity of outgoingChan: 10 in the code
  MaxReq      \* bound: requests made on the session

ASSUME IDSpaceAssumption == IDSpace \in Nat \ {0}
ASSUME QueueSizeAssumption == QueueSize \in Nat \ {0}
ASSUME MaxReqAssumption == MaxReq \in Nat

Request == 1 .. MaxReq

None == 0          \* no request: an absent key, an empty channel
\* uint16(s.rollingHeaderID.Add(1))
HeaderID(r) == r % IDSpace

VARIABLES
  session,       \* "up", "failing" (tcpIncomming has returned) or "down" (closed)
  unknown,       \* history: requests whose answer met ErrHeaderIDNotExist
  rolling,       \* rollingHeaderID
  caller,        \* caller[u]: where the handler u is
  req,           \* req[u]: the request of u
  sendIDStore,   \* sendIDStore[i]: the request whose channel is stored under i
  respChan,      \* respChan[r]: the answer in the channel of r, capacity 1
  outgoingChan,  \* requests queued for the socket
  toDevice,      \* requests written and not yet handled by the device
  toServer,      \* answers not yet read by tcpIncomming
  writing,       \* tcpOutgoing goes on; FALSE: it has ended, or its write never does
  held,          \* tcpIncomming between Get and value.C <-: <<channel, answer>>
  answer,        \* history: answer[r]: what Send returned for r
  timedOut,      \* history: requests for which Send returned ErrSendTimeout
  handled,       \* history: requests the device has answered
  broken,        \* the device has closed its end of the connection
  stalled,       \* requests that stay in Send for more than 120 s
  reused         \* history: an id was given out while still in flight

device == <<toDevice, toServer, handled, broken>>
server == <<session, unknown, held, writing>>
callers == <<rolling, caller, req, answer, timedOut, stalled, reused>>
vars == <<server, device, callers, sendIDStore, respChan, outgoingChan>>

Active == {"send", "wait", "del"}

TypeOK ==
  /\ session \in {"up", "failing", "down"}
  /\ unknown \in SUBSET Request
  /\ rolling \in 0 .. MaxReq
  /\ caller \in [Caller -> {"idle", "found"} \cup Active]
  /\ req \in [Caller -> Request \cup {None}]
  /\ sendIDStore \in [0 .. IDSpace - 1 -> Request \cup {None}]
  /\ respChan \in [Request -> Request \cup {None}]
  /\ outgoingChan \in Seq(Request) /\ Len(outgoingChan) <= QueueSize
  /\ toDevice \in Seq(Request)
  /\ toServer \in Seq(Request)
  /\ writing \in BOOLEAN
  /\ held \in (Request \X Request) \cup {<<>>}
  /\ answer \in [Request -> Request \cup {None}]
  /\ timedOut \in SUBSET Request
  /\ handled \in SUBSET Request
  /\ broken \in BOOLEAN
  /\ stalled \in SUBSET Request
  /\ reused \in BOOLEAN

Init ==
  /\ session = "up"
  /\ unknown = {}
  /\ rolling = 0
  /\ caller = [u \in Caller |-> "idle"]
  /\ req = [u \in Caller |-> None]
  /\ sendIDStore = [i \in 0 .. IDSpace - 1 |-> None]
  /\ respChan = [r \in Request |-> None]
  /\ outgoingChan = <<>>
  /\ toDevice = <<>>
  /\ toServer = <<>>
  /\ held = <<>>
  /\ writing = TRUE
  /\ answer = [r \in Request |-> None]
  /\ timedOut = {}
  /\ handled = {}
  /\ broken = FALSE
  /\ stalled = {}
  /\ reused = FALSE

\* Requests that still occupy their header id: those of a handler inside Send,
\* and those with a message under way.
InFlight ==
  {req[u] : u \in {v \in Caller : caller[v] \in Active}}
    \cup ToSet(outgoingChan) \cup ToSet(toDevice) \cup ToSet(toServer) \cup ToSet(held)

-----------------------------------------------------------------------------
(* The handlers: Get and Post of apprpc, and Send.                          *)

CallerMoves(u, from, to) ==
  /\ caller[u] = from
  /\ caller' = [caller EXCEPT ![u] = to]
  /\ UNCHANGED <<server, device>>

\* The device is registered and the data fit its capacity: otherwise the
\* handler returns CODE_DEVICEID_OFFLINE or CODE_BAD_REQUEST and does nothing.
CallerFinds(u) ==
  /\ CallerMoves(u, "idle", "found")
  /\ session # "down"
  /\ UNCHANGED <<rolling, req, sendIDStore, respChan, outgoingChan, answer,
                 timedOut, stalled, reused>>

\* genHeaderID; the channel goes into sendIDStore before the message is sent.
\* The session may have ended since it was found.
CallerSets(u) ==
  LET r == rolling + 1 IN
  /\ CallerMoves(u, "found", "send")
  /\ r <= MaxReq
  /\ rolling' = r
  /\ req' = [req EXCEPT ![u] = r]
  /\ sendIDStore' = [sendIDStore EXCEPT ![HeaderID(r)] = r]
  /\ reused' = (reused \/ \E m \in InFlight : HeaderID(m) = HeaderID(r))
  /\ UNCHANGED <<respChan, outgoingChan, answer, timedOut, stalled>>

\* s.outgoingChan <- buf
CallerSends(u) ==
  /\ CallerMoves(u, "send", "wait")
  /\ Len(outgoingChan) < QueueSize
  /\ outgoingChan' = Append(outgoingChan, req[u])
  /\ UNCHANGED <<rolling, req, sendIDStore, respChan, answer, timedOut, stalled, reused>>

\* The full channel blocks the handler for so long that its key grows older
\* than the 120 s of sendIDStore; elsewhere Send is much quicker.
CallerStalls(u) ==
  /\ caller[u] = "send"
  /\ Len(outgoingChan) = QueueSize
  /\ stalled' = stalled \cup {req[u]}
  /\ UNCHANGED <<server, device, rolling, caller, req, sendIDStore, respChan,
                 outgoingChan, answer, timedOut, reused>>

\* case sendRespBody := <-respChan
CallerGets(u) ==
  LET r == req[u] IN
  /\ CallerMoves(u, "wait", "del")
  /\ respChan[r] # None
  /\ answer' = [answer EXCEPT ![r] = respChan[r]]
  /\ respChan' = [respChan EXCEPT ![r] = None]
  /\ UNCHANGED <<rolling, req, sendIDStore, outgoingChan, timedOut, stalled, reused>>

\* Mutant: the timer only counts while the session is up.
CallerTimesOut_WhileUp(u) ==
  /\ CallerMoves(u, "wait", "del")
  /\ session = "up"
  /\ timedOut' = timedOut \cup {req[u]}
  /\ UNCHANGED <<rolling, req, sendIDStore, respChan, outgoingChan, answer, stalled,
                 reused>>

\* case <-t.C; with an answer in the channel select may still take this one.
CallerTimesOut(u) ==
  /\ CallerMoves(u, "wait", "del")
  /\ timedOut' = timedOut \cup {req[u]}
  /\ UNCHANGED <<rolling, req, sendIDStore, respChan, outgoingChan, answer, stalled,
                 reused>>

\* Mutant: a handler that timed out leaves its key to DelExpireKeys.
CallerDeletes_OnSuccess(u) ==
  /\ CallerMoves(u, "del", "idle")
  /\ sendIDStore' = IF req[u] \in timedOut THEN sendIDStore
                    ELSE [sendIDStore EXCEPT ![HeaderID(req[u])] = None]
  /\ req' = [req EXCEPT ![u] = None]
  /\ UNCHANGED <<rolling, respChan, outgoingChan, answer, timedOut, stalled, reused>>

\* Mutant: the key of the newest request is deleted.
CallerDeletes_Newest(u) ==
  /\ CallerMoves(u, "del", "idle")
  /\ sendIDStore' = [sendIDStore EXCEPT ![HeaderID(rolling)] = None]
  /\ req' = [req EXCEPT ![u] = None]
  /\ UNCHANGED <<rolling, respChan, outgoingChan, answer, timedOut, stalled, reused>>

\* The deferred sendIDStore.Del; the handler answers the RPC.
CallerDeletes(u) ==
  /\ CallerMoves(u, "del", "idle")
  /\ sendIDStore' = [sendIDStore EXCEPT ![HeaderID(req[u])] = None]
  /\ req' = [req EXCEPT ![u] = None]
  /\ UNCHANGED <<rolling, respChan, outgoingChan, answer, timedOut, stalled, reused>>

-----------------------------------------------------------------------------
(* tcpOutgoing and the device.                                              *)

\* tcpOutgoing writes the next message.
OutgoingWrites ==
  /\ writing /\ session # "down"
  /\ outgoingChan # <<>>
  /\ outgoingChan' = Tail(outgoingChan)
  /\ toDevice' = Append(toDevice, Head(outgoingChan))
  /\ UNCHANGED <<server, callers, sendIDStore, respChan, toServer, handled, broken>>

\* It ends: its write fails, or serveCtx is done.  Or a write never ends, as the device
\* reads no more.  The message it has taken is lost.
OutgoingStops ==
  /\ writing
  /\ writing' = FALSE
  /\ \/ UNCHANGED outgoingChan
     \/ outgoingChan # <<>> /\ outgoingChan' = Tail(outgoingChan)
  /\ UNCHANGED <<session, unknown, held, device, callers, sendIDStore, respChan>>

\* serverSendRequest of the device: one request at a time, each answered under
\* the header id it came with.
DeviceAnswers ==
  /\ ~broken
  /\ toDevice # <<>>
  /\ toDevice' = Tail(toDevice)
  /\ toServer' = Append(toServer, Head(toDevice))
  /\ handled' = handled \cup {Head(toDevice)}
  /\ UNCHANGED <<server, callers, sendIDStore, respChan, outgoingChan, broken>>

\* A handler of the device fails: its error goes up, nothing is answered, and
\* the device closes the connection.
DeviceHandlerFails ==
  /\ ~broken
  /\ toDevice # <<>>
  /\ toDevice' = <<>>
  /\ broken' = TRUE
  /\ UNCHANGED <<server, callers, sendIDStore, respChan, outgoingChan, toServer, handled>>

-----------------------------------------------------------------------------
(* tcpIncomming: serverSendRespone.                                         *)

\* Mutant: an answer goes to whoever waits, in the belief that they keep order.
IncomingLooksUp_AnyKey ==
  /\ session = "up"
  /\ held = <<>>
  /\ toServer # <<>>
  /\ \E i \in 0 .. IDSpace - 1 :
       sendIDStore[i] # None /\ held' = <<sendIDStore[i], Head(toServer)>>
  /\ toServer' = Tail(toServer)
  /\ UNCHANGED <<session, unknown, writing, callers, sendIDStore, respChan, outgoingChan,
                 toDevice, handled, broken>>

\* sendIDStore.Get(header.ID), and the body is read.
IncomingLooksUp ==
  LET i == HeaderID(Head(toServer)) IN
  /\ session = "up"
  /\ held = <<>>
  /\ toServer # <<>>
  /\ sendIDStore[i] # None
  /\ held' = <<sendIDStore[i], Head(toServer)>>
  /\ toServer' = Tail(toServer)
  /\ UNCHANGED <<session, unknown, writing, callers, sendIDStore, respChan, outgoingChan,
                 toDevice, handled, broken>>

\* The id is not there: ErrHeaderIDNotExist ends the session.
IncomingUnknown ==
  /\ session = "up"
  /\ held = <<>>
  /\ toServer # <<>>
  /\ sendIDStore[HeaderID(Head(toServer))] = None
  /\ session' = "failing"
  /\ unknown' = unknown \cup {Head(toServer)}
  /\ toServer' = Tail(toServer)
  /\ UNCHANGED <<held, writing, callers, sendIDStore, respChan, outgoingChan, toDevice, handled,
                 broken>>

\* value.C <- sendResp.Body, which blocks while the channel is full.
IncomingDelivers ==
  /\ held # <<>>
  /\ respChan[held[1]] = None
  /\ respChan' = [respChan EXCEPT ![held[1]] = held[2]]
  /\ held' = <<>>
  /\ UNCHANGED <<session, unknown, writing, callers, sendIDStore, outgoingChan, device>>

\* storeTicker: DelExpireKeys removes a key that is older than 120 s.
DelExpireKeys(r) ==
  /\ session # "down"
  /\ r \in stalled
  /\ sendIDStore[HeaderID(r)] = r
  /\ sendIDStore' = [sendIDStore EXCEPT ![HeaderID(r)] = None]
  /\ UNCHANGED <<server, device, callers, respChan, outgoingChan>>

\* The session ends for any other reason, see SessionServe.
SessionFails ==
  /\ session = "up"
  /\ session' = "failing"
  /\ UNCHANGED <<unknown, held, writing, callers, sendIDStore, respChan, outgoingChan, device>>

\* serve closes the socket, and what is under way is lost.  It may never come to it:
\* see Stuck of SessionServe.
SessionCloses ==
  /\ session = "failing"
  /\ session' = "down"
  /\ toDevice' = <<>>
  /\ toServer' = <<>>
  /\ UNCHANGED <<unknown, held, writing, callers, sendIDStore, respChan, outgoingChan, handled,
                 broken>>

-----------------------------------------------------------------------------
CallerNext(u) ==
  \/ CallerFinds(u) \/ CallerSets(u) \/ CallerSends(u) \/ CallerStalls(u)
  \/ CallerGets(u) \/ CallerTimesOut(u) \/ CallerDeletes(u)

DeviceNext == OutgoingWrites \/ OutgoingStops \/ DeviceAnswers \/ DeviceHandlerFails

IncomingNext ==
  \/ IncomingLooksUp \/ IncomingUnknown \/ IncomingDelivers
  \/ \E r \in Request : DelExpireKeys(r)
  \/ SessionFails \/ SessionCloses

Next == DeviceNext \/ IncomingNext \/ \E u \in Caller : CallerNext(u)

Spec == Init /\ [][Next]_vars

\* The handlers go on and their timers fire; tcpOutgoing goes on while it can, and a
\* write to a closed socket fails.  The device need not answer, tcpIncomming need not
\* look at anything, and a session that fails need not be closed.
Fairness ==
  /\ \A u \in Caller :
       /\ SF_vars(CallerSends(u))
       /\ WF_vars(CallerGets(u) \/ CallerTimesOut(u) \/ CallerDeletes(u))
  /\ WF_vars(OutgoingWrites)
  /\ WF_vars(session = "down" /\ outgoingChan # <<>> /\ OutgoingStops)

FairSpec == Spec /\ Fairness

-----------------------------------------------------------------------------
(* Properties.                                                              *)

\* Send returns the device's answer to the request it was called for, as long
\* as no header id comes round while a request with this id is in flight.
Correlated ==
  ~reused => \A r \in Request : answer[r] \in {r, None}

\* Only a late answer ends the session with ErrHeaderIDNotExist: its handler has
\* given up, or was stalled beyond the life of its key.  Setting the store after
\* sending, or deleting someone else's key, would end sessions that work.
TeardownMeansLate == ~reused => unknown \subseteq timedOut \cup stalled

\* sendIDStore holds the requests of the handlers inside Send and nothing else:
\* a handler that has returned leaves no key behind.
StoreExact ==
  ~reused =>
    \A r \in Request \ stalled :
      sendIDStore[HeaderID(r)] = r
        <=> \E u \in Caller : caller[u] \in Active /\ req[u] = r

\* Send is a RequestReply, whatever the interleaving, while ids do not come
\* round in flight.
Reply == INSTANCE RequestReply WITH
  issued <- 1 .. rolling,
  answered <- handled,
  returned <- answer,
  expired <- timedOut,
  void <- reused

ImplementsRequestReply == Reply!Spec

\* A handler inside Send returns, or hangs in front of a full outgoingChan that nobody
\* empties any more: tcpOutgoing has ended, with its session or before it, or is in a
\* write that never ends.
SendReturns ==
  \A u \in Caller :
    caller[u] \in Active
      ~> caller[u] = "idle" \/ (~writing /\ Len(outgoingChan) = QueueSize)
=============================================================================

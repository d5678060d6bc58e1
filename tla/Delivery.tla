------------------------------ MODULE Delivery ------------------------------
(***************************************************************************)
(* The path of an envelope from a sender's POST /v1/envelopes to the       *)
(* recipient's application: EnvelopeStore (PostgreSQL), Hub (the server's  *)
(* sockets) and Transport (the recipient's client) composed, with what can *)
(* go wrong between them.                                                  *)
(*                                                                         *)
(* Names of connections are reused: a socket the client and the server     *)
(* have both finished with may serve as the next one, so a behaviour can   *)
(* reconnect for ever.                                                     *)
(***************************************************************************)
EXTENDS EnvelopeStore, Hub, Transport

CONSTANTS
  Faults,          \* the kinds of fault this instance injects
  MaxFaults,       \* bound: how many of them in a behaviour
  UnboundedDrops   \* sockets may break any number of times

FaultKind == {"drop", "fetch", "throw", "ack", "crash", "server", "token", "close", "expire", "abort"}

ASSUME DeliveryAssumption ==
  /\ Faults \subseteq FaultKind
  /\ MaxFaults \in Nat
  /\ UnboundedDrops \in BOOLEAN

VARIABLES
  token,       \* the client's bearer token is still accepted
  faults,      \* faults so far
  processed,   \* envelopes onEnvelope has ever resolved for
  ran,         \* the same, since the client last started
  twice,       \* resolved for more than once since the client last started
  evicted      \* ids that remember has dropped since then

history == <<processed, ran, twice, evicted>>
vars == <<storeVars, hubVars, transportVars, token, faults, history>>

TypeOK ==
  /\ StoreTypeOK
  /\ HubTypeOK
  /\ TransportTypeOK
  /\ token \in BOOLEAN
  /\ faults \in 0 .. MaxFaults
  /\ processed \in SUBSET Envelope
  /\ ran \in SUBSET Envelope
  /\ twice \in SUBSET Envelope
  /\ evicted \in SUBSET Envelope

Init ==
  /\ StoreInit
  /\ HubInit
  /\ TransportInit
  /\ token = TRUE
  /\ faults = 0
  /\ processed = {}
  /\ ran = {}
  /\ twice = {}
  /\ evicted = {}

Fault(kind) ==
  /\ kind \in Faults
  /\ faults < MaxFaults
  /\ faults' = faults + 1

NoFault == UNCHANGED faults

-----------------------------------------------------------------------------
(* handleSendEnvelope: StoreEnvelope, then the push of the committed row. *)
Submit(e) ==
  /\ BeginStore(e)
  /\ NoFault
  /\ UNCHANGED <<hubVars, transportVars, token, history>>

Accept(e) ==
  /\ CommitStore(e)
  /\ PushDue(e)
  /\ NoFault
  /\ UNCHANGED <<transportVars, token, history>>

Abort(e) ==
  /\ AbortStore(e)
  /\ Fault("abort")
  /\ UNCHANGED <<hubVars, transportVars, token, history>>

Lapse(e) ==
  /\ Expire(e)
  /\ Fault("expire")
  /\ UNCHANGED <<hubVars, transportVars, token, history>>

Sweep ==
  /\ SweepEnvelopes
  /\ NoFault
  /\ UNCHANGED <<hubVars, transportVars, token, history>>

PushStep(e) ==
  /\ PushSnapshot(e) \/ \E c \in Conn : PushSend(e, c)
  /\ NoFault
  /\ UNCHANGED <<storeVars, transportVars, token, history>>

-----------------------------------------------------------------------------
(* The server's side of a connection.  authenticateSocket looks the token  *)
(* up; a client that is gone or whose token has expired is turned away.    *)
Register(c) ==
  /\ sock[c] = "authenticating"
  /\ token
  /\ HubAdd(c)
  /\ NoFault
  /\ UNCHANGED <<storeVars, transportVars, token, history>>

TurnAway(c) ==
  /\ handler[c] = "authenticating"
  /\ sock[c] = "closed" \/ (sock[c] = "authenticating" /\ ~token)
  /\ handler' = [handler EXCEPT ![c] = "returned"]
  /\ CloseConns({c})
  /\ NoFault
  /\ UNCHANGED <<connections, wire, due, targets>>
  /\ UNCHANGED <<storeVars, transportVars, token, history>>

Announce(c) ==
  /\ AnnounceReady(c)
  /\ NoFault
  /\ UNCHANGED <<storeVars, transportVars, token, history>>

(* Frames are written while the other end is there ... *)
Write(c) ==
  /\ Connected(c)
  /\ WriteLoop(c)
  /\ NoFault
  /\ UNCHANGED <<storeVars, transportVars, token, history>>

(* ... and when it is not, a failing write shows it, ... *)
Notice(c) ==
  /\ sock[c] = "closed"
  /\ BreakConn(c)
  /\ NoFault
  /\ UNCHANGED <<storeVars, transportVars, token, history>>

(* ... or a failing read. *)
Exit(c) ==
  /\ c \in done \/ sock[c] = "closed"
  /\ HandlerExit(c)
  /\ NoFault
  /\ UNCHANGED <<storeVars, transportVars, token, history>>

Leave(c) ==
  /\ HandlerReturn(c)
  /\ NoFault
  /\ UNCHANGED <<storeVars, transportVars, token, history>>

-----------------------------------------------------------------------------
(* The client's side.  A name can be used again when neither side nor a    *)
(* push still refers to it.                                                *)
Reusable(c) ==
  \/ sock[c] = "unused"
  \/ /\ sock[c] = "closed"
     /\ handler[c] = "returned"
     /\ drain[c] = "off"
     /\ \A e \in Envelope : c \notin targets[e]

Dial(c) ==
  /\ Reusable(c)
  /\ Open(c)
  /\ handler' = [handler EXCEPT ![c] = "authenticating"]
  /\ done' = done \ {c}
  /\ NoFault
  /\ UNCHANGED <<connections, send, wire, due, targets>>
  /\ UNCHANGED <<storeVars, token, history>>

Opened(c) ==
  /\ OnOpen(c)
  /\ NoFault
  /\ UNCHANGED <<storeVars, hubVars, token, history>>

Drop == Fault("drop") \/ (UnboundedDrops /\ NoFault)

(* The socket goes down: because the server closed it, or on its own.      *)
(* What had not been read is lost with it.                                 *)
Disconnect(c) ==
  /\ OnClose(c)
  /\ (c \in done /\ NoFault) \/ (c \notin done /\ Drop)
  /\ wire' = [wire EXCEPT ![c] = <<>>]
  /\ UNCHANGED <<connections, handler, done, send, due, targets>>
  /\ UNCHANGED <<storeVars, token, history>>

(* The user locks the app. *)
CloseTransport ==
  /\ Close
  /\ Fault("close")
  /\ wire' = [c \in Conn |-> <<>>]
  /\ UNCHANGED <<connections, handler, done, send, due, targets>>
  /\ UNCHANGED <<storeVars, token, history>>

(* onmessage. *)
ReceiveReady(c) ==
  /\ ReadFrame(c)
  /\ Head(wire[c]) = Ready
  /\ OnReady(c)
  /\ NoFault
  /\ UNCHANGED <<storeVars, token, history>>

ReceiveEnvelope(c) ==
  /\ ReadFrame(c)
  /\ Head(wire[c]) # Ready
  /\ OnEnvelope(c, Head(wire[c]))
  /\ NoFault
  /\ UNCHANGED <<storeVars, token, history>>

(* GET /v1/envelopes: handleFetchEnvelopes reads and deletes nothing. *)
FetchEnvelopes(c) ==
  /\ token
  /\ DrainFetch(c, FetchPage)
  /\ NoFault
  /\ UNCHANGED <<storeVars, hubVars, token, history>>

FetchFails(c) ==
  /\ DrainFetchFails(c)
  /\ (token /\ Fault("fetch")) \/ (~token /\ NoFault)
  /\ UNCHANGED <<storeVars, hubVars, token, history>>

DrainStep(c) ==
  /\ DrainNext(c) \/ DrainPageEnd(c)
  /\ NoFault
  /\ UNCHANGED <<storeVars, hubVars, token, history>>

Resolve(e) ==
  /\ HandlerResolves(e)
  /\ processed' = processed \cup {e}
  /\ ran' = ran \cup {e}
  /\ twice' = twice \cup (ran \cap {e})
  /\ NoFault
  /\ UNCHANGED <<storeVars, hubVars, token, evicted>>

Throw(e) ==
  /\ HandlerThrows(e)
  /\ Fault("throw")
  /\ UNCHANGED <<storeVars, hubVars, token, history>>

(* POST /v1/envelopes/ack: handleAckEnvelopes.  The answer is for whoever  *)
(* still waits for it.                                                     *)
HandleAck(e) ==
  /\ e \in ackReq
  /\ token
  /\ AcknowledgeEnvelopes({e})
  /\ ackReq' = ackReq \ {e}
  /\ ackResp' = IF job[e] = "acking" THEN ackResp \cup {e} ELSE ackResp
  /\ NoFault
  /\ UNCHANGED <<sock, retry, stopped, job, handled, passVars>>
  /\ UNCHANGED <<hubVars, token, history>>

Evicts == IF Len(handled) = MaxRemembered THEN {Head(handled)} ELSE {}

AckReturns(e) ==
  /\ \/ AckSucceeds(e) /\ NoFault
     \/ /\ AckFails(e)
        /\ IF token /\ e \in ackReq \cup ackResp THEN Fault("ack") ELSE NoFault
  /\ evicted' = evicted \cup Evicts
  /\ UNCHANGED <<storeVars, hubVars, token, processed, ran, twice>>

-----------------------------------------------------------------------------
(* The bearer token passes its 24 hours; nothing in the transport renews   *)
(* it.                                                                     *)
TokenExpires ==
  /\ token
  /\ Fault("token")
  /\ token' = FALSE
  /\ UNCHANGED <<storeVars, hubVars, transportVars, history>>

(* The client's process ends and a new one resumes: it authenticates again *)
(* and starts from a new Transport.                                        *)
ClientRestart ==
  /\ Fault("crash")
  /\ TransportRestart
  /\ wire' = [c \in Conn |-> <<>>]
  /\ token' = TRUE
  /\ ran' = {}
  /\ twice' = {}
  /\ evicted' = {}
  /\ UNCHANGED <<connections, handler, done, send, due, targets>>
  /\ UNCHANGED <<storeVars, processed>>

(* The server's process ends and a new one starts: transactions roll back, *)
(* requests and pushes are lost, sockets are severed.                      *)
ServerRestart ==
  LET used == {c \in Conn : sock[c] # "unused"}
  IN  /\ Fault("server")
      /\ phase' = [e \in Envelope |-> IF phase[e] = "counted" THEN "failed" ELSE phase[e]]
      /\ connections' = {}
      /\ handler' = [c \in Conn |-> IF c \in used THEN "returned" ELSE handler[c]]
      /\ CloseConns(used)
      /\ due' = {}
      /\ targets' = [e \in Envelope |-> {}]
      /\ ackReq' = {}
      /\ ackResp' = {}
      /\ UNCHANGED <<rows, expired, wire, sock, retry, stopped, job, handled, passVars>>
      /\ UNCHANGED <<token, history>>

ServerStep(c) ==
  \/ Register(c) \/ TurnAway(c) \/ Announce(c) \/ Write(c)
  \/ Notice(c) \/ Exit(c) \/ Leave(c)

ClientStep(c) ==
  \/ Dial(c) \/ Opened(c) \/ Disconnect(c) \/ ReceiveReady(c) \/ ReceiveEnvelope(c)
  \/ FetchEnvelopes(c) \/ FetchFails(c) \/ DrainStep(c)

EnvelopeStep(e) ==
  \/ Submit(e) \/ Accept(e) \/ Abort(e) \/ Lapse(e) \/ PushStep(e)
  \/ Resolve(e) \/ Throw(e) \/ HandleAck(e) \/ AckReturns(e)

Next ==
  \/ \E e \in Envelope : EnvelopeStep(e)
  \/ \E c \in Conn : ServerStep(c) \/ ClientStep(c)
  \/ Sweep \/ CloseTransport \/ TokenExpires \/ ClientRestart \/ ServerRestart

Spec == Init /\ [][Next]_vars

(* The database answers, goroutines and the event loop run what is ready,  *)
(* the network carries what is sent while a socket is up, and the          *)
(* application's handler returns.  Nothing is assumed about senders, about *)
(* the sweeper, or about faults.                                           *)
Fairness ==
  /\ \A e \in Envelope :
       /\ WF_vars(Accept(e))
       /\ WF_vars(PushStep(e))
       /\ WF_vars(NoFault /\ (Resolve(e) \/ HandleAck(e) \/ AckReturns(e)))
  /\ \A c \in Conn :
       /\ WF_vars(ServerStep(c))
       /\ WF_vars(\/ Dial(c) \/ Opened(c) \/ ReceiveReady(c) \/ ReceiveEnvelope(c)
                  \/ c \in done /\ Disconnect(c))
       /\ WF_vars(NoFault /\ (FetchEnvelopes(c) \/ FetchFails(c) \/ DrainStep(c)))

FairSpec == Spec /\ Fairness

-----------------------------------------------------------------------------
Committed == InPhase("committed")

(* No accepted envelope is lost: until the application has processed it or *)
(* it has expired, its row is there.  Acknowledging follows the handler    *)
(* (deliver), a push and a fetch delete nothing, and the sweep takes only  *)
(* expired rows, so this survives dropped sockets, failed and delayed      *)
(* acknowledgements and restarts of both sides.                            *)
NothingLost == Committed \subseteq rows \cup processed \cup expired

(* Only accepted envelopes reach the application, though pages and pushes  *)
(* carry copies that outlive the row.                                      *)
OnlyAccepted == processed \subseteq Committed

(* While a client runs, the application sees an envelope a second time     *)
(* only if its id has been evicted from the bounded set of remembered ids. *)
TwiceOnlyAfterEviction == twice \subseteq evicted

(* A catch-up pass never waits for a deliver call that is over, and no two *)
(* passes wait for the same one.                                           *)
PassAwaitsRunningCall ==
  \A c \in Conn :
    /\ drain[c] = "deliver" => awaits[c] \in Envelope /\ job[awaits[c]] # "idle"
    /\ \A d \in Conn \ {c} : awaits[c] # 0 => awaits[c] # awaits[d]

(* Why NothingLost and OnlyAccepted hold in every step: every copy of an   *)
(* envelope, in the table, a push, a buffer, a page or a deliver call, is  *)
(* a copy of an accepted one, and an acknowledgement is only ever under    *)
(* way for an envelope whose handler has resolved.                         *)
CopiesAreAccepted ==
  /\ rows \subseteq Committed
  /\ due \subseteq Committed
  /\ \A e \in Envelope : targets[e] # {} => e \in Committed
  /\ send \in [Conn -> Seq(Committed \cup {Ready})]
  /\ wire \in [Conn -> Seq(Committed \cup {Ready})]
  /\ batch \in [Conn -> SUBSET Committed]
  /\ \A e \in Envelope : job[e] # "idle" => e \in Committed

AcksAreEarned == ackReq \subseteq processed

DeliveryInv == CopiesAreAccepted /\ AcksAreEarned /\ OnlyAccepted /\ NothingLost

(* Why TwiceOnlyAfterEviction holds: a running call is never for a         *)
(* remembered id, and an id that was handled stays remembered until        *)
(* eviction, with its acknowledgement in between.                          *)
MemoryInv ==
  \A e \in Envelope :
    /\ job[e] # "idle" => ~Handled(e)
    /\ e \in ran \ evicted => job[e] = "acking" \/ Handled(e)
    /\ e \in twice => e \in evicted

(* Why PassAwaitsRunningCall holds: a pass belongs to a finished           *)
(* handshake, and exactly the passes in "deliver" await a call.            *)
PassInv ==
  \A c \in Conn :
    /\ sock[c] \in {"unused", "connecting", "authenticating"} => drain[c] = "off"
    /\ drain[c] = "deliver" <=> awaits[c] # 0
    /\ awaits[c] # 0 => job[awaits[c]] # "idle"
    /\ \A d \in Conn : awaits[c] # 0 /\ awaits[c] = awaits[d] => c = d

(* The delivery path implements the abstract mailbox. *)
Abstract == INSTANCE Mailbox WITH
  accepted <- Committed,
  stored <- rows,
  delivered <- processed

ImplementsMailbox == Abstract!Spec

(* "so a large backlog cannot hold the connection in a drain loop          *)
(* indefinitely" (socket.ts:14-15): every pass ends, also when fetching a  *)
(* page, handling an envelope or acknowledging it fails on the way.        *)
PassEnds == \A c \in Conn : drain[c] # "off" ~> drain[c] = "off"

EachIsHandled == \A e \in Envelope : phase[e] = "committed" ~> e \in processed \cup expired

Up == \E c \in Conn : sock[c] = "ready" /\ c \notin done

(* After the n-th fault the socket is down, then comes up and stays up. *)
UpSince(n) == <>(faults = n /\ ~Up) /\ <>[](faults = n /\ Up)

(* drainBacklog is about to return with rows left in the queue. *)
CutShort(c) ==
  /\ drain[c] = "page"
  /\ batch[c] = {}
  /\ c \notin progress \/ page[c] + 1 >= MaxDrainPages
  /\ Live # {}

(* If no further fault comes after some point, the socket comes up after   *)
(* it and stays up, and no pass is cut short by its page budget or by a    *)
(* page without an acknowledgement, every accepted envelope is handled or  *)
(* expires: hub.add comes before "ready", "ready" before the catch-up      *)
(* pass, and the commit before the push, so either the pass or a push      *)
(* finds it.                                                               *)
HandledWhenUp ==
  \A n \in 0 .. MaxFaults :
    UpSince(n) /\ [](faults = n => \A c \in Conn : ~CutShort(c)) => EachIsHandled

KeepsReconnecting == []<>(\E c \in Conn : drain[c] = "fetch")

(* Every envelope of the oldest page was handled, and its acknowledgement  *)
(* failed: each of them is a duplicate to deliver, which acknowledges none *)
(* of them again.                                                          *)
Stuck == FetchPage # {} /\ \A e \in FetchPage : Handled(e)

(* However often sockets break, a client that keeps reconnecting works     *)
(* through its backlog, also after a failed fetch, a failed handler or a   *)
(* failed acknowledgement, unless it is stuck for good on a page of        *)
(* envelopes it has handled.  "The remaining envelopes are picked up on    *)
(* the next reconnect" (socket.ts:262-263) holds only with that exception. *)
HandledByReconnecting == KeepsReconnecting /\ []<>~Stuck => EachIsHandled
=============================================================================

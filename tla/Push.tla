-------------------------------- MODULE Push --------------------------------
(***************************************************************************)
(* The server's half of the delivery path under every schedule of its      *)
(* callers: senders whose submissions race for the queue of EnvelopeStore, *)
(* sockets of Hub that authenticate, break and are read at any pace,       *)
(* acknowledgements, and a graceful shutdown.  Two history variables       *)
(* record what each connection is owed and what its client has read.       *)
(***************************************************************************)
EXTENDS EnvelopeStore, Hub

VARIABLES
  shutdown,  \* Service.Close has been called
  closing,   \* what closeAll copied and has not yet closed
  owed,      \* envelopes committed after the connection joined the hub
  seen       \* frames the client has read

history == <<owed, seen>>
others == <<storeVars, shutdown, closing, history>>
pushVars == <<storeVars, hubVars, shutdown, closing, history>>

PushInit ==
  /\ StoreInit
  /\ HubInit
  /\ shutdown = FALSE
  /\ closing = {}
  /\ owed = [c \in Conn |-> {}]
  /\ seen = [c \in Conn |-> {}]

Joined(c) == handler[c] \in {"added", "reading"}

-----------------------------------------------------------------------------
(* handleSendEnvelope: StoreEnvelope, then the push of the committed row. *)
Submit(e) ==
  /\ BeginStore(e)
  /\ UNCHANGED <<hubVars, shutdown, closing, history>>

Accept(e) ==
  /\ CommitStore(e)
  /\ PushDue(e)
  /\ owed' = [c \in Conn |-> IF Joined(c) THEN owed[c] \cup {e} ELSE owed[c]]
  /\ UNCHANGED <<shutdown, closing, seen>>

Abort(e) ==
  /\ AbortStore(e)
  /\ UNCHANGED <<hubVars, shutdown, closing, history>>

(* handleAckEnvelopes, for an envelope the client has read off a socket. *)
Acknowledge(e) ==
  /\ e \in rows
  /\ \E c \in Conn : e \in seen[c]
  /\ AcknowledgeEnvelopes({e})
  /\ UNCHANGED <<hubVars, shutdown, closing, history>>

Receive(c) ==
  /\ ReadFrame(c)
  /\ seen' = [seen EXCEPT ![c] = @ \cup {Head(wire[c])}]
  /\ UNCHANGED <<storeVars, shutdown, closing, owed>>

(* Mutant: closeAll empties the map and has nothing left to close. *)
CloseAllForgets ==
  /\ ~shutdown
  /\ shutdown' = TRUE
  /\ closing' = {}
  /\ connections' = {}
  /\ UNCHANGED <<storeVars, history>>
  /\ UNCHANGED <<handler, done, send, wire, due, targets>>

(* closeAll on graceful shutdown, while requests are still served: the map *)
(* is copied and emptied under the lock ...                                *)
CloseAll ==
  /\ ~shutdown
  /\ shutdown' = TRUE
  /\ closing' = connections
  /\ connections' = {}
  /\ UNCHANGED <<storeVars, history>>
  /\ UNCHANGED <<handler, done, send, wire, due, targets>>

(* ... and the copied connections are closed one by one after it. *)
CloseNext(c) ==
  /\ c \in closing
  /\ closing' = closing \ {c}
  /\ CloseConns({c})
  /\ UNCHANGED <<storeVars, shutdown, history>>
  /\ UNCHANGED <<connections, handler, wire, due, targets>>

ServerStep(c) ==
  /\ \/ HubAdd(c) \/ AnnounceReady(c) \/ WriteLoop(c)
     \/ BreakConn(c) \/ HandlerExit(c) \/ HandlerReturn(c)
  /\ UNCHANGED others

PushStep(e) ==
  /\ PushSnapshot(e) \/ \E c \in Conn : PushSend(e, c)
  /\ UNCHANGED others

PushNext ==
  \/ \E e \in Envelope : Submit(e) \/ Accept(e) \/ Abort(e) \/ Acknowledge(e) \/ PushStep(e)
  \/ \E c \in Conn : ServerStep(c) \/ Receive(c) \/ CloseNext(c)
  \/ CloseAll

PushSpec == PushInit /\ [][PushNext]_pushVars

(* Goroutines are scheduled, closeAll runs to its end, readLoop returns    *)
(* from a closed connection, and a client with an open socket reads it.    *)
(* Nothing makes a socket connect or break, or a sender send.              *)
PushFairness ==
  /\ \A e \in Envelope : WF_pushVars(PushStep(e))
  /\ \A c \in Conn :
       /\ WF_pushVars(/\ \/ AnnounceReady(c) \/ HandlerReturn(c)
                         \/ c \in done /\ HandlerExit(c)
                      /\ UNCHANGED others)
       /\ WF_pushVars(WriteLoop(c) /\ UNCHANGED others)
       /\ WF_pushVars(CloseNext(c))
       /\ WF_pushVars(Receive(c))

PushFairSpec == PushSpec /\ PushFairness

-----------------------------------------------------------------------------
InSeq(x, s) == \E i \in 1 .. Len(s) : s[i] = x

OnItsWay(e, c) ==
  \/ e \in due
  \/ c \in targets[e]
  \/ InSeq(e, send[c])
  \/ InSeq(e, wire[c])
  \/ e \in seen[c]

(* The server is about to close the connection: closeAll has copied it, or *)
(* its handler is between hub.remove and close.                            *)
AboutToClose(c) == c \in closing \/ handler[c] = "leaving"

(* "A client that has seen ready may legitimately expect pushes"           *)
(* (websocket.go:155-156): an envelope committed after an open connection  *)
(* joined the hub is on its way to it or has been read.  A connection      *)
(* misses a push only by a full buffer that closes it, or after the server *)
(* has taken it out of the hub in order to close it.                       *)
NoSilentGap ==
  \A c \in Conn :
    c \notin done /\ ~AboutToClose(c) => \A e \in owed[c] : OnItsWay(e, c)

(* A connection whose handler serves it is in the map hub.push copies, or  *)
(* closeAll holds it and is going to close it: the shutdown leaves no open *)
(* socket behind that pushes no longer reach.                              *)
ServedIsRegistered ==
  \A c \in Conn : Joined(c) /\ c \notin done => c \in connections \cup closing

(* A connection that was closed by a full buffer, a failed write, a read   *)
(* error or the shutdown leaves hub.connections, "so the map does not grow *)
(* without bound" (hub.go:43).                                             *)
ClosedLeavesHub == \A c \in Conn : c \in done ~> c \notin connections

(* A push reaches the client or costs the socket, also when the socket is  *)
(* one the server has taken out of the hub and not closed yet.             *)
PushedOrClosed ==
  \A c \in Conn, e \in Envelope : e \in owed[c] ~> (e \in seen[c] \/ c \in done)

=============================================================================

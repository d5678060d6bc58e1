-------------------------------- MODULE Hub --------------------------------
(***************************************************************************)
(* The live push path of ONE account: server/internal/api/hub.go and the   *)
(* socket half of websocket.go.                                            *)
(*                                                                         *)
(* A connection is a wsConn.  Its life on the server is one handler        *)
(* goroutine (handleWebSocket) and one writer (writeLoop); pushes come     *)
(* from the goroutines of the senders' requests.                           *)
(*                                                                         *)
(* The frames that matter are "ready" and the pushed envelopes.  "acked",  *)
(* "pong" and "error" answer client frames this client never sends.        *)
(***************************************************************************)
EXTENDS Names

CONSTANT HubSendBuffer   \* hub.go: 32

ASSUME HubAssumption == HubSendBuffer \in Nat \ {0}

Ready == 0                      \* the frame {"type": "ready"}
Frame == Envelope \cup {Ready}

VARIABLES
  connections,  \* hub.connections[account]
  handler,      \* where the handleWebSocket call of each connection is
  done,         \* connections closed by wsConn.close
  send,         \* wsConn.send, the bounded channel
  wire,         \* frames written and not yet read by the client
  due,          \* committed envelopes whose hub.push has not begun
  targets       \* what hub.push copied and has not yet tried, per envelope

hubVars == <<connections, handler, done, send, wire, due, targets>>

HandlerState == {"authenticating", "added", "reading", "leaving", "returned"}

HubTypeOK ==
  /\ connections \in SUBSET Conn
  /\ handler \in [Conn -> HandlerState]
  /\ done \in SUBSET Conn
  /\ send \in [Conn -> Seq(Frame)]
  /\ \A c \in Conn : Len(send[c]) <= HubSendBuffer
  /\ wire \in [Conn -> Seq(Frame)]
  /\ due \in SUBSET Envelope
  /\ targets \in [Envelope -> SUBSET Conn]

HubInit ==
  /\ connections = {}
  /\ handler = [c \in Conn |-> "authenticating"]
  /\ done = {}
  /\ send = [c \in Conn |-> <<>>]
  /\ wire = [c \in Conn |-> <<>>]
  /\ due = {}
  /\ targets = [e \in Envelope |-> {}]

-----------------------------------------------------------------------------
(* wsConn.close.  What is still in the channel is never written: the       *)
(* writer either sees done or fails to write to the closed connection.     *)
CloseConns(cs) ==
  /\ done' = done \cup cs
  /\ send' = [c \in Conn |-> IF c \in cs THEN <<>> ELSE send[c]]

(* Mutant: a full buffer drops the frame and keeps the connection. *)
TrySendDrops(c, frame) ==
  /\ send' = IF c \notin done /\ Len(send[c]) < HubSendBuffer
               THEN [send EXCEPT ![c] = Append(@, frame)] ELSE send
  /\ UNCHANGED done

(* trySend: a closed connection drops the frame, a full buffer drops the   *)
(* connection, and it never blocks.                                        *)
TrySend(c, frame) ==
  \/ /\ c \in done
     /\ UNCHANGED <<send, done>>
  \/ /\ c \notin done
     /\ Len(send[c]) < HubSendBuffer
     /\ send' = [send EXCEPT ![c] = Append(@, frame)]
     /\ UNCHANGED done
  \/ /\ c \notin done
     /\ Len(send[c]) >= HubSendBuffer
     /\ CloseConns({c})

(* hub.add, once the first frame of the socket has authenticated it. *)
HubAdd(c) ==
  /\ handler[c] = "authenticating"
  /\ handler' = [handler EXCEPT ![c] = "added"]
  /\ connections' = connections \cup {c}
  /\ UNCHANGED <<done, send, wire, due, targets>>

(* The statement after it: trySend("ready").  Pushes may overtake it. *)
AnnounceReady(c) ==
  /\ handler[c] = "added"
  /\ handler' = [handler EXCEPT ![c] = "reading"]
  /\ TrySend(c, Ready)
  /\ UNCHANGED <<connections, wire, due, targets>>

(* writeLoop takes one frame off the channel. *)
WriteLoop(c) ==
  /\ c \notin done
  /\ send[c] # <<>>
  /\ wire' = [wire EXCEPT ![c] = Append(@, Head(send[c]))]
  /\ send' = [send EXCEPT ![c] = Tail(@)]
  /\ UNCHANGED <<connections, handler, done, due, targets>>

(* A write or a ping fails: writeLoop returns and closes the connection. *)
BreakConn(c) ==
  /\ handler[c] \in {"added", "reading", "leaving"}
  /\ c \notin done
  /\ CloseConns({c})
  /\ UNCHANGED <<connections, handler, wire, due, targets>>

(* Mutant: the deferred hub.remove is missing. *)
HandlerExitLeaks(c) ==
  /\ handler[c] = "reading"
  /\ handler' = [handler EXCEPT ![c] = "leaving"]
  /\ UNCHANGED <<connections, done, send, wire, due, targets>>

(* readLoop returns: the connection was closed, or reading from it failed  *)
(* (the client is gone, the pong is late).  The deferred function takes it *)
(* out of the hub first ...                                                *)
HandlerExit(c) ==
  /\ handler[c] = "reading"
  /\ handler' = [handler EXCEPT ![c] = "leaving"]
  /\ connections' = connections \ {c}
  /\ UNCHANGED <<done, send, wire, due, targets>>

(* ... and closes it after that. *)
HandlerReturn(c) ==
  /\ handler[c] = "leaving"
  /\ handler' = [handler EXCEPT ![c] = "returned"]
  /\ CloseConns({c})
  /\ UNCHANGED <<connections, wire, due, targets>>

(* The sender's handler reaches pushEnvelope after the row is committed. *)
PushDue(e) ==
  /\ due' = due \cup {e}
  /\ UNCHANGED <<connections, handler, done, send, wire, targets>>

(* hub.push copies the targets under the read lock ... *)
PushSnapshot(e) ==
  /\ e \in due
  /\ due' = due \ {e}
  /\ targets' = [targets EXCEPT ![e] = connections]
  /\ UNCHANGED <<connections, handler, done, send, wire>>

(* ... and tries each of them after releasing it. *)
PushSend(e, c) ==
  /\ c \in targets[e]
  /\ targets' = [targets EXCEPT ![e] = @ \ {c}]
  /\ TrySend(c, e)
  /\ UNCHANGED <<connections, handler, wire, due>>

(* The client takes a frame off its socket. *)
ReadFrame(c) ==
  /\ wire[c] # <<>>
  /\ wire' = [wire EXCEPT ![c] = Tail(@)]
  /\ UNCHANGED <<connections, handler, done, send, due, targets>>
=============================================================================

----------------------------- MODULE PushProofs -----------------------------
(***************************************************************************)
(* A connection that is still served misses no push, for any number of     *)
(* connections and envelopes and any size of the send buffer.              *)
(*                                                                         *)
(* Why: a served connection that closeAll has not taken is in the hub, so  *)
(* the snapshot of hub.push has it; from there an envelope moves from the  *)
(* targets into the channel, on to the wire and into the client's hands,   *)
(* and every step that would drop it closes the connection.  A connection  *)
(* taken out of the hub stays one that is about to be closed until it is.  *)
(***************************************************************************)
EXTENDS Push, TLAPS

(* Every step is tried with Zenon, except those that name another prover. *)
USE Zenon

(* An envelope is owed to connections that have joined, and a handler that *)
(* has returned leaves a closed connection.                                *)
Lives ==
  /\ \A c \in Conn : handler[c] = "returned" => c \in done
  /\ \A c \in Conn : owed[c] # {} => handler[c] # "authenticating"

PushTypes ==
  /\ HubTypeOK
  /\ closing \in SUBSET Conn
  /\ owed \in [Conn -> SUBSET Envelope]
  /\ seen \in [Conn -> SUBSET Frame]

PushInv == PushTypes /\ Lives /\ ServedIsRegistered /\ NoSilentGap

-----------------------------------------------------------------------------
(* What a channel holds after a frame is added, and after one is taken. *)
LEMMA AppendHolds ==
  ASSUME NEW s \in Seq(Frame), NEW f \in Frame
  PROVE  /\ Append(s, f) \in Seq(Frame)
         /\ Len(Append(s, f)) = Len(s) + 1
         /\ InSeq(f, Append(s, f))
         /\ \A x : InSeq(x, s) => InSeq(x, Append(s, f))
  BY SMT DEF InSeq

LEMMA TailHolds ==
  ASSUME NEW s \in Seq(Frame), s # <<>>
  PROVE  /\ Head(s) \in Frame
         /\ Tail(s) \in Seq(Frame)
         /\ Len(Tail(s)) = Len(s) - 1
         /\ \A x : InSeq(x, s) => x = Head(s) \/ InSeq(x, Tail(s))
<1>1. /\ Head(s) = s[1] /\ Head(s) \in Frame
      /\ Tail(s) \in Seq(Frame) /\ Len(Tail(s)) = Len(s) - 1
      /\ \A i \in 1 .. Len(s) - 1 : Tail(s)[i] = s[i + 1]
  BY SMT
<1>2. ASSUME NEW x, NEW i \in 1 .. Len(s), s[i] = x, x # Head(s)
      PROVE  InSeq(x, Tail(s))
  <2>1. i - 1 \in 1 .. Len(Tail(s)) /\ Tail(s)[i - 1] = x
    BY <1>1, <1>2, SMT
  <2> QED
    BY <2>1 DEF InSeq
<1> QED
  BY <1>1, <1>2 DEF InSeq

-----------------------------------------------------------------------------
(* A channel of the hub: within its buffer. *)
Channels(x) == x \in [Conn -> Seq(Frame)] /\ \A c \in Conn : Len(x[c]) <= HubSendBuffer

LEMMA CloseConnsStep ==
  ASSUME PushTypes, NEW cs \in SUBSET Conn, CloseConns(cs)
  PROVE  /\ Channels(send')
         /\ done' \in SUBSET Conn
         /\ done \subseteq done'
         /\ \A c \in Conn : c \notin done' => send'[c] = send[c]
<1>1. send \in [Conn -> Seq(Frame)] /\ \A c \in Conn : Len(send[c]) <= HubSendBuffer
  BY DEF PushTypes, HubTypeOK
<1>2. <<>> \in Seq(Frame) /\ Len(<<>>) = 0 /\ HubSendBuffer \in Nat
  BY HubAssumption, SMT
<1>3. send' \in [Conn -> Seq(Frame)]
  BY <1>1, <1>2 DEF CloseConns
<1>4. \A c \in Conn : Len(send'[c]) <= HubSendBuffer
  BY <1>1, <1>2, SMT DEF CloseConns
<1>5. done' \in SUBSET Conn /\ done \subseteq done'
  BY DEF CloseConns, PushTypes, HubTypeOK
<1>6. \A c \in Conn : c \notin done' => send'[c] = send[c]
  BY DEF CloseConns
<1> QED
  BY <1>3, <1>4, <1>5, <1>6 DEF Channels

(* trySend queues the frame or closes the connection. *)
LEMMA TrySendStep ==
  ASSUME PushTypes, NEW c \in Conn, NEW f \in Frame, TrySend(c, f)
  PROVE  /\ Channels(send')
         /\ done' \in SUBSET Conn
         /\ done \subseteq done'
         /\ \A d \in Conn : d \notin done' => \A x : InSeq(x, send[d]) => InSeq(x, send'[d])
         /\ c \notin done' => InSeq(f, send'[c])
<1>1. send \in [Conn -> Seq(Frame)] /\ \A d \in Conn : Len(send[d]) <= HubSendBuffer
  BY DEF PushTypes, HubTypeOK
<1>2. done \in SUBSET Conn
  BY DEF PushTypes, HubTypeOK
<1>3. CASE c \in done /\ UNCHANGED <<send, done>>
  BY <1>1, <1>2, <1>3 DEF Channels
<1>4. CASE /\ c \notin done
           /\ Len(send[c]) < HubSendBuffer
           /\ send' = [send EXCEPT ![c] = Append(@, f)]
           /\ UNCHANGED done
  <2>1. send[c] \in Seq(Frame) /\ Len(send[c]) \in Nat /\ HubSendBuffer \in Nat
    BY <1>1, HubAssumption, SMT
  <2>2. PICK s \in Seq(Frame) : s = Append(send[c], f)
    BY <2>1, AppendHolds
  <2>3. /\ Len(s) = Len(send[c]) + 1
        /\ InSeq(f, s)
        /\ \A x : InSeq(x, send[c]) => InSeq(x, s)
    BY <2>1, <2>2, AppendHolds
  <2>4. send' = [send EXCEPT ![c] = s]
    BY <1>4, <2>2
  <2>5. Channels(send')
    BY <1>1, <1>4, <2>1, <2>3, <2>4, SMT DEF Channels
  <2> QED
    BY <1>1, <1>2, <1>4, <2>3, <2>4, <2>5
<1>5. CASE c \notin done /\ CloseConns({c})
  <2>1. c \in done'
    BY <1>5 DEF CloseConns
  <2> QED
    BY <1>5, <2>1, CloseConnsStep
<1> QED
  BY <1>3, <1>4, <1>5 DEF TrySend

(* No gap opens when nothing more is owed, what is on its way to a         *)
(* connection that stays open remains so, and a connection that was about  *)
(* to be closed is closed or still about to be.                            *)
LEMMA GapKept ==
  ASSUME NoSilentGap, done \subseteq done', owed' = owed,
         \A c \in Conn : c \notin done' /\ AboutToClose(c) => AboutToClose(c)',
         \A c \in Conn : c \notin done' => \A e \in owed[c] : OnItsWay(e, c) => OnItsWay(e, c)'
  PROVE  NoSilentGap'
  BY DEF NoSilentGap

-----------------------------------------------------------------------------
LEMMA PushInitial == PushInit => PushInv
<1> SUFFICES ASSUME PushInit PROVE PushInv
  OBVIOUS
<1>1. <<>> \in Seq(Frame) /\ Len(<<>>) = 0 /\ HubSendBuffer \in Nat
  BY HubAssumption, SMT
<1>2. send = [c \in Conn |-> <<>>] /\ wire = [c \in Conn |-> <<>>]
  BY DEF PushInit, HubInit
<1>3. send \in [Conn -> Seq(Frame)] /\ wire \in [Conn -> Seq(Frame)]
  BY <1>1, <1>2
<1>4. \A c \in Conn : Len(send[c]) <= HubSendBuffer
  BY <1>1, <1>2, SMT
<1>5. PushTypes
  BY <1>3, <1>4 DEF PushInit, HubInit, PushTypes, HubTypeOK, HandlerState
<1>6. Lives /\ ServedIsRegistered /\ NoSilentGap
  BY DEF PushInit, HubInit, Lives, ServedIsRegistered, NoSilentGap, Joined
<1> QED
  BY <1>5, <1>6 DEF PushInv

(* A row is committed: it is owed to the connections in the hub, and due.  *)
LEMMA AcceptKeeps ==
  ASSUME PushInv, NEW e \in Envelope, Accept(e)
  PROVE  PushInv'
<1>1. /\ UNCHANGED <<connections, handler, done, send, wire, targets, closing, seen>>
      /\ due' = due \cup {e}
      /\ owed' = [c \in Conn |-> IF Joined(c) THEN owed[c] \cup {e} ELSE owed[c]]
  BY DEF Accept, PushDue
<1>2. PushTypes'
  <2>1. owed' \in [Conn -> SUBSET Envelope]
    BY <1>1 DEF PushInv, PushTypes
  <2> QED
    BY <1>1, <2>1 DEF PushInv, PushTypes, HubTypeOK
<1>3. Lives'
  BY <1>1 DEF PushInv, Lives, Joined
<1>4. ServedIsRegistered'
  BY <1>1 DEF PushInv, ServedIsRegistered, Joined
<1>5. NoSilentGap'
  BY <1>1 DEF PushInv, NoSilentGap, AboutToClose, OnItsWay
<1> QED
  BY <1>2, <1>3, <1>4, <1>5 DEF PushInv

LEMMA HubAddKeeps ==
  ASSUME PushInv, NEW c \in Conn, HubAdd(c), UNCHANGED others
  PROVE  PushInv'
<1>1. PushTypes'
  BY DEF PushInv, PushTypes, HubTypeOK, HandlerState, HubAdd, others, history
<1>2. Lives'
  BY DEF PushInv, PushTypes, HubTypeOK, Lives, HubAdd, others, history
<1>3. ServedIsRegistered'
  BY DEF PushInv, PushTypes, HubTypeOK, ServedIsRegistered, Joined, HubAdd, others
<1>4. NoSilentGap'
  BY GapKept DEF PushInv, PushTypes, HubTypeOK, AboutToClose, OnItsWay, HubAdd, others, history
<1> QED
  BY <1>1, <1>2, <1>3, <1>4 DEF PushInv

LEMMA AnnounceReadyKeeps ==
  ASSUME PushInv, NEW c \in Conn, AnnounceReady(c), UNCHANGED others
  PROVE  PushInv'
<1>1. /\ handler[c] = "added"
      /\ handler' = [handler EXCEPT ![c] = "reading"]
      /\ TrySend(c, Ready)
      /\ UNCHANGED <<connections, wire, due, targets, closing, owed, seen>>
  BY DEF AnnounceReady, others, history
<1>2. /\ Channels(send')
      /\ done' \in SUBSET Conn
      /\ done \subseteq done'
      /\ \A d \in Conn : d \notin done' => \A x : InSeq(x, send[d]) => InSeq(x, send'[d])
  BY <1>1, TrySendStep DEF PushInv, Frame
<1>3. PushTypes'
  BY <1>1, <1>2 DEF PushInv, PushTypes, HubTypeOK, HandlerState, Channels
<1>4. Lives'
  BY <1>1, <1>2 DEF PushInv, PushTypes, HubTypeOK, Lives
<1>5. ServedIsRegistered'
  BY <1>1, <1>2 DEF PushInv, PushTypes, HubTypeOK, ServedIsRegistered, Joined
<1>6. NoSilentGap'
  BY <1>1, <1>2, GapKept DEF PushInv, PushTypes, HubTypeOK, AboutToClose, OnItsWay
<1> QED
  BY <1>3, <1>4, <1>5, <1>6 DEF PushInv

LEMMA WriteLoopKeeps ==
  ASSUME PushInv, NEW c \in Conn, WriteLoop(c), UNCHANGED others
  PROVE  PushInv'
<1>1. send[c] \in Seq(Frame) /\ wire[c] \in Seq(Frame) /\ send[c] # <<>>
  BY DEF PushInv, PushTypes, HubTypeOK, WriteLoop
<1>2. PICK f \in Frame, rest \in Seq(Frame) : f = Head(send[c]) /\ rest = Tail(send[c])
  BY <1>1, TailHolds
<1>3. PICK longer \in Seq(Frame) : longer = Append(wire[c], f)
  BY <1>1, AppendHolds
<1>4. /\ Len(rest) = Len(send[c]) - 1
      /\ \A x : InSeq(x, send[c]) => x = f \/ InSeq(x, rest)
      /\ InSeq(f, longer)
      /\ \A x : InSeq(x, wire[c]) => InSeq(x, longer)
  BY <1>1, <1>2, <1>3, TailHolds, AppendHolds
<1>5. /\ wire' = [wire EXCEPT ![c] = longer]
      /\ send' = [send EXCEPT ![c] = rest]
      /\ UNCHANGED <<connections, handler, done, due, targets, closing, owed, seen>>
  BY <1>2, <1>3 DEF WriteLoop, others, history
<1>6. PushTypes'
  <2>1. Channels(send')
    BY <1>1, <1>4, <1>5, HubAssumption, SMT DEF PushInv, PushTypes, HubTypeOK, Channels
  <2> QED
    BY <2>1, <1>5 DEF PushInv, PushTypes, HubTypeOK, Channels
<1>7. Lives' /\ ServedIsRegistered'
  BY <1>5 DEF PushInv, Lives, ServedIsRegistered, Joined
<1>8. NoSilentGap'
  <2>1. ASSUME NEW d \in Conn, NEW e, OnItsWay(e, d)
        PROVE  OnItsWay(e, d)'
    <3>1. CASE InSeq(e, send[d])
      BY <3>1, <1>4, <1>5 DEF OnItsWay, PushInv, PushTypes, HubTypeOK
    <3>2. CASE InSeq(e, wire[d])
      BY <3>2, <1>4, <1>5 DEF OnItsWay, PushInv, PushTypes, HubTypeOK
    <3> QED
      BY <2>1, <3>1, <3>2, <1>5 DEF OnItsWay
  <2> QED
    BY <2>1, <1>5, GapKept DEF PushInv, AboutToClose
<1> QED
  BY <1>6, <1>7, <1>8 DEF PushInv

LEMMA ReceiveKeeps ==
  ASSUME PushInv, NEW c \in Conn, Receive(c)
  PROVE  PushInv'
<1>1. wire[c] \in Seq(Frame) /\ wire[c] # <<>>
  BY DEF PushInv, PushTypes, HubTypeOK, Receive, ReadFrame
<1>2. PICK f \in Frame, rest \in Seq(Frame) : f = Head(wire[c]) /\ rest = Tail(wire[c])
  BY <1>1, TailHolds
<1>3. \A x : InSeq(x, wire[c]) => x = f \/ InSeq(x, rest)
  BY <1>1, <1>2, TailHolds
<1>4. /\ wire' = [wire EXCEPT ![c] = rest]
      /\ seen' = [seen EXCEPT ![c] = @ \cup {f}]
      /\ UNCHANGED <<connections, handler, done, send, due, targets, closing, owed>>
  BY <1>2 DEF Receive, ReadFrame
<1>5. PushTypes'
  BY <1>4 DEF PushInv, PushTypes, HubTypeOK
<1>6. Lives' /\ ServedIsRegistered'
  BY <1>4 DEF PushInv, Lives, ServedIsRegistered, Joined
<1>7. NoSilentGap'
  <2>1. ASSUME NEW d \in Conn, NEW e, OnItsWay(e, d)
        PROVE  OnItsWay(e, d)'
    <3>1. CASE InSeq(e, wire[d])
      BY <3>1, <1>3, <1>4 DEF OnItsWay, PushInv, PushTypes, HubTypeOK
    <3>2. CASE e \in seen[d]
      BY <3>2, <1>4 DEF OnItsWay, PushInv, PushTypes
    <3> QED
      BY <2>1, <3>1, <3>2, <1>4 DEF OnItsWay
  <2> QED
    BY <2>1, <1>4, GapKept DEF PushInv, AboutToClose
<1> QED
  BY <1>5, <1>6, <1>7 DEF PushInv

(* A connection breaks, or closeAll comes to it. *)
LEMMA CloseKeeps ==
  ASSUME PushInv, NEW c \in Conn, CloseConns({c}),
         closing' = closing \/ closing' = closing \ {c},
         UNCHANGED <<connections, handler, wire, due, targets, owed, seen>>
  PROVE  PushInv'
<1>1. /\ Channels(send')
      /\ done' \in SUBSET Conn
      /\ done \subseteq done'
      /\ \A d \in Conn : d \notin done' => send'[d] = send[d]
  BY CloseConnsStep DEF PushInv
<1>2. c \in done'
  BY DEF CloseConns
<1>3. PushTypes'
  BY <1>1 DEF PushInv, PushTypes, HubTypeOK, Channels
<1>4. Lives'
  BY <1>1 DEF PushInv, Lives
<1>5. ServedIsRegistered'
  BY <1>1, <1>2 DEF PushInv, ServedIsRegistered, Joined
<1>6. NoSilentGap'
  BY <1>1, <1>2, GapKept DEF PushInv, AboutToClose, OnItsWay
<1> QED
  BY <1>3, <1>4, <1>5, <1>6 DEF PushInv

(* closeAll empties the map: what was in it is now closeAll's to close. *)
LEMMA CloseAllKeeps ==
  ASSUME PushInv, CloseAll, closing = {}
  PROVE  PushInv'
<1>1. /\ closing' = connections /\ connections' = {}
      /\ UNCHANGED <<handler, done, send, wire, due, targets, owed, seen>>
  BY DEF CloseAll, history
<1>2. PushTypes'
  BY <1>1 DEF PushInv, PushTypes, HubTypeOK
<1>3. Lives'
  BY <1>1 DEF PushInv, Lives
<1>4. ServedIsRegistered'
  BY <1>1 DEF PushInv, ServedIsRegistered, Joined
<1>5. NoSilentGap'
  BY <1>1, GapKept DEF PushInv, AboutToClose, OnItsWay
<1> QED
  BY <1>2, <1>3, <1>4, <1>5 DEF PushInv

(* The handler takes its connection out of the hub ... *)
LEMMA HandlerExitKeeps ==
  ASSUME PushInv, NEW c \in Conn, HandlerExit(c), UNCHANGED others
  PROVE  PushInv'
<1>1. /\ handler' = [handler EXCEPT ![c] = "leaving"]
      /\ connections' = connections \ {c}
      /\ UNCHANGED <<done, send, wire, due, targets, closing, owed, seen>>
  BY DEF HandlerExit, others, history
<1>2. PushTypes'
  BY <1>1 DEF PushInv, PushTypes, HubTypeOK, HandlerState
<1>3. Lives'
  BY <1>1 DEF PushInv, PushTypes, HubTypeOK, Lives
<1>4. ServedIsRegistered'
  BY <1>1 DEF PushInv, PushTypes, HubTypeOK, ServedIsRegistered, Joined
<1>5. NoSilentGap'
  BY <1>1, GapKept DEF PushInv, PushTypes, HubTypeOK, AboutToClose, OnItsWay
<1> QED
  BY <1>2, <1>3, <1>4, <1>5 DEF PushInv

(* ... and closes it. *)
LEMMA HandlerReturnKeeps ==
  ASSUME PushInv, NEW c \in Conn, HandlerReturn(c), UNCHANGED others
  PROVE  PushInv'
<1>1. /\ handler' = [handler EXCEPT ![c] = "returned"]
      /\ CloseConns({c})
      /\ UNCHANGED <<connections, wire, due, targets, closing, owed, seen>>
  BY DEF HandlerReturn, others, history
<1>2. /\ Channels(send')
      /\ done' \in SUBSET Conn
      /\ done \subseteq done'
      /\ \A d \in Conn : d \notin done' => send'[d] = send[d]
      /\ c \in done'
  BY <1>1, CloseConnsStep DEF PushInv, CloseConns
<1>3. PushTypes'
  BY <1>1, <1>2 DEF PushInv, PushTypes, HubTypeOK, HandlerState, Channels
<1>4. Lives'
  BY <1>1, <1>2 DEF PushInv, PushTypes, HubTypeOK, Lives
<1>5. ServedIsRegistered'
  BY <1>1, <1>2 DEF PushInv, PushTypes, HubTypeOK, ServedIsRegistered, Joined
<1>6. NoSilentGap'
  BY <1>1, <1>2, GapKept DEF PushInv, PushTypes, HubTypeOK, AboutToClose, OnItsWay
<1> QED
  BY <1>3, <1>4, <1>5, <1>6 DEF PushInv

(* hub.push: the snapshot has every connection an envelope is owed to. *)
LEMMA PushSnapshotKeeps ==
  ASSUME PushInv, NEW e \in Envelope, PushSnapshot(e), UNCHANGED others
  PROVE  PushInv'
<1>1. /\ due' = due \ {e}
      /\ targets' = [targets EXCEPT ![e] = connections]
      /\ UNCHANGED <<connections, handler, done, send, wire, closing, owed, seen>>
  BY DEF PushSnapshot, others, history
<1>2. PushTypes'
  BY <1>1 DEF PushInv, PushTypes, HubTypeOK
<1>3. Lives' /\ ServedIsRegistered'
  BY <1>1 DEF PushInv, Lives, ServedIsRegistered, Joined
<1>4. ASSUME NEW c \in Conn, c \notin done, ~AboutToClose(c), NEW x \in owed[c]
      PROVE  OnItsWay(x, c)'
  <2>1. c \in connections /\ x \in Envelope
    BY <1>4 DEF PushInv, PushTypes, HubTypeOK, HandlerState, Lives, ServedIsRegistered, Joined, AboutToClose
  <2>2. OnItsWay(x, c)
    BY <1>4 DEF PushInv, NoSilentGap
  <2>3. CASE x = e
    BY <2>1, <2>3, <1>1 DEF OnItsWay, PushInv, PushTypes, HubTypeOK
  <2>4. CASE x # e
    BY <2>1, <2>2, <2>4, <1>1 DEF OnItsWay, PushInv, PushTypes, HubTypeOK
  <2> QED
    BY <2>3, <2>4
<1>5. NoSilentGap'
  BY <1>1, <1>4 DEF NoSilentGap, AboutToClose
<1> QED
  BY <1>2, <1>3, <1>5 DEF PushInv

LEMMA PushSendKeeps ==
  ASSUME PushInv, NEW e \in Envelope, NEW c \in Conn, PushSend(e, c), UNCHANGED others
  PROVE  PushInv'
<1>1. /\ targets' = [targets EXCEPT ![e] = @ \ {c}]
      /\ TrySend(c, e)
      /\ UNCHANGED <<connections, handler, wire, due, closing, owed, seen>>
  BY DEF PushSend, others, history
<1>2. /\ Channels(send')
      /\ done' \in SUBSET Conn
      /\ done \subseteq done'
      /\ \A d \in Conn : d \notin done' => \A x : InSeq(x, send[d]) => InSeq(x, send'[d])
      /\ c \notin done' => InSeq(e, send'[c])
  BY <1>1, TrySendStep DEF PushInv, Frame
<1>3. PushTypes'
  BY <1>1, <1>2 DEF PushInv, PushTypes, HubTypeOK, Channels
<1>4. Lives' /\ ServedIsRegistered'
  BY <1>1, <1>2 DEF PushInv, Lives, ServedIsRegistered, Joined
<1>5. NoSilentGap'
  <2>1. ASSUME NEW d \in Conn, d \notin done', NEW x \in owed[d], OnItsWay(x, d)
        PROVE  OnItsWay(x, d)'
    <3>1. x \in Envelope
      BY DEF PushInv, PushTypes
    <3>2. CASE d \in targets[x]
      BY <2>1, <3>1, <3>2, <1>1, <1>2 DEF OnItsWay, PushInv, PushTypes, HubTypeOK
    <3> QED
      BY <2>1, <3>2, <1>1, <1>2 DEF OnItsWay
  <2> QED
    BY <2>1, <1>1, <1>2, GapKept DEF PushInv, AboutToClose
<1> QED
  BY <1>3, <1>4, <1>5 DEF PushInv

(* The steps of the store alone. *)
LEMMA PushStutter ==
  ASSUME PushInv, UNCHANGED <<hubVars, closing, history>>
  PROVE  PushInv'
<1>1. PushTypes' /\ Lives'
  BY DEF PushInv, PushTypes, HubTypeOK, Lives, history, hubVars
<1>2. ServedIsRegistered' /\ NoSilentGap'
  BY DEF PushInv, ServedIsRegistered, Joined, NoSilentGap, AboutToClose, OnItsWay, history, hubVars
<1> QED
  BY <1>1, <1>2 DEF PushInv

(* closeAll is called once: before it has been, it holds no connection.    *)
Called == closing # {} => shutdown

LEMMA PushInductive == PushInv /\ Called /\ [PushNext]_pushVars => PushInv' /\ Called'
<1> SUFFICES ASSUME PushInv, Called, [PushNext]_pushVars PROVE PushInv' /\ Called'
  OBVIOUS
<1>1. ASSUME NEW e \in Envelope, Submit(e) \/ Abort(e) \/ Acknowledge(e) PROVE PushInv' /\ Called'
  BY <1>1, PushStutter DEF Submit, Abort, Acknowledge, Called
<1>2. ASSUME NEW e \in Envelope, Accept(e) PROVE PushInv' /\ Called'
  BY <1>2, AcceptKeeps DEF Accept, Called
<1>3. ASSUME NEW e \in Envelope, PushStep(e) PROVE PushInv' /\ Called'
  BY <1>3, PushSnapshotKeeps, PushSendKeeps DEF PushStep, others, Called
<1>4. ASSUME NEW c \in Conn, BreakConn(c), UNCHANGED others PROVE PushInv'
  BY <1>4, CloseKeeps DEF BreakConn, others, history
<1>5. ASSUME NEW c \in Conn, ServerStep(c) PROVE PushInv' /\ Called'
  <2>1. PushInv'
    BY <1>4, <1>5, HubAddKeeps, AnnounceReadyKeeps, WriteLoopKeeps, HandlerExitKeeps, HandlerReturnKeeps
       DEF ServerStep
  <2> QED
    BY <2>1, <1>5 DEF ServerStep, others, Called
<1>6. ASSUME NEW c \in Conn, Receive(c) PROVE PushInv' /\ Called'
  BY <1>6, ReceiveKeeps DEF Receive, Called
<1>7. ASSUME NEW c \in Conn, CloseNext(c) PROVE PushInv' /\ Called'
  BY <1>7, CloseKeeps DEF CloseNext, history, Called
<1>8. CASE CloseAll
  BY <1>8, CloseAllKeeps DEF CloseAll, Called
<1>9. CASE UNCHANGED pushVars
  BY <1>9, PushStutter DEF pushVars, Called
<1> QED
  BY <1>1, <1>2, <1>3, <1>5, <1>6, <1>7, <1>8, <1>9 DEF PushNext

(* "A client that has seen ready may legitimately expect pushes": an       *)
(* envelope committed while an open connection is in the hub is on its way *)
(* to it or has been read, until the server takes the connection out of    *)
(* the hub in order to close it; however pushes, full buffers, breaking    *)
(* sockets and the two phases of closeAll and of the handler's exit        *)
(* interleave.                                                             *)
THEOREM NoPushIsDroppedSilently == PushSpec => []NoSilentGap
<1>1. PushInit => PushInv /\ Called
  BY PushInitial DEF PushInit, Called
<1>2. PushInv => NoSilentGap
  BY DEF PushInv
<1> QED
  BY <1>1, <1>2, PushInductive, PTL DEF PushSpec

(* A connection whose handler serves it and that is not closed is in the   *)
(* map hub.push copies, or closeAll has taken it from there and is going   *)
(* to close it: no third place holds an open socket.                       *)
THEOREM ServedIsInHub == PushSpec => []ServedIsRegistered
<1>1. PushInit => PushInv /\ Called
  BY PushInitial DEF PushInit, Called
<1>2. PushInv => ServedIsRegistered
  BY DEF PushInv
<1> QED
  BY <1>1, <1>2, PushInductive, PTL DEF PushSpec
=============================================================================

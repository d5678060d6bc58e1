--------------------------- MODULE DeliveryProofs ---------------------------
(***************************************************************************)
(* For every number of envelopes and connections, every cap, page and      *)
(* buffer size and every set and number of faults: the delivery path keeps *)
(* its types, loses no accepted envelope, hands only accepted ones to the  *)
(* application, and implements the abstract mailbox.                       *)
(***************************************************************************)
EXTENDS Delivery, FiniteSetTheorems, TLAPS

(* Every step is tried with Zenon, except those that name another prover. *)
USE Zenon

LEMMA EnvelopeType == Envelope \subseteq Nat \ {0} /\ Ready \notin Envelope
  BY NamesAssumption, SMT DEF Envelope, Ready

LEMMA InitTypeOK == Init => TypeOK
<1> USE NamesAssumption, HubAssumption, TransportAssumption, DeliveryAssumption
<1> SUFFICES ASSUME Init PROVE TypeOK
  OBVIOUS
<1>1. StoreTypeOK
  BY DEF Init, StoreInit, StoreTypeOK, Phase
<1>2. HubTypeOK
  BY SMT DEF Init, HubInit, HubTypeOK, HandlerState, Frame
<1>3. TransportTypeOK
  <2>2. /\ sock \in [Conn -> SockState]
        /\ job \in [Envelope -> JobState]
        /\ ackReq \in SUBSET Envelope
        /\ ackResp \in SUBSET Envelope
    BY DEF Init, TransportInit, SockState, JobState
  <2>3. /\ drain \in [Conn -> DrainState]
        /\ page \in [Conn -> 0 .. MaxDrainPages]
        /\ batch \in [Conn -> SUBSET Envelope]
        /\ awaits \in [Conn -> 0 .. MaxEnvelopes]
        /\ progress \in SUBSET Conn
    BY SMT DEF Init, TransportInit, DrainState
  <2>4. handled \in Seq(Envelope) /\ Len(handled) <= MaxRemembered
    BY SMT DEF Init, TransportInit
  <2>5. retry \in BOOLEAN /\ stopped \in BOOLEAN
    BY DEF Init, TransportInit
  <2> QED
    BY <2>2, <2>3, <2>4, <2>5 DEF TransportTypeOK
<1> QED
  BY <1>1, <1>2, <1>3, SMT DEF Init, TypeOK

(* The store's half of the type invariant. *)
LEMMA StoreTypeStep == StoreTypeOK /\ [Next]_vars => StoreTypeOK'
<1> SUFFICES ASSUME StoreTypeOK, [Next]_vars PROVE StoreTypeOK'
  OBVIOUS
<1> USE DEF StoreTypeOK, Phase
<1>1. ASSUME NEW e \in Envelope, EnvelopeStep(e) PROVE StoreTypeOK'
  BY <1>1 DEF EnvelopeStep, Submit, Accept, Abort, Lapse, PushStep, Resolve, Throw, HandleAck,
     AckReturns, BeginStore, CommitStore, AbortStore, Expire, AcknowledgeEnvelopes, Live, storeVars
<1>2. ASSUME NEW c \in Conn, ServerStep(c) PROVE StoreTypeOK'
  BY <1>2 DEF ServerStep, Register, TurnAway, Announce, Write, Notice, Exit, Leave, storeVars
<1>3. ASSUME NEW c \in Conn, ClientStep(c) PROVE StoreTypeOK'
  BY <1>3 DEF ClientStep, Dial, Opened, Disconnect, ReceiveReady, ReceiveEnvelope,
     FetchEnvelopes, FetchFails, DrainStep, storeVars
<1>4. CASE Sweep
  BY <1>4 DEF Sweep, SweepEnvelopes
<1>5. CASE CloseTransport \/ TokenExpires \/ ClientRestart \/ ServerRestart
  BY <1>5 DEF CloseTransport, TokenExpires, ClientRestart, ServerRestart, storeVars
<1>6. CASE UNCHANGED vars
  BY <1>6 DEF vars, storeVars
<1> QED
  BY <1>1, <1>2, <1>3, <1>4, <1>5, <1>6 DEF Next

(* trySend and close keep the buffers within their bound. *)
LEMMA TrySendType ==
  ASSUME HubTypeOK, NEW c \in Conn, NEW f \in Frame, TrySend(c, f)
  PROVE  /\ done' \in SUBSET Conn
         /\ send' \in [Conn -> Seq(Frame)]
         /\ \A d \in Conn : Len(send'[d]) <= HubSendBuffer
<1> USE HubAssumption DEF HubTypeOK
<1>1. CASE c \in done
  BY <1>1 DEF TrySend
<1>2. CASE c \notin done /\ Len(send[c]) < HubSendBuffer
  <2>1. send' = [send EXCEPT ![c] = Append(@, f)] /\ done' = done
    BY <1>2, SMT DEF TrySend
  <2>2. Append(send[c], f) \in Seq(Frame) /\ Len(Append(send[c], f)) = Len(send[c]) + 1
    BY SMT
  <2> QED
    BY <1>2, <2>1, <2>2, SMT
<1>3. CASE c \notin done /\ Len(send[c]) >= HubSendBuffer
  <2>1. /\ done' = done \cup {c}
        /\ send' = [d \in Conn |-> IF d \in {c} THEN <<>> ELSE send[d]]
    BY <1>3, SMT DEF TrySend, CloseConns
  <2>2. <<>> \in Seq(Frame) /\ Len(<<>>) = 0
    BY SMT
  <2> QED
    BY <2>1, <2>2, SMT
<1> QED
  BY <1>1, <1>2, <1>3, SMT

LEMMA HubTypeStep == TypeOK /\ [Next]_vars => HubTypeOK'
<1> SUFFICES ASSUME TypeOK, [Next]_vars PROVE HubTypeOK'
  OBVIOUS
<1>t. HubTypeOK
  BY DEF TypeOK
<1> USE HubAssumption DEF HubTypeOK, HandlerState
<1>1. ASSUME NEW e \in Envelope, EnvelopeStep(e) PROVE HubTypeOK'
  <2>1. CASE Accept(e)
    BY <1>t, <2>1 DEF Accept, PushDue
  <2>2. CASE PushSnapshot(e)
    BY <1>t, <2>2 DEF PushSnapshot
  <2>3. ASSUME NEW c \in Conn, PushSend(e, c) PROVE HubTypeOK'
    BY <1>t, <2>3, TrySendType DEF PushSend, Frame
  <2>4. CASE UNCHANGED hubVars
    BY <1>t, <2>4 DEF hubVars
  <2> QED
    BY <1>1, <2>1, <2>2, <2>3, <2>4 DEF EnvelopeStep, Submit, Abort, Lapse, PushStep, Resolve,
       Throw, HandleAck, AckReturns
<1>2. ASSUME NEW c \in Conn, ServerStep(c) PROVE HubTypeOK'
  <2>1. CASE Register(c)
    BY <1>t, <2>1 DEF Register, HubAdd
  <2>2. CASE TurnAway(c)
    BY <1>t, <2>2, SMT DEF TurnAway, CloseConns
  <2>3. CASE Announce(c)
    BY <1>t, <2>3, TrySendType DEF Announce, AnnounceReady, Frame
  <2>4. CASE Write(c)
    <3>1. send[c] # <<>> /\ send[c] \in Seq(Frame) /\ wire[c] \in Seq(Frame)
      BY <1>t, <2>4 DEF Write, WriteLoop
    <3>2. /\ Tail(send[c]) \in Seq(Frame)
          /\ Len(Tail(send[c])) <= Len(send[c])
          /\ Append(wire[c], Head(send[c])) \in Seq(Frame)
      BY <3>1, SMT
    <3> QED
      BY <1>t, <2>4, <3>2, SMT DEF Write, WriteLoop
  <2>5. CASE Notice(c)
    BY <1>t, <2>5, SMT DEF Notice, BreakConn, CloseConns
  <2>6. CASE Exit(c)
    BY <1>t, <2>6 DEF Exit, HandlerExit
  <2>7. CASE Leave(c)
    BY <1>t, <2>7, SMT DEF Leave, HandlerReturn, CloseConns
  <2> QED
    BY <1>2, <2>1, <2>2, <2>3, <2>4, <2>5, <2>6, <2>7 DEF ServerStep
<1>3. ASSUME NEW c \in Conn, ClientStep(c) PROVE HubTypeOK'
  <2>1. CASE Dial(c)
    BY <1>t, <2>1 DEF Dial
  <2>2. CASE Disconnect(c)
    BY <1>t, <2>2, SMT DEF Disconnect
  <2>3. CASE ReadFrame(c)
    <3>1. Tail(wire[c]) \in Seq(Frame)
      BY <1>t, <2>3, SMT DEF ReadFrame
    <3> QED
      BY <1>t, <2>3, <3>1 DEF ReadFrame
  <2>4. CASE UNCHANGED hubVars
    BY <1>t, <2>4 DEF hubVars
  <2> QED
    BY <1>3, <2>1, <2>2, <2>3, <2>4 DEF ClientStep, Opened, ReceiveReady, ReceiveEnvelope,
       FetchEnvelopes, FetchFails, DrainStep
<1>4. CASE CloseTransport
  BY <1>t, <1>4, SMT DEF CloseTransport
<1>5. CASE ClientRestart
  BY <1>t, <1>5, SMT DEF ClientRestart
<1>6. CASE ServerRestart
  BY <1>t, <1>6, SMT DEF ServerRestart, CloseConns
<1>7. CASE Sweep \/ TokenExpires \/ UNCHANGED vars
  BY <1>t, <1>7 DEF Sweep, TokenExpires, vars, hubVars
<1> QED
  BY <1>1, <1>2, <1>3, <1>4, <1>5, <1>6, <1>7 DEF Next

PassTypeOK ==
  /\ drain \in [Conn -> DrainState]
  /\ page \in [Conn -> 0 .. MaxDrainPages]
  /\ batch \in [Conn -> SUBSET Envelope]
  /\ awaits \in [Conn -> 0 .. MaxEnvelopes]
  /\ progress \in SUBSET Conn

LEMMA ReturnedType ==
  ASSUME NEW e, NEW ok \in BOOLEAN, PassTypeOK, Returned(e, ok)
  PROVE  PassTypeOK'
BY NamesAssumption, SMT DEF PassTypeOK, Returned, DrainState

LEMMA RememberType ==
  ASSUME NEW e \in Envelope, handled \in Seq(Envelope), Len(handled) <= MaxRemembered,
         Remember(e)
  PROVE  handled' \in Seq(Envelope) /\ Len(handled') <= MaxRemembered
<1>1. /\ Append(handled, e) \in Seq(Envelope)
      /\ Len(Append(handled, e)) = Len(handled) + 1
      /\ Append(handled, e) # <<>>
  BY SMT
<1>2. /\ Tail(Append(handled, e)) \in Seq(Envelope)
      /\ Len(Tail(Append(handled, e))) = Len(handled)
  BY <1>1, SMT
<1> QED
  BY <1>1, <1>2, TransportAssumption, SMT DEF Remember

LEMMA EndPassType ==
  ASSUME NEW c \in Conn, PassTypeOK, EndPass(c)
  PROVE  PassTypeOK'
BY TransportAssumption, SMT DEF PassTypeOK, EndPass, DrainState

LEMMA TransportTypeStep == TypeOK /\ [Next]_vars => TransportTypeOK'
<1> SUFFICES ASSUME TypeOK, [Next]_vars PROVE TransportTypeOK'
  OBVIOUS
<1>t. TransportTypeOK /\ PassTypeOK /\ StoreTypeOK
  BY DEF TypeOK, TransportTypeOK, PassTypeOK
<1>p. ASSUME PassTypeOK', UNCHANGED <<sock, retry, stopped, handled, ackReq, ackResp>>,
             job' \in [Envelope -> JobState]
      PROVE  TransportTypeOK'
  BY <1>t, <1>p DEF TransportTypeOK, PassTypeOK
<1>q. ASSUME UNCHANGED passVars PROVE PassTypeOK'
  BY <1>t, <1>q DEF PassTypeOK, passVars
<1> USE DEF SockState, JobState
<1>1. ASSUME NEW e \in Envelope, EnvelopeStep(e) PROVE TransportTypeOK'
  <2>1. CASE Resolve(e)
    BY <1>t, <1>q, <2>1 DEF Resolve, HandlerResolves, TransportTypeOK, PassTypeOK
  <2>2. CASE Throw(e)
    BY <1>t, <1>p, <2>2, ReturnedType DEF Throw, HandlerThrows, TransportTypeOK
  <2>3. CASE HandleAck(e)
    BY <1>t, <1>q, <2>3 DEF HandleAck, TransportTypeOK, PassTypeOK
  <2>4. CASE AckSucceeds(e)
    BY <1>t, <2>4, ReturnedType, RememberType DEF AckSucceeds, TransportTypeOK, PassTypeOK
  <2>5. CASE AckFails(e)
    BY <1>t, <2>5, ReturnedType, RememberType DEF AckFails, TransportTypeOK, PassTypeOK
  <2>6. CASE UNCHANGED transportVars
    BY <1>t, <1>p, <1>q, <2>6 DEF transportVars, TransportTypeOK
  <2> QED
    BY <1>1, <2>1, <2>2, <2>3, <2>4, <2>5, <2>6 DEF EnvelopeStep, Submit, Accept, Abort, Lapse,
       PushStep, AckReturns
<1>2. ASSUME NEW c \in Conn, ServerStep(c) PROVE TransportTypeOK'
  BY <1>t, <1>p, <1>q, <1>2 DEF ServerStep, Register, TurnAway, Announce, Write, Notice, Exit, Leave,
     transportVars, TransportTypeOK
<1>3. ASSUME NEW c \in Conn, ClientStep(c) PROVE TransportTypeOK'
  <2>1. CASE Dial(c)
    BY <1>t, <1>q, <2>1 DEF Dial, Open, TransportTypeOK, PassTypeOK
  <2>2. CASE Opened(c)
    BY <1>t, <1>q, <2>2 DEF Opened, OnOpen, TransportTypeOK, PassTypeOK
  <2>3. CASE Disconnect(c)
    BY <1>t, <1>q, <2>3 DEF Disconnect, OnClose, TransportTypeOK, PassTypeOK
  <2>4. CASE ReceiveReady(c)
    BY <1>t, <2>4 DEF ReceiveReady, OnReady, TransportTypeOK, DrainState
  <2>5. CASE ReceiveEnvelope(c)
    <3>1. job' \in [Envelope -> JobState]
      BY <1>t, <2>5 DEF ReceiveEnvelope, OnEnvelope, TransportTypeOK
    <3> QED
      BY <1>p, <1>q, <2>5, <3>1 DEF ReceiveEnvelope, OnEnvelope
  <2>6. CASE FetchEnvelopes(c)
    <3>1. FetchPage \in SUBSET Envelope
      BY <1>t DEF FetchPage, Live, StoreTypeOK
    <3>2. PassTypeOK'
      <4>1. CASE FetchPage = {}
        BY <1>t, <2>6, <4>1, EndPassType DEF FetchEnvelopes, DrainFetch
      <4>2. CASE FetchPage # {}
        BY <1>t, <2>6, <3>1, <4>2 DEF FetchEnvelopes, DrainFetch, PassTypeOK, DrainState
      <4> QED
        BY <4>1, <4>2
    <3> QED
      BY <1>t, <1>p, <2>6, <3>2 DEF FetchEnvelopes, DrainFetch, TransportTypeOK
  <2>7. CASE FetchFails(c)
    BY <1>t, <1>p, <2>7, EndPassType DEF FetchFails, DrainFetchFails, TransportTypeOK
  <2>8. CASE DrainNext(c)
    <3>1. PICK e \in batch[c] :
            /\ batch' = [batch EXCEPT ![c] = @ \ {e}]
            /\ \/ UNCHANGED <<drain, awaits, job>>
               \/ /\ drain' = [drain EXCEPT ![c] = "deliver"]
                  /\ awaits' = [awaits EXCEPT ![c] = e]
                  /\ job' = [job EXCEPT ![e] = "handling"]
      BY <2>8 DEF DrainNext
    <3>2. e \in Envelope /\ e \in 0 .. MaxEnvelopes
      BY <1>t, <3>1, NamesAssumption, SMT DEF PassTypeOK, Envelope
    <3>3. page' = page /\ progress' = progress
      BY <2>8 DEF DrainNext
    <3>4. job' \in [Envelope -> JobState]
      BY <1>t, <3>1, <3>2 DEF TransportTypeOK
    <3>5. batch' \in [Conn -> SUBSET Envelope]
      BY <1>t, <3>1 DEF PassTypeOK
    <3>6. drain' \in [Conn -> DrainState] /\ awaits' \in [Conn -> 0 .. MaxEnvelopes]
      BY <1>t, <3>1, <3>2 DEF PassTypeOK, DrainState
    <3>7. PassTypeOK'
      BY <1>t, <3>3, <3>5, <3>6 DEF PassTypeOK
    <3> QED
      BY <1>p, <2>8, <3>4, <3>7 DEF DrainNext
  <2>9. CASE DrainPageEnd(c)
    <3>1. PassTypeOK'
      <4>1. CASE EndPass(c)
        BY <1>t, <4>1, EndPassType
      <4>2. CASE /\ page[c] + 1 < MaxDrainPages
                 /\ drain' = [drain EXCEPT ![c] = "fetch"]
                 /\ page' = [page EXCEPT ![c] = @ + 1]
                 /\ UNCHANGED <<batch, awaits, progress>>
        BY <1>t, <4>2, TransportAssumption, SMT DEF PassTypeOK, DrainState
      <4> QED
        BY <2>9, <4>1, <4>2 DEF DrainPageEnd
    <3> QED
      BY <1>t, <1>p, <2>9, <3>1 DEF DrainPageEnd, TransportTypeOK
  <2> QED
    BY <1>3, <2>1, <2>2, <2>3, <2>4, <2>5, <2>6, <2>7, <2>8, <2>9 DEF ClientStep, DrainStep
<1>4. CASE CloseTransport
  BY <1>t, <1>q, <1>4 DEF CloseTransport, Close, TransportTypeOK, PassTypeOK
<1>5. CASE ClientRestart
  <2>1. retry' \in BOOLEAN /\ stopped' \in BOOLEAN
    BY <1>5 DEF ClientRestart, TransportRestart
  <2>2. /\ sock' \in [Conn -> SockState]
        /\ job' \in [Envelope -> JobState]
        /\ ackReq' \in SUBSET Envelope
        /\ ackResp' \in SUBSET Envelope
    BY <1>t, <1>5 DEF ClientRestart, TransportRestart, TransportTypeOK
  <2>3. handled' \in Seq(Envelope) /\ Len(handled') <= MaxRemembered
    BY <1>5, TransportAssumption, SMT DEF ClientRestart, TransportRestart
  <2>4. PassTypeOK'
    BY <1>5, NamesAssumption, TransportAssumption, SMT
       DEF ClientRestart, TransportRestart, PassTypeOK, DrainState
  <2> QED
    BY <2>1, <2>2, <2>3, <2>4 DEF TransportTypeOK, PassTypeOK
<1>6. CASE ServerRestart
  BY <1>t, <1>q, <1>6 DEF ServerRestart, TransportTypeOK, PassTypeOK
<1>7. CASE Sweep \/ TokenExpires \/ UNCHANGED vars
  BY <1>t, <1>p, <1>q, <1>7 DEF Sweep, TokenExpires, vars, transportVars, TransportTypeOK
<1> QED
  BY <1>1, <1>2, <1>3, <1>4, <1>5, <1>6, <1>7 DEF Next

(* The variables Delivery adds. *)
LEMMA LedgerTypeStep ==
  TypeOK /\ [Next]_vars =>
    /\ token' \in BOOLEAN
    /\ faults' \in 0 .. MaxFaults
    /\ processed' \in SUBSET Envelope
    /\ ran' \in SUBSET Envelope
    /\ twice' \in SUBSET Envelope
    /\ evicted' \in SUBSET Envelope
<1> SUFFICES ASSUME TypeOK, [Next]_vars
             PROVE  /\ token' \in BOOLEAN
                    /\ faults' \in 0 .. MaxFaults
                    /\ processed' \in SUBSET Envelope
                    /\ ran' \in SUBSET Envelope
                    /\ twice' \in SUBSET Envelope
                    /\ evicted' \in SUBSET Envelope
  OBVIOUS
<1>1. token' \in BOOLEAN
  BY DEF TypeOK, Next, EnvelopeStep, ServerStep, ClientStep, vars, Submit, Accept, Abort, Lapse,
     Sweep, PushStep, Register, TurnAway, Announce, Write, Notice, Exit, Leave, Dial, Opened, Disconnect,
     CloseTransport, ReceiveReady, ReceiveEnvelope, FetchEnvelopes, FetchFails, DrainStep, Resolve,
     Throw, HandleAck, AckReturns, TokenExpires, ClientRestart, ServerRestart
<1>2. faults' \in 0 .. MaxFaults
  <2>1. ASSUME NEW k, Fault(k) PROVE faults' \in 0 .. MaxFaults
    BY <2>1, DeliveryAssumption, SMT DEF Fault, TypeOK
  <2>2. ASSUME UNCHANGED faults PROVE faults' \in 0 .. MaxFaults
    BY <2>2 DEF TypeOK
  <2> QED
    BY <2>1, <2>2 DEF NoFault, Drop, Next, EnvelopeStep, ServerStep, ClientStep, vars, Submit,
     Accept, Abort, Lapse, Sweep, PushStep, Register, TurnAway, Announce, Write, Notice, Exit, Leave, Dial,
     Opened, Disconnect, CloseTransport, ReceiveReady, ReceiveEnvelope, FetchEnvelopes, FetchFails,
     DrainStep, Resolve, Throw, HandleAck, AckReturns, TokenExpires, ClientRestart, ServerRestart
<1>3. /\ processed' \in SUBSET Envelope
      /\ ran' \in SUBSET Envelope
      /\ twice' \in SUBSET Envelope
      /\ evicted' \in SUBSET Envelope
  <2>1. Evicts \in SUBSET Envelope
    <3>1. handled \in Seq(Envelope) /\ MaxRemembered \in Nat \ {0}
      BY TransportAssumption DEF TypeOK, TransportTypeOK
    <3> QED
      BY <3>1, SMT DEF Evicts
  <2> QED
    BY <2>1 DEF TypeOK, history, Next, EnvelopeStep, ServerStep, ClientStep, vars, Submit,
     Accept, Abort, Lapse, Sweep, PushStep, Register, TurnAway, Announce, Write, Notice, Exit, Leave, Dial,
     Opened, Disconnect, CloseTransport, ReceiveReady, ReceiveEnvelope, FetchEnvelopes, FetchFails,
     DrainStep, Resolve, Throw, HandleAck, AckReturns, TokenExpires, ClientRestart, ServerRestart
<1> QED
  BY <1>1, <1>2, <1>3

(* Type correctness of the whole delivery path, buffer and memory bounds   *)
(* included: no wsConn.send channel exceeds hubSendBuffer, the FIFO of     *)
(* handled ids never exceeds MAX_REMEMBERED_IDS and no pass exceeds        *)
(* MAX_DRAIN_PAGES.                                                        *)
THEOREM TypeCorrect == Spec => []TypeOK
<1>1. TypeOK /\ [Next]_vars => TypeOK'
  <2> SUFFICES ASSUME TypeOK, [Next]_vars PROVE TypeOK'
    OBVIOUS
  <2>1. StoreTypeOK
    BY DEF TypeOK
  <2> QED
    BY <2>1, StoreTypeStep, HubTypeStep, TransportTypeStep, LedgerTypeStep DEF TypeOK
<1> QED
  BY <1>1, InitTypeOK, PTL DEF Spec

-----------------------------------------------------------------------------
(* What is committed stays committed, and only Accept commits. *)
LEMMA CommittedStep ==
  ASSUME StoreTypeOK, [Next]_vars
  PROVE  /\ Committed \subseteq Committed'
         /\ (Committed' = Committed) \/ \E e \in Envelope : Accept(e)
<1> USE DEF Committed, InPhase, StoreTypeOK
<1>1. ASSUME NEW e \in Envelope, EnvelopeStep(e) PROVE Committed \subseteq Committed'
  BY <1>1 DEF EnvelopeStep, Submit, Accept, Abort, Lapse, PushStep, Resolve, Throw, HandleAck,
     AckReturns, BeginStore, CommitStore, AbortStore, Expire, AcknowledgeEnvelopes, storeVars
<1>2. ASSUME NEW e \in Envelope, EnvelopeStep(e), ~Accept(e) PROVE Committed' = Committed
  BY <1>2 DEF EnvelopeStep, Submit, Abort, Lapse, PushStep, Resolve, Throw, HandleAck,
     AckReturns, BeginStore, AbortStore, Expire, AcknowledgeEnvelopes, storeVars
<1>3. ASSUME NEW c \in Conn, ServerStep(c) \/ ClientStep(c) PROVE Committed' = Committed
  BY <1>3 DEF ServerStep, Register, TurnAway, Announce, Write, Notice, Exit, Leave, ClientStep, Dial,
     Opened, Disconnect, ReceiveReady, ReceiveEnvelope, FetchEnvelopes, FetchFails, DrainStep,
     storeVars
<1>4. CASE Sweep \/ CloseTransport \/ TokenExpires \/ ClientRestart \/ ServerRestart \/ UNCHANGED vars
  BY <1>4 DEF Sweep, SweepEnvelopes, CloseTransport, TokenExpires, ClientRestart, ServerRestart,
     vars, storeVars
<1> QED
  BY <1>1, <1>2, <1>3, <1>4 DEF Next

(* Every copy is a copy of an accepted envelope: frames. *)
LEMMA FramesStep ==
  ASSUME TypeOK, CopiesAreAccepted, [Next]_vars
  PROVE  /\ send' \in [Conn -> Seq(Committed' \cup {Ready})]
         /\ wire' \in [Conn -> Seq(Committed' \cup {Ready})]
<1> DEFINE F == Committed \cup {Ready}
           G == Committed' \cup {Ready}
<1>c. Committed \subseteq Committed'
  BY CommittedStep DEF TypeOK
<1>f. send \in [Conn -> Seq(F)] /\ wire \in [Conn -> Seq(F)]
  BY DEF CopiesAreAccepted
<1>g. \A s \in Seq(F) : s \in Seq(G)
  BY <1>c, SMT
<1>e. \A e \in Envelope : targets[e] # {} => e \in G
  BY <1>c DEF CopiesAreAccepted
<1>r. Ready \in G
  OBVIOUS
<1> HIDE DEF F, G
<1>h. send \in [Conn -> Seq(G)] /\ wire \in [Conn -> Seq(G)] /\ <<>> \in Seq(G)
  BY <1>f, <1>g, SMT
<1> SUFFICES send' \in [Conn -> Seq(G)] /\ wire' \in [Conn -> Seq(G)]
  BY DEF G
<1>s. ASSUME NEW c \in Conn, NEW f \in G, TrySend(c, f) PROVE send' \in [Conn -> Seq(G)]
  <2>1. Append(send[c], f) \in Seq(G)
    BY <1>h, SMT
  <2> QED
    BY <1>h, <1>s, <2>1 DEF TrySend, CloseConns
<1>k. ASSUME NEW cs, CloseConns(cs) PROVE send' \in [Conn -> Seq(G)]
  BY <1>h, <1>k DEF CloseConns
<1>1. ASSUME NEW e \in Envelope, EnvelopeStep(e)
      PROVE  send' \in [Conn -> Seq(G)] /\ wire' \in [Conn -> Seq(G)]
  <2>1. ASSUME NEW c \in Conn, PushSend(e, c)
        PROVE  send' \in [Conn -> Seq(G)] /\ wire' \in [Conn -> Seq(G)]
    BY <1>e, <1>h, <1>s, <2>1 DEF PushSend
  <2> QED
    BY <1>h, <1>1, <2>1 DEF EnvelopeStep, Submit, Accept, Abort, Lapse, PushStep, PushSnapshot,
       Resolve, Throw, HandleAck, AckReturns, PushDue, hubVars
<1>2. ASSUME NEW c \in Conn, ServerStep(c)
      PROVE  send' \in [Conn -> Seq(G)] /\ wire' \in [Conn -> Seq(G)]
  <2>1. CASE Write(c)
    <3>1. send[c] # <<>> /\ send[c] \in Seq(G) /\ wire[c] \in Seq(G)
      BY <1>h, <2>1 DEF Write, WriteLoop
    <3>2. Tail(send[c]) \in Seq(G) /\ Append(wire[c], Head(send[c])) \in Seq(G)
      BY <3>1, SMT
    <3> QED
      BY <1>h, <2>1, <3>2 DEF Write, WriteLoop
  <2>2. CASE Announce(c)
    BY <1>h, <1>s, <1>r, <2>2 DEF Announce, AnnounceReady
  <2>3. CASE TurnAway(c) \/ Notice(c) \/ Leave(c)
    BY <1>h, <1>k, <2>3 DEF TurnAway, Notice, BreakConn, Leave, HandlerReturn
  <2>4. CASE Register(c) \/ Exit(c)
    BY <1>h, <2>4 DEF Register, HubAdd, Exit, HandlerExit
  <2> QED
    BY <1>2, <2>1, <2>2, <2>3, <2>4 DEF ServerStep
<1>3. ASSUME NEW c \in Conn, ClientStep(c)
      PROVE  send' \in [Conn -> Seq(G)] /\ wire' \in [Conn -> Seq(G)]
  <2>1. CASE ReadFrame(c)
    <3>1. Tail(wire[c]) \in Seq(G)
      BY <1>h, <2>1, SMT DEF ReadFrame
    <3> QED
      BY <1>h, <2>1, <3>1 DEF ReadFrame
  <2> QED
    BY <1>h, <1>3, <2>1 DEF ClientStep, Dial, Opened, Disconnect, ReceiveReady, ReceiveEnvelope,
       FetchEnvelopes, FetchFails, DrainStep, hubVars
<1>4. CASE ServerRestart
  BY <1>h, <1>k, <1>4 DEF ServerRestart
<1>5. CASE CloseTransport \/ ClientRestart
  BY <1>h, <1>5 DEF CloseTransport, ClientRestart
<1>6. CASE Sweep \/ TokenExpires \/ UNCHANGED vars
  BY <1>h, <1>6 DEF Sweep, TokenExpires, vars, hubVars
<1> QED
  BY <1>1, <1>2, <1>3, <1>4, <1>5, <1>6 DEF Next

LEMMA HeadOf ==
  ASSUME NEW S, NEW s \in Seq(S), s # <<>>
  PROVE  Head(s) \in S
BY SMT

(* The other copies: rows, pushes under way, pages and deliver calls. *)
LEMMA CopiesStep ==
  ASSUME TypeOK, CopiesAreAccepted, [Next]_vars
  PROVE  CopiesAreAccepted'
<1>c. Committed \subseteq Committed'
  BY CommittedStep DEF TypeOK
<1>1. rows' \subseteq Committed'
  <2>1. ASSUME NEW e \in Envelope, Accept(e) PROVE rows' \subseteq Committed'
    BY <1>c, <2>1 DEF Accept, CommitStore, CopiesAreAccepted, TypeOK, StoreTypeOK, Committed, InPhase
  <2>2. (\E e \in Envelope : Accept(e)) \/ rows' \subseteq rows
    BY DEF Next, EnvelopeStep, Submit, Abort, Lapse, PushStep, Resolve, Throw, HandleAck,
     AckReturns, BeginStore, AbortStore, Expire, AcknowledgeEnvelopes, ServerStep, Register,
     TurnAway, Announce, Write, Notice, Exit, Leave, ClientStep, Dial, Opened, Disconnect, ReceiveReady,
     ReceiveEnvelope, FetchEnvelopes, FetchFails, DrainStep, Sweep, SweepEnvelopes, CloseTransport,
     TokenExpires, ClientRestart, ServerRestart, vars, storeVars
  <2> QED
    BY <1>c, <2>1, <2>2 DEF CopiesAreAccepted
<1>2. due' \subseteq Committed' /\ \A e \in Envelope : targets'[e] # {} => e \in Committed'
  <2>1. ASSUME NEW e \in Envelope, Accept(e) PROVE <1>2!1 /\ <1>2!2
    BY <1>c, <2>1 DEF Accept, PushDue, CommitStore, CopiesAreAccepted, TypeOK, StoreTypeOK,
       Committed, InPhase
  <2>2. ASSUME NEW e \in Envelope, PushStep(e) PROVE <1>2!1 /\ <1>2!2
    BY <1>c, <2>2 DEF PushStep, PushSnapshot, PushSend, CopiesAreAccepted, TypeOK, HubTypeOK
  <2>3. CASE ServerRestart
    BY <2>3 DEF ServerRestart
  <2>4. CASE UNCHANGED <<due, targets>>
    BY <1>c, <2>4 DEF CopiesAreAccepted
  <2> QED
    BY <2>1, <2>2, <2>3, <2>4 DEF Next, EnvelopeStep, Submit, Abort, Lapse, Resolve, Throw,
     HandleAck, AckReturns, ServerStep, Register, HubAdd, TurnAway, Announce, AnnounceReady, Write,
     WriteLoop, Notice, BreakConn, Exit, HandlerExit, Leave, HandlerReturn, ClientStep, Dial, Opened,
     Disconnect, ReceiveReady, ReceiveEnvelope, ReadFrame, FetchEnvelopes, FetchFails, DrainStep, Sweep,
     CloseTransport, TokenExpires, ClientRestart, vars, hubVars
<1>3. batch' \in [Conn -> SUBSET Committed']
  <2>1. batch \in [Conn -> SUBSET Committed']
    BY <1>c DEF CopiesAreAccepted
  <2>2. ASSUME NEW c \in Conn, FetchEnvelopes(c) PROVE batch' \in [Conn -> SUBSET Committed']
    BY <1>c, <2>1, <2>2 DEF FetchEnvelopes, DrainFetch, EndPass, FetchPage, Live, CopiesAreAccepted
  <2>3. ASSUME NEW c \in Conn, DrainStep(c) PROVE batch' \in [Conn -> SUBSET Committed']
    BY <2>1, <2>3 DEF DrainStep, DrainNext, DrainPageEnd, EndPass
  <2>4. CASE ClientRestart
    BY <2>4 DEF ClientRestart, TransportRestart
  <2>5. CASE UNCHANGED batch
    BY <2>1, <2>5
  <2> QED
    BY <2>2, <2>3, <2>4, <2>5 DEF Next, EnvelopeStep, Submit, Accept, Abort, Lapse, PushStep,
     Resolve, HandlerResolves, Throw, HandlerThrows, HandleAck, AckReturns, AckSucceeds, AckFails,
     Returned, ServerStep, Register, TurnAway, Announce, Write, Notice, Exit, Leave, ClientStep, Dial, Open,
     Opened, OnOpen, Disconnect, OnClose, ReceiveReady, OnReady, ReceiveEnvelope, OnEnvelope,
     FetchFails, DrainFetchFails, EndPass, Sweep, CloseTransport, Close, TokenExpires,
     ServerRestart, vars, transportVars, passVars
<1>4. \A e \in Envelope : job'[e] # "idle" => e \in Committed'
  <2> SUFFICES ASSUME NEW e \in Envelope, job[e] = "idle", job'[e] # "idle" PROVE e \in Committed
    BY <1>c DEF CopiesAreAccepted
  <2>1. \/ \E c \in Conn : ReceiveEnvelope(c) /\ Head(wire[c]) = e
        \/ \E c \in Conn : DrainNext(c) /\ e \in batch[c]
    <3>1. ASSUME NEW f \in Envelope, EnvelopeStep(f) PROVE FALSE
      <4>1. job \in [Envelope -> JobState]
        BY DEF TypeOK, TransportTypeOK
      <4> QED
        BY <3>1, <4>1 DEF EnvelopeStep, Submit, Accept, Abort, Lapse, PushStep, Resolve,
         HandlerResolves, Throw, HandlerThrows, HandleAck, AckReturns, AckSucceeds, AckFails,
         transportVars
    <3>2. ASSUME NEW c \in Conn, ServerStep(c) PROVE FALSE
      BY <3>2 DEF ServerStep, Register, TurnAway, Announce, Write, Notice, Exit, Leave, transportVars
    <3>3. ASSUME NEW c \in Conn, ClientStep(c), ~ReceiveEnvelope(c), ~DrainNext(c) PROVE FALSE
      BY <3>3 DEF ClientStep, Dial, Open, Opened, OnOpen, Disconnect, OnClose, ReceiveReady,
         OnReady, FetchEnvelopes, DrainFetch, FetchFails, DrainFetchFails, DrainStep, DrainPageEnd
    <3>4. ASSUME NEW c \in Conn, ReceiveEnvelope(c) PROVE Head(wire[c]) = e
      BY <3>4 DEF ReceiveEnvelope, OnEnvelope, TypeOK, TransportTypeOK
    <3>5. ASSUME NEW c \in Conn, DrainNext(c) PROVE e \in batch[c]
      BY <3>5 DEF DrainNext, TypeOK, TransportTypeOK
    <3>6. ~(Sweep \/ CloseTransport \/ TokenExpires \/ ClientRestart \/ ServerRestart \/ UNCHANGED vars)
      BY DEF Sweep, CloseTransport, Close, TokenExpires, ClientRestart, TransportRestart,
         ServerRestart, vars, transportVars
    <3> QED
      BY <3>1, <3>2, <3>3, <3>4, <3>5, <3>6 DEF Next
  <2>2. ASSUME NEW c \in Conn, ReceiveEnvelope(c), Head(wire[c]) = e PROVE e \in Committed
    <3>1. wire[c] # <<>> /\ wire[c] \in Seq(Committed \cup {Ready}) /\ Head(wire[c]) # Ready
      BY <2>2 DEF ReceiveEnvelope, ReadFrame, CopiesAreAccepted
    <3>2. Head(wire[c]) \in Committed \cup {Ready}
      BY <3>1, HeadOf
    <3> QED
      BY <2>2, <3>1, <3>2
  <2> QED
    BY <2>1, <2>2 DEF CopiesAreAccepted
<1> QED
  BY <1>1, <1>2, <1>3, <1>4, FramesStep DEF CopiesAreAccepted

-----------------------------------------------------------------------------
(* The steps that matter to the mailbox, seen from the mailbox: every      *)
(* other step leaves its four variables alone.                             *)
MailboxUnchanged == UNCHANGED <<rows, expired, processed, Committed>>

LEMMA MailboxSteps ==
  ASSUME TypeOK, [Next]_vars
  PROVE  \/ \E e \in Envelope : Accept(e) \/ Lapse(e) \/ Resolve(e) \/ HandleAck(e)
         \/ Sweep
         \/ MailboxUnchanged
<1>1. (Committed' = Committed) \/ \E e \in Envelope : Accept(e)
  BY CommittedStep DEF TypeOK
<1>2. \/ \E e \in Envelope : Accept(e) \/ Lapse(e) \/ Resolve(e) \/ HandleAck(e)
      \/ Sweep
      \/ UNCHANGED <<rows, expired, processed>>
  BY DEF Next, EnvelopeStep, Submit, BeginStore, Abort, AbortStore, PushStep, Throw, AckReturns,
     ServerStep, Register, TurnAway, Announce, Write, Notice, Exit, Leave, ClientStep, Dial, Opened,
     Disconnect, ReceiveReady, ReceiveEnvelope, FetchEnvelopes, FetchFails, DrainStep,
     CloseTransport, TokenExpires, ClientRestart, ServerRestart, vars, storeVars, history
<1> QED
  BY <1>1, <1>2 DEF MailboxUnchanged

LEMMA DeliveryInvInit == Init => DeliveryInv
<1> SUFFICES ASSUME Init PROVE DeliveryInv
  OBVIOUS
<1>1. Committed = {}
  BY DEF Init, StoreInit, Committed, InPhase
<1>2. <<>> \in Seq(Committed \cup {Ready})
  BY SMT
<1> QED
  BY <1>1, <1>2 DEF Init, StoreInit, HubInit, TransportInit, DeliveryInv, CopiesAreAccepted,
     AcksAreEarned, OnlyAccepted, NothingLost

LEMMA DeliveryInvStep == TypeOK /\ DeliveryInv /\ [Next]_vars => DeliveryInv'
<1> SUFFICES ASSUME TypeOK, DeliveryInv, [Next]_vars PROVE DeliveryInv'
  OBVIOUS
<1>c. Committed \subseteq Committed'
  BY CommittedStep DEF TypeOK
<1>1. CopiesAreAccepted'
  BY CopiesStep DEF DeliveryInv
<1>p. processed \subseteq processed'
  BY MailboxSteps DEF MailboxUnchanged, Accept, Lapse, Resolve, HandleAck, Sweep, history
<1>2. AcksAreEarned'
  <2>1. ASSUME NEW e \in Envelope, Resolve(e) PROVE AcksAreEarned'
    BY <2>1 DEF Resolve, HandlerResolves, DeliveryInv, AcksAreEarned
  <2>2. (\E e \in Envelope : Resolve(e)) \/ ackReq' \subseteq ackReq
    BY DEF Next, EnvelopeStep, Submit, Accept, Abort, Lapse, PushStep, Throw, HandlerThrows,
     HandleAck, AckReturns, AckSucceeds, AckFails, ServerStep, Register, TurnAway, Announce, Write,
     Notice, Exit, Leave, ClientStep, Dial, Open, Opened, OnOpen, Disconnect, OnClose, ReceiveReady,
     OnReady, ReceiveEnvelope, OnEnvelope, FetchEnvelopes, DrainFetch, FetchFails, DrainFetchFails,
     DrainStep, DrainNext, DrainPageEnd, Sweep, CloseTransport, Close, TokenExpires, ClientRestart,
     TransportRestart, ServerRestart, vars, transportVars
  <2> QED
    BY <1>p, <2>1, <2>2 DEF DeliveryInv, AcksAreEarned
<1>3. OnlyAccepted'
  <2>1. ASSUME NEW e \in Envelope, Resolve(e) PROVE e \in Committed /\ processed' = processed \cup {e}
    BY <2>1 DEF Resolve, HandlerResolves, DeliveryInv, CopiesAreAccepted
  <2>2. (\E e \in Envelope : Resolve(e)) \/ processed' = processed
    BY MailboxSteps DEF MailboxUnchanged, Accept, Lapse, HandleAck, Sweep, history
  <2> QED
    BY <1>c, <2>1, <2>2 DEF DeliveryInv, OnlyAccepted
<1>4. NothingLost'
  <2>1. ASSUME NEW e \in Envelope, Accept(e) PROVE NothingLost'
    BY <2>1 DEF Accept, CommitStore, history, DeliveryInv, NothingLost, Committed, InPhase, TypeOK,
       StoreTypeOK
  <2>2. ASSUME NEW e \in Envelope, Lapse(e) PROVE NothingLost'
    BY <2>2 DEF Lapse, Expire, history, DeliveryInv, NothingLost, Committed, InPhase
  <2>3. ASSUME NEW e \in Envelope, Resolve(e) PROVE NothingLost'
    BY <2>3 DEF Resolve, storeVars, DeliveryInv, NothingLost, Committed, InPhase
  <2>4. ASSUME NEW e \in Envelope, HandleAck(e) PROVE NothingLost'
    BY <2>4 DEF HandleAck, AcknowledgeEnvelopes, history, DeliveryInv, AcksAreEarned, NothingLost,
       Committed, InPhase
  <2>5. CASE Sweep
    BY <2>5 DEF Sweep, SweepEnvelopes, history, DeliveryInv, NothingLost, Committed, InPhase
  <2>6. CASE MailboxUnchanged
    BY <2>6 DEF MailboxUnchanged, DeliveryInv, NothingLost
  <2> QED
    BY <2>1, <2>2, <2>3, <2>4, <2>5, <2>6, MailboxSteps
<1> QED
  BY <1>1, <1>2, <1>3, <1>4 DEF DeliveryInv

(* Whatever the schedule and the faults, the invariant behind NothingLost  *)
(* holds.                                                                  *)
THEOREM DeliveryInvariant == Spec => []DeliveryInv
<1>1. Spec => []TypeOK
  BY TypeCorrect
<1> QED
  BY <1>1, DeliveryInvInit, DeliveryInvStep, PTL DEF Spec

(* No accepted envelope is lost: its row stays until onEnvelope has        *)
(* resolved for it or it has expired.                                      *)
THEOREM NoEnvelopeIsLost == Spec => []NothingLost
<1>1. DeliveryInv => NothingLost
  BY DEF DeliveryInv
<1> QED
  BY <1>1, DeliveryInvariant, PTL

(* The application only ever processes envelopes the server accepted. *)
THEOREM OnlyAcceptedIsProcessed == Spec => []OnlyAccepted
<1>1. DeliveryInv => OnlyAccepted
  BY DEF DeliveryInv
<1> QED
  BY <1>1, DeliveryInvariant, PTL

(* The delivery path implements the mailbox: a commit is an Accept, a      *)
(* resolved handler a Deliver, an acknowledgement or a sweep a Remove, and *)
(* every other step, crashes included, changes nothing the mailbox shows.  *)
THEOREM DeliveryImplementsMailbox == Spec => ImplementsMailbox
<1>1. Init => Abstract!Init
  BY DEF Init, StoreInit, Abstract!Init, Committed, InPhase
<1>2. TypeOK /\ DeliveryInv /\ [Next]_vars => [Abstract!Next]_Abstract!mailboxVars
  <2> SUFFICES ASSUME TypeOK, DeliveryInv, [Next]_vars
               PROVE  Abstract!Next \/ UNCHANGED Abstract!mailboxVars
    OBVIOUS
  <2>1. ASSUME NEW e \in Envelope, Accept(e) PROVE Abstract!Accept(e)
    BY <2>1 DEF Accept, CommitStore, Abstract!Accept, history, Committed, InPhase, TypeOK,
       StoreTypeOK
  <2>2. ASSUME NEW e \in Envelope, Lapse(e) PROVE Abstract!Lapse(e)
    BY <2>2 DEF Lapse, Expire, Live, Abstract!Lapse, history, Committed, InPhase
  <2>3. ASSUME NEW e \in Envelope, Resolve(e) PROVE Abstract!Deliver(e)
    BY <2>3 DEF Resolve, HandlerResolves, storeVars, Abstract!Deliver, DeliveryInv,
       CopiesAreAccepted, Committed, InPhase
  <2>4. ASSUME NEW e \in Envelope, HandleAck(e) PROVE Abstract!Remove(rows \cap {e})
    BY <2>4 DEF HandleAck, AcknowledgeEnvelopes, Abstract!Remove, history, DeliveryInv,
       AcksAreEarned, Committed, InPhase
  <2>5. ASSUME Sweep PROVE \E S \in SUBSET Envelope : Abstract!Remove(S)
    <3>1. PICK S \in SUBSET (rows \cap expired) : rows' = rows \ S
      BY <2>5 DEF Sweep, SweepEnvelopes
    <3>2. S \in SUBSET Envelope
      BY DEF TypeOK, StoreTypeOK
    <3>3. Abstract!Remove(S)
      BY <2>5, <3>1 DEF Sweep, SweepEnvelopes, Abstract!Remove, history, Committed, InPhase
    <3> QED
      BY <3>2, <3>3
  <2>6. ASSUME MailboxUnchanged PROVE UNCHANGED Abstract!mailboxVars
    BY <2>6 DEF MailboxUnchanged, Abstract!mailboxVars
  <2>7. \A e \in Envelope : rows \cap {e} \in SUBSET Envelope
    OBVIOUS
  <2> QED
    BY <2>1, <2>2, <2>3, <2>4, <2>5, <2>6, <2>7, MailboxSteps DEF Abstract!Next
<1> QED
  BY <1>1, <1>2, TypeCorrect, DeliveryInvariant, PTL DEF Spec, ImplementsMailbox, Abstract!Spec

-----------------------------------------------------------------------------
(* What remember does to the set of remembered ids. *)
LEMMA RememberKeeps ==
  ASSUME NEW e \in Envelope, handled \in Seq(Envelope), Len(handled) <= MaxRemembered,
         Remember(e)
  PROVE  /\ Handled(e)'
         /\ \A f \in Envelope : Handled(f) /\ f \notin Evicts => Handled(f)'
         /\ \A f \in Envelope : f # e /\ Handled(f)' => Handled(f)
<1> DEFINE h == Append(handled, e)
           n == Len(handled)
<1>0. n \in Nat /\ MaxRemembered \in Nat \ {0}
  BY TransportAssumption, SMT
<1>1. /\ h \in Seq(Envelope)
      /\ Len(h) = n + 1
      /\ \A i \in 1 .. n : h[i] = handled[i]
      /\ h[n + 1] = e
  BY SMT
<1>2. CASE n < MaxRemembered
  <2>1. handled' = h
    BY <1>0, <1>1, <1>2, SMT DEF Remember
  <2> HIDE DEF h
  <2> QED
    BY <1>0, <1>1, <2>1, SMT DEF Handled
<1>3. CASE n = MaxRemembered
  <2>1. handled' = Tail(h)
    BY <1>0, <1>1, <1>3, SMT DEF Remember
  <2>2. Len(Tail(h)) = n /\ \A i \in 1 .. n : Tail(h)[i] = h[i + 1]
    BY <1>0, <1>1, SMT
  <2>3. Evicts = {handled[1]}
    BY <1>0, <1>3, SMT DEF Evicts
  <2> DEFINE t == Tail(h)
  <2>4. Len(t) = n /\ (\A i \in 1 .. n : t[i] = h[i + 1]) /\ handled' = t
    BY <2>1, <2>2
  <2> HIDE DEF h, t
  <2>5. Handled(e)'
    BY <1>0, <1>1, <1>3, <2>4, SMT DEF Handled
  <2>6. ASSUME NEW f \in Envelope, Handled(f), f \notin Evicts PROVE Handled(f)'
    <3>1. PICK i \in 1 .. n : handled[i] = f
      BY <2>6 DEF Handled
    <3>2. i # 1
      BY <2>3, <2>6, <3>1
    <3>3. i - 1 \in 1 .. n /\ t[i - 1] = f
      BY <1>0, <1>1, <2>4, <3>1, <3>2, SMT
    <3> QED
      BY <2>4, <3>3 DEF Handled
  <2>7. ASSUME NEW f \in Envelope, f # e, Handled(f)' PROVE Handled(f)
    <3>1. PICK i \in 1 .. n : t[i] = f
      BY <2>4, <2>7 DEF Handled
    <3>2. i # n
      BY <1>0, <1>1, <2>4, <2>7, <3>1
    <3>3. i + 1 \in 1 .. n /\ handled[i + 1] = f
      BY <1>0, <1>1, <2>4, <3>1, <3>2, SMT
    <3> QED
      BY <3>3 DEF Handled
  <2> QED
    BY <2>5, <2>6, <2>7
<1> QED
  BY <1>0, <1>2, <1>3, SMT

LEMMA MemoryInvStep == TypeOK /\ MemoryInv /\ [Next]_vars => MemoryInv'
<1> SUFFICES ASSUME TypeOK, MemoryInv, [Next]_vars PROVE MemoryInv'
  OBVIOUS
<1>t. /\ job \in [Envelope -> JobState]
      /\ handled \in Seq(Envelope)
      /\ Len(handled) <= MaxRemembered
  BY DEF TypeOK, TransportTypeOK
<1>1. ASSUME NEW e \in Envelope, Resolve(e) PROVE MemoryInv'
  <2>1. /\ job[e] = "handling"
        /\ job' = [job EXCEPT ![e] = "acking"]
        /\ handled' = handled
        /\ ran' = ran \cup {e}
        /\ twice' = twice \cup (ran \cap {e})
        /\ evicted' = evicted
    BY <1>1 DEF Resolve, HandlerResolves
  <2> QED
    BY <1>t, <2>1 DEF MemoryInv, Handled, JobState
<1>2. ASSUME NEW e \in Envelope, Throw(e) PROVE MemoryInv'
  <2>1. /\ job[e] = "handling"
        /\ job' = [job EXCEPT ![e] = "idle"]
        /\ handled' = handled
        /\ UNCHANGED <<ran, twice, evicted>>
    BY <1>2 DEF Throw, HandlerThrows, history
  <2> QED
    BY <1>t, <2>1 DEF MemoryInv, Handled, JobState
<1>3. ASSUME NEW e \in Envelope, AckReturns(e) PROVE MemoryInv'
  <2>1. /\ job[e] = "acking"
        /\ job' = [job EXCEPT ![e] = "idle"]
        /\ Remember(e)
        /\ UNCHANGED <<ran, twice>>
        /\ evicted' = evicted \cup Evicts
    BY <1>3 DEF AckReturns, AckSucceeds, AckFails
  <2>2. /\ Handled(e)'
        /\ \A f \in Envelope : Handled(f) /\ f \notin Evicts => Handled(f)'
        /\ \A f \in Envelope : f # e /\ Handled(f)' => Handled(f)
    BY <1>t, <2>1, RememberKeeps
  <2> QED
    BY <1>t, <2>1, <2>2 DEF MemoryInv
<1>4. ASSUME NEW c \in Conn, ReceiveEnvelope(c) \/ (DrainStep(c) /\ DrainNext(c)) PROVE MemoryInv'
  <2>1. \/ job' = job
        \/ \E e : ~Duplicate(e) /\ job' = [job EXCEPT ![e] = "handling"]
    BY <1>4 DEF ReceiveEnvelope, OnEnvelope, DrainNext
  <2>2. UNCHANGED <<handled, ran, twice, evicted>>
    BY <1>4 DEF ReceiveEnvelope, OnEnvelope, DrainStep, DrainNext, history
  <2> QED
    BY <1>t, <2>1, <2>2 DEF MemoryInv, Handled, Duplicate, JobState
<1>5. CASE ClientRestart
  BY <1>5 DEF ClientRestart, TransportRestart, MemoryInv
<1>6. CASE UNCHANGED <<job, handled, ran, twice, evicted>>
  BY <1>6 DEF MemoryInv, Handled
<1> QED
  BY <1>1, <1>2, <1>3, <1>4, <1>5, <1>6 DEF Next, EnvelopeStep, Submit, Accept, Abort, Lapse, PushStep,
     HandleAck, ServerStep, Register, TurnAway, Announce, Write, Notice, Exit, Leave, ClientStep, Dial,
     Open, Opened, OnOpen, Disconnect, OnClose, ReceiveReady, OnReady, FetchEnvelopes, DrainFetch,
     FetchFails, DrainFetchFails, DrainStep, DrainPageEnd, Sweep, CloseTransport, Close,
     TokenExpires, ServerRestart, vars, transportVars, history

(* While a client runs, deliver hands an envelope to the application again *)
(* only after its id has left the FIFO of handled ids.                     *)
THEOREM DuplicatesAreCaught == Spec => []TwiceOnlyAfterEviction
<1>1. Init => MemoryInv
  BY SMT DEF Init, TransportInit, MemoryInv, Handled
<1>2. TypeOK /\ MemoryInv => TwiceOnlyAfterEviction
  BY DEF TypeOK, MemoryInv, TwiceOnlyAfterEviction
<1> QED
  BY <1>1, <1>2, MemoryInvStep, TypeCorrect, PTL DEF Spec

LEMMA PassInvStep == TypeOK /\ PassInv /\ [Next]_vars => PassInv'
<1> SUFFICES ASSUME TypeOK, PassInv, [Next]_vars PROVE PassInv'
  OBVIOUS
<1>t. /\ job \in [Envelope -> JobState]
      /\ drain \in [Conn -> DrainState]
      /\ awaits \in [Conn -> 0 .. MaxEnvelopes]
      /\ batch \in [Conn -> SUBSET Envelope]
      /\ sock \in [Conn -> SockState]
  BY DEF TypeOK, TransportTypeOK
<1>n. \A e \in Envelope : e # 0
  BY NamesAssumption, SMT DEF Envelope
<1>a. \A c \in Conn : awaits[c] # 0 => awaits[c] \in Envelope
  BY <1>t, NamesAssumption, SMT DEF Envelope
<1>1. ASSUME NEW e \in Envelope, Resolve(e) PROVE PassInv'
  <2>1. job' = [job EXCEPT ![e] = "acking"] /\ UNCHANGED <<sock, drain, awaits>>
    BY <1>1 DEF Resolve, HandlerResolves, passVars
  <2> QED
    BY <1>t, <1>a, <2>1 DEF PassInv
<1>2. ASSUME NEW e \in Envelope, Throw(e) \/ AckReturns(e) PROVE PassInv'
  <2>1. /\ job' = [job EXCEPT ![e] = "idle"]
        /\ drain' = [c \in Conn |-> IF awaits[c] = e THEN "page" ELSE drain[c]]
        /\ awaits' = [c \in Conn |-> IF awaits[c] = e THEN 0 ELSE awaits[c]]
        /\ sock' = sock
    BY <1>2 DEF Throw, HandlerThrows, AckReturns, AckSucceeds, AckFails, Returned
  <2> QED
    BY <1>t, <1>a, <1>n, <2>1 DEF PassInv
<1>3. ASSUME NEW c \in Conn, ReceiveEnvelope(c) PROVE PassInv'
  <2>1. /\ job' = job \/ \E e : job' = [job EXCEPT ![e] = "handling"]
        /\ UNCHANGED <<sock, drain, awaits>>
    BY <1>3 DEF ReceiveEnvelope, OnEnvelope, passVars
  <2> QED
    BY <1>t, <1>a, <2>1 DEF PassInv
<1>4. ASSUME NEW c \in Conn, DrainNext(c) PROVE PassInv'
  <2>1. PICK e \in batch[c] :
          \/ UNCHANGED <<drain, awaits, job>>
          \/ /\ job[e] = "idle"
             /\ drain' = [drain EXCEPT ![c] = "deliver"]
             /\ awaits' = [awaits EXCEPT ![c] = e]
             /\ job' = [job EXCEPT ![e] = "handling"]
    BY <1>4 DEF DrainNext, Duplicate
  <2>2. e \in Envelope /\ e # 0 /\ sock' = sock /\ drain[c] = "page"
    BY <1>t, <1>n, <1>4, <2>1 DEF DrainNext
  <2> QED
    BY <1>t, <1>a, <2>1, <2>2, SMT DEF PassInv
<1>5. ASSUME NEW c \in Conn, EndPass(c), drain[c] # "deliver", UNCHANGED <<sock, job>> PROVE PassInv'
  BY <1>t, <1>5 DEF EndPass, PassInv
<1>6. ASSUME NEW c \in Conn, drain[c] \in {"fetch", "page"}, UNCHANGED <<sock, job, awaits>>,
             NEW s \in {"page", "fetch"}, drain' = [drain EXCEPT ![c] = s]
      PROVE PassInv'
  BY <1>t, <1>6 DEF PassInv
<1>7. CASE ClientRestart
  BY <1>7 DEF ClientRestart, TransportRestart, PassInv
<1>8. ASSUME UNCHANGED <<job, drain, awaits>>, \A c \in Conn : sock'[c] \in {sock[c], "closed"}
      PROVE PassInv'
  BY <1>8 DEF PassInv
<1>9. ASSUME NEW c \in Conn, ClientStep(c) PROVE PassInv'
  <2>1. CASE Dial(c)
    <3>1. drain[c] = "off"
      BY <2>1 DEF Dial, Reusable, PassInv
    <3> QED
      BY <1>t, <2>1, <3>1, SMT DEF Dial, Open, passVars, PassInv
  <2>2. CASE Opened(c)
    BY <1>t, <2>2 DEF Opened, OnOpen, passVars, PassInv
  <2>3. CASE Disconnect(c)
    BY <1>t, <1>8, <2>3 DEF Disconnect, OnClose, passVars
  <2>4. CASE ReceiveReady(c)
    BY <1>t, <2>4, SMT DEF ReceiveReady, OnReady, PassInv
  <2>5. CASE FetchEnvelopes(c)
    BY <1>5, <1>6, <2>5 DEF FetchEnvelopes, DrainFetch
  <2>6. CASE FetchFails(c)
    BY <1>5, <2>6 DEF FetchFails, DrainFetchFails
  <2>7. CASE DrainStep(c)
    BY <1>4, <1>5, <1>6, <2>7 DEF DrainStep, DrainPageEnd
  <2> QED
    BY <1>3, <1>9, <2>1, <2>2, <2>3, <2>4, <2>5, <2>6, <2>7 DEF ClientStep
<1>10. CASE CloseTransport
  BY <1>t, <1>8, <1>10 DEF CloseTransport, Close, passVars
<1>11. CASE UNCHANGED <<job, drain, awaits, sock>>
  BY <1>t, <1>8, <1>11
<1> QED
  BY <1>1, <1>2, <1>7, <1>9, <1>10, <1>11 DEF Next, EnvelopeStep, Submit, Accept, Abort, Lapse,
     PushStep, HandleAck, ServerStep, Register, TurnAway, Announce, Write, Notice, Exit, Leave, Sweep,
     TokenExpires, ServerRestart, vars, transportVars, passVars

(* No catch-up pass hangs on a deliver call that has returned, and no two  *)
(* passes wait for the same call: drainBacklog always has something that   *)
(* will resume it.                                                         *)
THEOREM PassesAwaitRunningCalls == Spec => []PassAwaitsRunningCall
<1>1. Init => PassInv
  BY DEF Init, TransportInit, PassInv
<1>2. TypeOK /\ PassInv => PassAwaitsRunningCall
  BY NamesAssumption, SMT DEF TypeOK, TransportTypeOK, Envelope, PassInv, PassAwaitsRunningCall
<1> QED
  BY <1>1, <1>2, PassInvStep, TypeCorrect, PTL DEF Spec

-----------------------------------------------------------------------------
(* Every transaction that has counted holds a connection of the pool, and  *)
(* counted fewer rows than the cap: rows and open transactions together    *)
(* stay within the bound.                                                  *)
Counted == InPhase("counted")

QueueInv == Cardinality(Live) + Cardinality(Counted) <= MaxQueuedPerRecipient + PoolConns - 1

LEMMA QueueSizes ==
  ASSUME NEW S \in SUBSET Envelope
  PROVE  /\ IsFiniteSet(S)
         /\ Cardinality(S) \in Nat
         /\ \A T \in SUBSET S : Cardinality(T) <= Cardinality(S)
<1>1. IsFiniteSet(Envelope)
  BY FS_Interval, NamesAssumption, SMT DEF Envelope
<1>2. IsFiniteSet(S)
  BY <1>1, FS_Subset
<1> QED
  BY <1>2, FS_CardinalityType, FS_Subset

(* Nothing new in the queue and no new transaction. *)
LEMMA QueueShrinks ==
  ASSUME StoreTypeOK, QueueInv, Live' \subseteq Live, Counted' \subseteq Counted
  PROVE  QueueInv'
<1>1. Live \in SUBSET Envelope /\ Counted \in SUBSET Envelope
  BY DEF StoreTypeOK, Live, Counted, InPhase
<1>2. PICK l \in SUBSET Envelope, m \in SUBSET Envelope : l = Live' /\ m = Counted'
  BY <1>1
<1>3. /\ Cardinality(l) <= Cardinality(Live) /\ Cardinality(m) <= Cardinality(Counted)
      /\ {Cardinality(l), Cardinality(m), Cardinality(Live), Cardinality(Counted)} \subseteq Nat
  BY <1>1, <1>2, QueueSizes
<1> QED
  BY <1>2, <1>3, StoreAssumption, SMT DEF QueueInv

LEMMA BeginStoreQueue ==
  ASSUME StoreTypeOK, QueueInv, NEW e \in Envelope, BeginStore(e)
  PROVE  QueueInv'
<1>1. Live \in SUBSET Envelope /\ Counted \in SUBSET Envelope /\ Live' = Live
  BY DEF StoreTypeOK, Live, Counted, InPhase, BeginStore
<1>2. CASE Cardinality(Live) >= MaxQueuedPerRecipient
  <2>1. Counted' \subseteq Counted
    BY <1>2 DEF StoreTypeOK, Counted, InPhase, BeginStore
  <2> QED
    BY <2>1, <1>1, QueueShrinks
<1>3. CASE ~(Cardinality(Live) >= MaxQueuedPerRecipient)
  <2>1. Counted' = Counted \cup {e} /\ e \notin Counted
    BY <1>3 DEF StoreTypeOK, Counted, InPhase, BeginStore
  <2>2. IsFiniteSet(Counted) /\ Cardinality(Counted) \in Nat /\ Cardinality(Live) \in Nat
    BY <1>1, QueueSizes
  <2>3. Cardinality(Counted \cup {e}) = Cardinality(Counted) + 1
    BY <2>1, <2>2, FS_AddElement
  <2>4. Cardinality(Counted) < PoolConns
    BY DEF BeginStore, Counted
  <2> QED
    BY <1>1, <1>3, <2>1, <2>2, <2>3, <2>4, StoreAssumption, SMT DEF QueueInv
<1> QED
  BY <1>2, <1>3

LEMMA CommitStoreQueue ==
  ASSUME StoreTypeOK, QueueInv, NEW e \in Envelope, CommitStore(e)
  PROVE  QueueInv'
<1>1. Live \in SUBSET Envelope /\ Counted \in SUBSET Envelope /\ e \in Counted
  BY DEF StoreTypeOK, Live, Counted, InPhase, CommitStore
<1>2. Live' \subseteq Live \cup {e} /\ Counted' = Counted \ {e}
  BY DEF StoreTypeOK, Live, Counted, InPhase, CommitStore
<1>3. /\ IsFiniteSet(Live) /\ IsFiniteSet(Counted)
      /\ Cardinality(Live) \in Nat /\ Cardinality(Counted) \in Nat
  BY <1>1, QueueSizes
<1>4. Cardinality(Counted \ {e}) = Cardinality(Counted) - 1
  BY <1>1, <1>3, FS_RemoveElement
<1>5. /\ Cardinality(Live \cup {e}) <= Cardinality(Live) + 1
      /\ Cardinality(Live \cup {e}) \in Nat
  <2>1. Cardinality(Live \cup {e}) = IF e \in Live THEN Cardinality(Live) ELSE Cardinality(Live) + 1
    BY <1>3, FS_AddElement
  <2> QED
    BY <1>3, <2>1, SMT
<1>6. PICK l \in SUBSET (Live \cup {e}) : l = Live'
  BY <1>2
<1>7. Cardinality(l) <= Cardinality(Live \cup {e}) /\ Cardinality(l) \in Nat
  <2>1. Live \cup {e} \in SUBSET Envelope
    BY <1>1
  <2> QED
    BY <2>1, QueueSizes
<1> QED
  BY <1>2, <1>3, <1>4, <1>5, <1>6, <1>7, StoreAssumption, SMT DEF QueueInv

LEMMA QueueInvStep == StoreTypeOK /\ QueueInv /\ [Next]_vars => QueueInv'
<1> SUFFICES ASSUME StoreTypeOK, QueueInv, [Next]_vars PROVE QueueInv'
  OBVIOUS
<1>1. ASSUME UNCHANGED storeVars PROVE QueueInv'
  <2>1. Live' = Live /\ Counted' = Counted
    BY <1>1 DEF storeVars, Live, Counted, InPhase
  <2> QED
    BY <2>1, QueueShrinks
<1>2. ASSUME NEW ids, AcknowledgeEnvelopes(ids) PROVE QueueInv'
  <2>1. Live' \subseteq Live /\ Counted' = Counted
    BY <1>2 DEF AcknowledgeEnvelopes, Live, Counted, InPhase
  <2> QED
    BY <2>1, QueueShrinks
<1>3. ASSUME NEW e \in Envelope, EnvelopeStep(e) PROVE QueueInv'
  <2>1. CASE Submit(e)
    BY <2>1, BeginStoreQueue DEF Submit
  <2>2. CASE Accept(e)
    BY <2>2, CommitStoreQueue DEF Accept
  <2>3. CASE Abort(e) \/ Lapse(e)
    <3>1. Live' \subseteq Live /\ Counted' \subseteq Counted
      BY <2>3 DEF Abort, AbortStore, Lapse, Expire, Live, Counted, InPhase, StoreTypeOK
    <3> QED
      BY <3>1, QueueShrinks
  <2>4. CASE HandleAck(e)
    BY <2>4, <1>2 DEF HandleAck
  <2>5. CASE PushStep(e) \/ Resolve(e) \/ Throw(e) \/ AckReturns(e)
    BY <2>5, <1>1 DEF PushStep, Resolve, Throw, AckReturns
  <2> QED
    BY <1>3, <2>1, <2>2, <2>3, <2>4, <2>5 DEF EnvelopeStep
<1>4. ASSUME NEW c \in Conn, ServerStep(c) PROVE QueueInv'
  BY <1>1, <1>4 DEF ServerStep, Register, TurnAway, Announce, Write, Notice, Exit, Leave
<1>5. ASSUME NEW c \in Conn, ClientStep(c) PROVE QueueInv'
  BY <1>1, <1>5 DEF ClientStep, Dial, Opened, Disconnect, ReceiveReady, ReceiveEnvelope,
     FetchEnvelopes, FetchFails, DrainStep
<1>6. CASE Sweep \/ ServerRestart
  <2>1. Live' \subseteq Live /\ Counted' \subseteq Counted
    BY <1>6 DEF Sweep, SweepEnvelopes, ServerRestart, Live, Counted, InPhase
  <2> QED
    BY <2>1, QueueShrinks
<1>7. CASE CloseTransport \/ TokenExpires \/ ClientRestart
  BY <1>1, <1>7 DEF CloseTransport, TokenExpires, ClientRestart
<1>8. CASE UNCHANGED vars
  BY <1>1, <1>8 DEF vars
<1> QED
  BY <1>3, <1>4, <1>5, <1>6, <1>7, <1>8 DEF Next

LEMMA QueueInvInit == Init => QueueInv
<1> SUFFICES ASSUME Init PROVE QueueInv
  OBVIOUS
<1>1. Live = {} /\ Counted = {}
  BY DEF Init, StoreInit, Live, Counted, InPhase
<1> QED
  BY <1>1, FS_EmptySet, StoreAssumption, SMT DEF QueueInv

(* The count of StoreEnvelope is not locked, so submissions that run at    *)
(* once can pass the cap together; the queue exceeds it by at most one row *)
(* for each further connection of the pool, whatever is acknowledged,      *)
(* swept or rolled back in between.                                        *)
THEOREM OvershootIsBounded == Spec => []QueueOvershootBounded
<1>1. StoreTypeOK /\ QueueInv => QueueOvershootBounded
  <2> SUFFICES ASSUME StoreTypeOK, QueueInv PROVE QueueOvershootBounded
    OBVIOUS
  <2>1. Live \in SUBSET Envelope /\ Counted \in SUBSET Envelope
    BY DEF StoreTypeOK, Live, Counted, InPhase
  <2>2. Cardinality(Live) \in Nat /\ Cardinality(Counted) \in Nat
    BY <2>1, QueueSizes
  <2> QED
    BY <2>2, StoreAssumption, SMT DEF QueueInv, QueueOvershootBounded
<1>2. TypeOK => StoreTypeOK
  BY DEF TypeOK
<1> QED
  BY <1>1, <1>2, TypeCorrect, QueueInvInit, QueueInvStep, PTL DEF Spec
=============================================================================

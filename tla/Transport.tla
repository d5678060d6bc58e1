----------------------------- MODULE Transport -----------------------------
(***************************************************************************)
(* The receiving half of the client, web/src/lib/transport/socket.ts: one  *)
(* Transport, its sockets one after the other, the catch-up passes it      *)
(* starts, and the deliver calls that the passes and the live pushes run   *)
(* concurrently.  The steps are those of the event loop: what the code     *)
(* does between two awaits is one action.                                  *)
(*                                                                         *)
(* The module is open: the server decides when a frame or an answer is     *)
(* there.  Delivery supplies it.  The backoff delay is left out, a retry   *)
(* timer may fire at any time.                                             *)
(***************************************************************************)
EXTENDS Names

CONSTANTS
  MaxDrainPages,   \* socket.ts: 100
  MaxRemembered    \* socket.ts: MAX_REMEMBERED_IDS, 1000

ASSUME TransportAssumption ==
  /\ MaxDrainPages \in Nat \ {0}
  /\ MaxRemembered \in Nat \ {0}

VARIABLES
  sock,      \* the socket of each connection, as the client sees it
  retry,     \* a reconnection is scheduled (retryHandle)
  stopped,   \* close() was called
  job,       \* the deliver call of each envelope: inFlight holds the busy ones
  handled,   \* the FIFO of remembered ids
  drain,     \* where the catch-up pass of each connection is
  page,      \* its page number
  batch,     \* what it has not yet delivered of the page
  awaits,    \* the envelope whose deliver call it awaits, or 0
  progress,  \* passes whose current page had an envelope acknowledged
  ackReq,    \* acknowledge requests the server has not processed
  ackResp    \* answers to them that have not reached the client

passVars == <<drain, page, batch, awaits, progress>>
transportVars == <<sock, retry, stopped, job, handled, passVars, ackReq, ackResp>>

SockState == {"unused", "connecting", "authenticating", "ready", "closed"}
JobState == {"idle", "handling", "acking"}
DrainState == {"off", "fetch", "page", "deliver"}

TransportTypeOK ==
  /\ sock \in [Conn -> SockState]
  /\ retry \in BOOLEAN
  /\ stopped \in BOOLEAN
  /\ job \in [Envelope -> JobState]
  /\ handled \in Seq(Envelope)
  /\ Len(handled) <= MaxRemembered
  /\ drain \in [Conn -> DrainState]
  /\ page \in [Conn -> 0 .. MaxDrainPages]
  /\ batch \in [Conn -> SUBSET Envelope]
  /\ awaits \in [Conn -> 0 .. MaxEnvelopes]
  /\ progress \in SUBSET Conn
  /\ ackReq \in SUBSET Envelope
  /\ ackResp \in SUBSET Envelope

(* A new Transport on which connect() is about to open the first socket. *)
TransportInit ==
  /\ sock = [c \in Conn |-> "unused"]
  /\ retry = TRUE
  /\ stopped = FALSE
  /\ job = [e \in Envelope |-> "idle"]
  /\ handled = <<>>
  /\ drain = [c \in Conn |-> "off"]
  /\ page = [c \in Conn |-> 0]
  /\ batch = [c \in Conn |-> {}]
  /\ awaits = [c \in Conn |-> 0]
  /\ progress = {}
  /\ ackReq = {}
  /\ ackResp = {}

Connected(c) == sock[c] \in {"connecting", "authenticating", "ready"}

Handled(e) == \E i \in 1 .. Len(handled) : handled[i] = e

(* Mutants: deliver consults only one of its two sets. *)
DuplicateIgnoresInFlight(e) == Handled(e)
(* The test at the top of deliver. *)
Duplicate(e) == job[e] # "idle" \/ Handled(e)

-----------------------------------------------------------------------------
(* connect(), or the retry timer: open().  At most one socket is current. *)
Open(c) ==
  /\ retry
  /\ ~stopped
  /\ \A d \in Conn : ~Connected(d)
  /\ sock' = [sock EXCEPT ![c] = "connecting"]
  /\ retry' = FALSE
  /\ UNCHANGED <<stopped, job, handled, passVars, ackReq, ackResp>>

(* onopen sends the auth frame. *)
OnOpen(c) ==
  /\ sock[c] = "connecting"
  /\ sock' = [sock EXCEPT ![c] = "authenticating"]
  /\ UNCHANGED <<retry, stopped, job, handled, passVars, ackReq, ackResp>>

(* onclose, and scheduleRetry unless the transport was closed. *)
OnClose(c) ==
  /\ Connected(c)
  /\ sock' = [sock EXCEPT ![c] = "closed"]
  /\ retry' = ~stopped
  /\ UNCHANGED <<stopped, job, handled, passVars, ackReq, ackResp>>

(* close(): passes and deliver calls that are under way go on. *)
Close ==
  /\ ~stopped
  /\ stopped' = TRUE
  /\ retry' = FALSE
  /\ sock' = [c \in Conn |-> IF Connected(c) THEN "closed" ELSE sock[c]]
  /\ UNCHANGED <<job, handled, passVars, ackReq, ackResp>>

(* Mutant: no catch-up pass after a handshake. *)
OnReadyWithoutPass(c) ==
  /\ sock[c] = "authenticating"
  /\ sock' = [sock EXCEPT ![c] = "ready"]
  /\ UNCHANGED <<retry, stopped, job, handled, passVars, ackReq, ackResp>>

(* handleMessage, "ready": the status changes and drainBacklog starts. *)
OnReady(c) ==
  /\ sock[c] = "authenticating"
  /\ sock' = [sock EXCEPT ![c] = "ready"]
  /\ drain' = [drain EXCEPT ![c] = "fetch"]
  /\ UNCHANGED <<retry, stopped, job, handled, page, batch, awaits, progress, ackReq, ackResp>>

(* Mutant: acknowledging on receipt. *)
OnEnvelopeAcksFirst(c, e) ==
  /\ sock[c] \in {"authenticating", "ready"}
  /\ job' = IF Duplicate(e) THEN job ELSE [job EXCEPT ![e] = "handling"]
  /\ ackReq' = ackReq \cup {e}
  /\ UNCHANGED <<sock, retry, stopped, handled, passVars, ackResp>>

(* handleMessage, "envelope": deliver runs up to its first await. *)
OnEnvelope(c, e) ==
  /\ sock[c] \in {"authenticating", "ready"}
  /\ job' = IF Duplicate(e) THEN job ELSE [job EXCEPT ![e] = "handling"]
  /\ UNCHANGED <<sock, retry, stopped, handled, passVars, ackReq, ackResp>>

(* drainBacklog returns. *)
EndPass(c) ==
  /\ drain' = [drain EXCEPT ![c] = "off"]
  /\ page' = [page EXCEPT ![c] = 0]
  /\ progress' = progress \ {c}
  /\ UNCHANGED <<batch, awaits>>

(* A page arrives; an empty one ends the pass. *)
DrainFetch(c, fetched) ==
  /\ drain[c] = "fetch"
  /\ \/ /\ fetched = {}
        /\ EndPass(c)
     \/ /\ fetched # {}
        /\ drain' = [drain EXCEPT ![c] = "page"]
        /\ batch' = [batch EXCEPT ![c] = fetched]
        /\ progress' = progress \ {c}
        /\ UNCHANGED <<page, awaits>>
  /\ UNCHANGED <<sock, retry, stopped, job, handled, ackReq, ackResp>>

(* fetchEnvelopes throws: the pass is over. *)
DrainFetchFails(c) ==
  /\ drain[c] = "fetch"
  /\ EndPass(c)
  /\ UNCHANGED <<sock, retry, stopped, job, handled, ackReq, ackResp>>

(* The next envelope of the page, oldest first.  A duplicate returns false *)
(* at once; otherwise the pass waits for its deliver call.                 *)
DrainNext(c) ==
  /\ drain[c] = "page"
  /\ \E e \in batch[c] :
       /\ \A f \in batch[c] : e <= f
       /\ batch' = [batch EXCEPT ![c] = @ \ {e}]
       /\ \/ /\ Duplicate(e)
             /\ UNCHANGED <<drain, awaits, job>>
          \/ /\ ~Duplicate(e)
             /\ drain' = [drain EXCEPT ![c] = "deliver"]
             /\ awaits' = [awaits EXCEPT ![c] = e]
             /\ job' = [job EXCEPT ![e] = "handling"]
  /\ UNCHANGED <<sock, retry, stopped, handled, page, progress, ackReq, ackResp>>

(* Mutant: the loop runs until a page is empty. *)
DrainPageEndUntilEmpty(c) ==
  /\ drain[c] = "page"
  /\ batch[c] = {}
  /\ drain' = [drain EXCEPT ![c] = "fetch"]
  /\ UNCHANGED <<page, batch, awaits, progress>>
  /\ UNCHANGED <<sock, retry, stopped, job, handled, ackReq, ackResp>>

(* The end of a page: go on only if it made progress and pages are left. *)
DrainPageEnd(c) ==
  /\ drain[c] = "page"
  /\ batch[c] = {}
  /\ \/ /\ c \in progress
        /\ page[c] + 1 < MaxDrainPages
        /\ drain' = [drain EXCEPT ![c] = "fetch"]
        /\ page' = [page EXCEPT ![c] = @ + 1]
        /\ UNCHANGED <<batch, awaits, progress>>
     \/ /\ c \notin progress \/ page[c] + 1 >= MaxDrainPages
        /\ EndPass(c)
  /\ UNCHANGED <<sock, retry, stopped, job, handled, ackReq, ackResp>>

-----------------------------------------------------------------------------
(* deliver returns: the pass that awaits this call, if any, resumes. *)
Returned(e, acknowledged) ==
  LET waiting == {c \in Conn : awaits[c] = e}
  IN  /\ drain' = [c \in Conn |-> IF c \in waiting THEN "page" ELSE drain[c]]
      /\ awaits' = [c \in Conn |-> IF c \in waiting THEN 0 ELSE awaits[c]]
      /\ progress' = IF acknowledged THEN progress \cup waiting ELSE progress
      /\ UNCHANGED <<page, batch>>

(* Mutants: no bound; nothing remembered. *)
RememberForever(e) == handled' = Append(handled, e)
RememberNothing(e) == UNCHANGED handled

(* remember: a bounded FIFO. *)
Remember(e) ==
  LET h == Append(handled, e)
  IN  handled' = IF Len(h) > MaxRemembered THEN Tail(h) ELSE h

(* onEnvelope resolves and the acknowledgement is sent. *)
HandlerResolves(e) ==
  /\ job[e] = "handling"
  /\ job' = [job EXCEPT ![e] = "acking"]
  /\ ackReq' = ackReq \cup {e}
  /\ UNCHANGED <<sock, retry, stopped, handled, passVars, ackResp>>

(* onEnvelope throws: the id is released and nothing is acknowledged. *)
HandlerThrows(e) ==
  /\ job[e] = "handling"
  /\ job' = [job EXCEPT ![e] = "idle"]
  /\ Returned(e, FALSE)
  /\ UNCHANGED <<sock, retry, stopped, handled, ackReq, ackResp>>

AckSucceeds(e) ==
  /\ job[e] = "acking"
  /\ e \in ackResp
  /\ job' = [job EXCEPT ![e] = "idle"]
  /\ ackResp' = ackResp \ {e}
  /\ Remember(e)
  /\ Returned(e, TRUE)
  /\ UNCHANGED <<sock, retry, stopped, ackReq>>

(* The request or its answer is lost, or the server refused it.  A request *)
(* the client has given up on may still be processed later.                *)
AckFails(e) ==
  /\ job[e] = "acking"
  /\ job' = [job EXCEPT ![e] = "idle"]
  /\ ackResp' = ackResp \ {e}
  /\ ackReq' \in {ackReq, ackReq \ {e}}
  /\ Remember(e)
  /\ Returned(e, FALSE)
  /\ UNCHANGED <<sock, retry, stopped>>

(* The process ends and a new one builds a new Transport.  Requests it had *)
(* sent may still arrive.                                                  *)
TransportRestart ==
  /\ sock' = [c \in Conn |-> IF sock[c] = "unused" THEN "unused" ELSE "closed"]
  /\ retry' = TRUE
  /\ stopped' = FALSE
  /\ job' = [e \in Envelope |-> "idle"]
  /\ handled' = <<>>
  /\ drain' = [c \in Conn |-> "off"]
  /\ page' = [c \in Conn |-> 0]
  /\ batch' = [c \in Conn |-> {}]
  /\ awaits' = [c \in Conn |-> 0]
  /\ progress' = {}
  /\ ackReq' \in SUBSET ackReq
  /\ ackResp' = {}
=============================================================================

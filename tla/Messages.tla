------------------------------ MODULE Messages ------------------------------
(***************************************************************************)
(* A conversation between two clients as their engines and stores run it   *)
(* (web/src/lib/client/chat-client.ts, web/src/lib/store/chat.ts): one     *)
(* writes messages and files, edits and retracts them, the other receives, *)
(* reacts and reads.  The code is the same on both sides; one direction    *)
(* has every operation.                                                    *)
(*                                                                         *)
(* Sealing, queueing and opening are those of modules Sessions and         *)
(* Delivery: a content posted is handed over once, in any order, while     *)
(* other handlers run, or it is lost.  Calls interleave at every await on  *)
(* storage or the network.                                                 *)
(***************************************************************************)
EXTENDS Attachment, ChatStore

CONSTANTS
  Author, Reader,
  FileSize,     \* bytes of a file; with MaxChunkBytes, how many chunks
  MaxMessages,  \* bound: messages written
  MaxCalls,     \* bound: calls the two users make, where a message counts twice
  MaxTasks,     \* bound: calls under way at a time
  Faults,       \* the kinds of fault this instance injects
  MaxFaults     \* bound: how many of them in a behaviour

FaultKind == {"request", "lose", "crash"}

ASSUME MessagesAssumption ==
  /\ Author # Reader
  /\ {FileSize, MaxMessages, MaxCalls, MaxTasks, MaxFaults} \subseteq Nat
  /\ Faults \subseteq FaultKind

Client == {Author, Reader}
Peer(c) == IF c = Author THEN Reader ELSE Author
Original == 1

VARIABLES
  history,     \* the stored messages of each client, by id
  blobs,       \* the stored files of each client, by id
  assemblers,  \* ChatClient.assemblers, the reader's
  unread,      \* the reader's unread count
  tasks,       \* calls under way
  wire,        \* contents in flight to each client, with their numbers of copies
  written,     \* messages written so far
  calls,       \* calls so far
  faults,      \* faults so far
  listed,      \* messages some markRead of the reader has listed
  causes       \* what went on that may leave the two sides different

vars == <<history, blobs, assemblers, unread, tasks, wire, written, calls, faults, listed, causes>>
stores == <<history, blobs, assemblers, unread>>

Init ==
  /\ history = [c \in Client |-> EmptyHistory]
  /\ blobs = [c \in Client |-> EmptyHistory]
  /\ assemblers = EmptyHistory
  /\ unread = 0
  /\ tasks = {}
  /\ wire = [c \in Client |-> EmptyHistory]
  /\ written = 0
  /\ calls = 0
  /\ faults = 0
  /\ listed = {}
  /\ causes = {}

Fault(kind) ==
  /\ kind \in Faults
  /\ faults < MaxFaults
  /\ faults' = faults + 1

(* The bytes of the file with this id. *)
File(id) == [i \in 1 .. FileSize |-> <<id, i>>]

-----------------------------------------------------------------------------
(* A call: send is what it has yet to post, in order, copy a message and   *)
(* count an unread count it has read; no tells the calls apart.            *)
Task(c, op, id, step, send) ==
  [no |-> CHOOSE n \in 1 .. MaxTasks : \A t \in tasks : t.no # n, client |-> c, op |-> op, id |-> id, step |-> step, send |-> send, copy |-> {}, count |-> 0]

Free == Cardinality(tasks) < MaxTasks

MayWrite == written < MaxMessages /\ calls + written + 1 < MaxCalls

Begin(t) ==
  /\ calls + written < MaxCalls /\ Free
  /\ calls' = calls + 1
  /\ tasks' = tasks \cup {t}

Becomes(t, u) == tasks' = (tasks \ {t}) \cup {u}
Goes(t, step) == Becomes(t, [t EXCEPT !.step = step])
Ends(t) == tasks' = tasks \ {t}

Update(c, h) == history' = [history EXCEPT ![c] = h]

Text(id, m) == [type |-> "text", id |-> id, body |-> m.body]

(* Mutant: every receipt says read. *)
ReceiptRead(ids, kind) == [type |-> "receipt", ids |-> ids, kind |-> "read"]

Receipt(ids, kind) == [type |-> "receipt", ids |-> ids, kind |-> kind]

Outgoing(status) == [direction |-> "outgoing", body |-> Original, status |-> status]

(* sendText: the message is stored as pending before it is sent. *)
SendText ==
  LET id == written + 1
      m == Outgoing("pending")
  IN  /\ MayWrite
      /\ written' = id
      /\ Begin(Task(Author, "send", id, "posting", <<Text(id, m)>>))
      /\ Update(Author, AppendMessage(history[Author], id, m))
      /\ UNCHANGED <<blobs, assemblers, unread, wire, faults, listed, causes>>

(* sendAttachment: the file and the message are stored, then the chunks    *)
(* are sent one after the other.                                           *)
SendAttachment ==
  LET id == written + 1
      m == Over([attachment |-> id], Outgoing("pending"))
  IN  /\ MayWrite
      /\ written' = id
      /\ Begin(Task(Author, "send", id, "posting", ChunkAttachment(id, File(id))))
      /\ blobs' = [blobs EXCEPT ![Author] = Put(@, id, File(id))]
      /\ Update(Author, AppendMessage(history[Author], id, m))
      /\ UNCHANGED <<assemblers, unread, wire, faults, listed, causes>>

(* retry, offered for a message marked failed: the history is read ... *)
Retry(id) ==
  /\ id \in DOMAIN history[Author]
  /\ history[Author][id].status = "failed" /\ ~IsDeleted(history[Author][id])
  /\ Begin([Task(Author, "send", id, "retrying", <<>>) EXCEPT !.copy = {history[Author][id]}])
  /\ UNCHANGED <<stores, wire, written, faults, listed, causes>>

(* ... the message is pending again, and goes out as a text. *)
RetryPending(t) ==
  /\ t.step = "retrying"
  /\ Update(t.client, SetMessageStatus(history[t.client], t.id, "pending"))
  /\ \E m \in t.copy :
       Becomes(t, [t EXCEPT !.step = "posting", !.copy = {}, !.send = <<Text(t.id, m)>>])
  /\ UNCHANGED <<blobs, assemblers, unread, wire, written, calls, faults, listed, causes>>

(* deleteMessage *)
Delete(id) ==
  /\ id \in DOMAIN history[Author]
  /\ history[Author][id].status # "failed" /\ ~IsDeleted(history[Author][id])
  /\ Begin(Task(Author, "signal", id, "posting", <<[type |-> "delete", id |-> id]>>))
  /\ Update(Author, MarkDeleted(history[Author], id))
  /\ UNCHANGED <<blobs, assemblers, unread, wire, written, faults, listed, causes>>

(* editMessage reads the message; StoreCopy writes it back changed. *)
Edit(id) ==
  LET body == calls + Original + 1
  IN  /\ id \in DOMAIN history[Author]
      /\ history[Author][id].status # "failed" /\ ~IsDeleted(history[Author][id])
      /\ ~HasFile(history[Author][id])
      /\ Begin([Task(Author, "signal", id, "storing", <<[type |-> "edit", id |-> id, body |-> body]>>)
                  EXCEPT !.copy = {Over([body |-> body], history[Author][id])}])
      /\ UNCHANGED <<stores, wire, written, faults, listed, causes>>

(* react, on or off. *)
React(c, id) ==
  LET active == c \notin Reactions(history[c][id])
  IN  /\ id \in DOMAIN history[c] /\ ~IsDeleted(history[c][id])
      /\ Begin(Task(c, "signal", id, "posting",
                    <<[type |-> "reaction", id |-> id, active |-> active]>>))
      /\ Update(c, SetReaction(history[c], id, c, active))
      /\ UNCHANGED <<blobs, assemblers, unread, wire, written, faults, listed, causes>>

(* A message that came in is not counted yet. *)
Counting == \E t \in tasks : t.step \in {"counting", "counted"}

(* markRead lists what came in ... *)
MarkRead ==
  LET ids == DOMAIN history[Reader]
  IN  /\ Begin(Task(Reader, "signal", 0, "clearing", IF ids = {} THEN <<>> ELSE <<Receipt(ids, "read")>>))
      /\ listed' = listed \cup ids
      /\ causes' = IF Counting THEN causes \cup {"overlap"} ELSE causes
      /\ UNCHANGED <<stores, wire, written, faults>>

(* ... clears the count, and then tells the author. *)
ClearUnread(t) ==
  /\ t.step = "clearing"
  /\ unread' = 0
  /\ IF t.send = <<>> THEN Ends(t) ELSE Goes(t, "posting")
  /\ causes' = IF Counting \/ ~DOMAIN history[Reader] \subseteq listed
                 THEN causes \cup {"overlap"} ELSE causes
  /\ UNCHANGED <<history, blobs, assemblers, wire, written, calls, faults, listed>>

-----------------------------------------------------------------------------
(* The wire to a client, with one copy of x more and with one copy less. *)
Copies(w, x) == IF x \in DOMAIN w THEN w[x] ELSE 0
WithCopy(w, x) == Put(w, x, Copies(w, x) + 1)
LessCopy(w, x) == IF Copies(w, x) > 1 THEN Put(w, x, w[x] - 1) ELSE Without(w, x)

Arrives(c, content) == wire' = [wire EXCEPT ![c] = WithCopy(@, content)]

(* sendContent succeeds. *)
Post(t) ==
  /\ t.step = "posting"
  /\ Arrives(Peer(t.client), Head(t.send))
  /\ IF Len(t.send) > 1 THEN Becomes(t, [t EXCEPT !.send = Tail(@)])
     ELSE IF t.op = "send" THEN Goes(t, "sent")
     ELSE Ends(t)
  /\ UNCHANGED <<stores, written, calls, faults, listed, causes>>

(* Mutant: a failure is reported and the message left as it is. *)
PostFailsSilently(t) ==
  /\ t.step = "posting"
  /\ Fault("request")
  /\ UNCHANGED wire
  /\ Ends(t)
  /\ causes' = causes \cup {"failed"}
  /\ UNCHANGED <<stores, written, calls, listed>>

(* Fault: sendContent throws, whether or not the content was queued. *)
PostFails(t) ==
  /\ t.step = "posting"
  /\ Fault("request")
  /\ Arrives(Peer(t.client), Head(t.send)) \/ UNCHANGED wire
  /\ IF t.op = "send" THEN Goes(t, "failed") ELSE Ends(t)
  /\ causes' = causes \cup {"failed"}
  /\ UNCHANGED <<stores, written, calls, listed>>

(* The message takes the status its sending came to. *)
PatchStatus(t) ==
  /\ t.step \in {"sent", "failed"}
  /\ Update(t.client, SetMessageStatus(history[t.client], t.id, t.step))
  /\ Ends(t)
  /\ UNCHANGED <<blobs, assemblers, unread, wire, written, calls, faults, listed, causes>>

(* A copy read earlier is appended: an edit, or a file that is whole.  It  *)
(* is stale when the message changed since.                                *)
StoreCopy(t) ==
  /\ t.step = "storing"
  /\ \E m \in t.copy :
       LET h == history[t.client]
       IN  /\ Update(t.client, AppendMessage(h, t.id, m))
           /\ causes' = IF t.id \notin DOMAIN h THEN causes
                        ELSE IF t.op = "file" THEN causes \cup {"repeat"}
                        ELSE IF Over([body |-> m.body], h[t.id]) # m THEN causes \cup {"stale"}
                        ELSE causes
  /\ IF t.op = "file" THEN Goes(t, "counting")
     ELSE IF t.send = <<>> THEN Ends(t)
     ELSE Becomes(t, [t EXCEPT !.step = "posting", !.copy = {}])
  /\ UNCHANGED <<blobs, assemblers, unread, wire, written, calls, faults, listed>>

(* incrementUnread reads the count outside the write chain ... *)
ReadUnread(t) ==
  /\ t.step = "counting"
  /\ Becomes(t, [t EXCEPT !.step = "counted", !.count = unread])
  /\ UNCHANGED <<stores, wire, written, calls, faults, listed, causes>>

(* Mutant: it writes back what it read. *)
IncrementUnreadForgets(t) ==
  /\ t.step = "counted"
  /\ unread' = t.count
  /\ Goes(t, "posting")
  /\ UNCHANGED <<history, blobs, assemblers, wire, written, calls, faults, listed, causes>>

(* ... and writes one more than it read. *)
IncrementUnread(t) ==
  /\ t.step = "counted"
  /\ unread' = t.count + 1
  /\ causes' = IF unread # t.count THEN causes \cup {"overlap"} ELSE causes
  /\ Goes(t, "posting")
  /\ UNCHANGED <<history, blobs, assemblers, wire, written, calls, faults, listed>>
-----------------------------------------------------------------------------
(* handleEnvelope for content x of client c: what applyContent does up to  *)
(* its first await that another call can come between.                     *)
Takes(c, x) ==
  /\ Free
  /\ wire' = [wire EXCEPT ![c] = LessCopy(@, x)]

(* Another content about the same message is being posted, in flight or    *)
(* being applied: the two may take effect in either order.                 *)
Overtaken(c, x) ==
  \/ \E y \in DOMAIN wire[c] : y # x /\ y.type # "receipt" /\ y.id = x.id
  \/ \E t \in tasks : t.id = x.id /\ (t.step = "storing" \/ (t.step = "posting" /\ t.op \in {"send", "signal"}))

Incoming(body) == [direction |-> "incoming", body |-> body, status |-> "delivered"]

(* Mutant: the receipt goes out in place of the append. *)
ApplyTextReceiptOnly(c, x) ==
  /\ x.type = "text"
  /\ Takes(c, x)
  /\ tasks' = tasks \cup {[Task(c, "handle", x.id, "posting", <<Receipt({x.id}, "delivered")>>)
                             EXCEPT !.copy = {Incoming(x.body)}]}
  /\ UNCHANGED <<stores, written, calls, faults, listed, causes>>

(* A text is appended, then counted, then acknowledged. *)
ApplyText(c, x) ==
  /\ x.type = "text"
  /\ Takes(c, x)
  /\ Update(c, AppendMessage(history[c], x.id, Incoming(x.body)))
  /\ tasks' = tasks \cup {Task(c, "handle", x.id, "counting", <<Receipt({x.id}, "delivered")>>)}
  /\ causes' = IF x.id \in DOMAIN history[c] THEN causes \cup {"repeat"} ELSE causes
  /\ UNCHANGED <<blobs, assemblers, unread, written, calls, faults, listed>>

(* A receipt sets the status of the messages it names, one by one. *)
ApplyReceipt(c, x) ==
  /\ x.type = "receipt"
  /\ Takes(c, x)
  /\ tasks' = tasks \cup {Task(c, "handle", 0, "confirming", <<x>>)}
  /\ UNCHANGED <<stores, written, calls, faults, listed, causes>>

Confirm(t) ==
  LET x == Head(t.send)
  IN  /\ t.step = "confirming"
      /\ \E id \in x.ids :
           /\ Update(t.client, SetMessageStatus(history[t.client], id, x.kind))
           /\ IF x.ids = {id} THEN Ends(t)
              ELSE Becomes(t, [t EXCEPT !.send = <<[x EXCEPT !.ids = @ \ {id}]>>])
      /\ UNCHANGED <<blobs, assemblers, unread, wire, written, calls, faults, listed, causes>>

(* Mutant: the reaction is booked on the receiving account. *)
PatchedOwn(c, x) ==
  IF x.type = "delete" THEN MarkDeleted(history[c], x.id)
  ELSE SetReaction(history[c], x.id, c, x.active)

(* A deletion or a reaction patches its message, if that is there. *)
Patched(c, x) ==
  IF x.type = "delete" THEN MarkDeleted(history[c], x.id)
  ELSE SetReaction(history[c], x.id, Peer(c), x.active)

ApplyPatch(c, x) ==
  /\ x.type \in {"delete", "reaction"}
  /\ Takes(c, x)
  /\ Update(c, Patched(c, x))
  /\ causes' = IF x.id \in DOMAIN history[c] /\ ~Overtaken(c, x) THEN causes ELSE causes \cup {"overtaken"}
  /\ UNCHANGED <<blobs, assemblers, unread, tasks, written, calls, faults, listed>>

(* An edit reads its message, if that is there, and writes it later. *)
ApplyEdit(c, x) ==
  /\ x.type = "edit"
  /\ Takes(c, x)
  /\ IF x.id \in DOMAIN history[c]
       THEN /\ tasks' = tasks \cup {[Task(c, "handle", x.id, "storing", <<>>)
                                      EXCEPT !.copy = {Over([body |-> x.body], history[c][x.id])}]}
            /\ causes' = IF Overtaken(c, x) THEN causes \cup {"overtaken"} ELSE causes
       ELSE UNCHANGED tasks /\ causes' = causes \cup {"overtaken"}
  /\ UNCHANGED <<stores, written, calls, faults, listed>>

(* applyAttachmentChunk: a file that is whole is saved, and then its       *)
(* message appended.  An error leaves the assembler as it is.              *)
ApplyChunk(c, x) ==
  LET known == IF x.id \in DOMAIN assemblers THEN assemblers[x.id] ELSE NewAssembler
      a == Added(known, x)
  IN  /\ x.type = "attachment"
      /\ Takes(c, x)
      /\ IF Confused(known, x)
           THEN UNCHANGED <<assemblers, blobs, tasks>>
         ELSE IF ~IsWhole(a) \/ WrongSize(a)
           THEN assemblers' = Put(assemblers, x.id, a) /\ UNCHANGED <<blobs, tasks>>
         ELSE /\ assemblers' = [i \in DOMAIN assemblers \ {x.id} |-> assemblers[i]]
              /\ blobs' = [blobs EXCEPT ![c] = Put(@, x.id, Assembled(a))]
              /\ tasks' = tasks \cup
                   {[Task(c, "file", x.id, "storing", <<Receipt({x.id}, "delivered")>>) EXCEPT
                       !.copy = {Over([attachment |-> x.id], Incoming(IF a.caption THEN Original ELSE NoBody))}]}
      /\ UNCHANGED <<history, unread, written, calls, faults, listed, causes>>

-----------------------------------------------------------------------------
(* Fault: a content is never opened (module Sessions has why). *)
Lose(c) ==
  \E x \in DOMAIN wire[c] :
    /\ Fault("lose")
    /\ wire' = [wire EXCEPT ![c] = LessCopy(@, x)]
    /\ causes' = causes \cup {"lost"}
    /\ UNCHANGED <<stores, tasks, written, calls, listed>>

(* Fault: the page of client c is closed and opened again. *)
Crash(c) ==
  /\ Fault("crash")
  /\ tasks' = {t \in tasks : t.client # c}
  /\ assemblers' = IF c = Reader THEN EmptyHistory ELSE assemblers
  /\ causes' = causes \cup {"crash"}
  /\ UNCHANGED <<history, blobs, unread, wire, written, calls, listed>>

Handle(c, x) ==
  ApplyText(c, x) \/ ApplyReceipt(c, x) \/ ApplyPatch(c, x) \/ ApplyEdit(c, x) \/ ApplyChunk(c, x)

TaskStep(t) ==
  \/ RetryPending(t) \/ ClearUnread(t) \/ Post(t) \/ PatchStatus(t) \/ StoreCopy(t)
  \/ ReadUnread(t) \/ IncrementUnread(t) \/ Confirm(t)

Next ==
  \/ SendText \/ SendAttachment \/ MarkRead
  \/ \E id \in 1 .. MaxMessages : Retry(id) \/ Delete(id) \/ Edit(id) \/ \E c \in Client : React(c, id)
  \/ \E t \in tasks : TaskStep(t) \/ PostFails(t)
  \/ \E c \in Client : \E x \in DOMAIN wire[c] : Handle(c, x)
  \/ \E c \in Client : Lose(c) \/ Crash(c)

Spec == Init /\ [][Next]_vars

-----------------------------------------------------------------------------
Resting == tasks = {} /\ \A c \in Client : wire[c] = EmptyHistory

(* The author's "delivered" is true: acknowledge follows appendMessage, so *)
(* a message shown as delivered or read is in the reader's history, however*)
(* status patches, receipts and edits interleave.                          *)
DeliveredIsTrue ==
  \A id \in DOMAIN history[Author] :
    history[Author][id].status \in {"delivered", "read"} => id \in DOMAIN history[Reader]

(* ... and one shown as read has been listed by a markRead of the reader.  *)
ReadIsTrue ==
  \A id \in DOMAIN history[Author] :
    history[Author][id].status = "read" => id \in listed

(* No message stays pending once its calls are over: a failure is marked   *)
(* failed, so that it can be retried.  Only a page closed mid-way, or an   *)
(* edit that writes back an older copy, leaves one.                        *)
NonePendingAtRest ==
  (Resting /\ causes \cap {"crash", "stale"} = {}) =>
    \A id \in DOMAIN history[Author] : history[Author][id].status # "pending"

(* A tombstone stays one: no edit, late copy or repeated text brings a     *)
(* retracted message back (appendMessage merges, markDeleted's field       *)
(* survives).                                                              *)
TombstoneStays ==
  [][\A c \in Client : \A id \in DOMAIN history[c] :
       IsDeleted(history[c][id]) => IsDeleted(history'[c][id])]_vars

(* A file the reader has is the author's, byte for byte, in whatever order *)
(* its chunks came; and at rest it is there, unless a chunk was lost, a    *)
(* request failed or a page closed, or the message was retracted.          *)
FilesArriveWhole ==
  /\ \A id \in DOMAIN blobs[Reader] : blobs[Reader][id] = File(id)
  /\ (Resting /\ causes \cap {"failed", "lost", "crash"} = {}) =>
       DOMAIN blobs[Author] \subseteq DOMAIN blobs[Reader]

SameMessage(m, n) == m.body = n.body /\ IsDeleted(m) = IsDeleted(n) /\ Reactions(m) = Reactions(n)

(* At rest the two sides show the same messages, edits, deletions and      *)
(* reactions, if nothing failed or was lost and no two contents about one  *)
(* message were ever under way together.                                   *)
SameAtRest ==
  (Resting /\ causes \subseteq {"overlap"}) =>
    /\ DOMAIN history[Author] = DOMAIN history[Reader]
    /\ \A id \in DOMAIN history[Author] : SameMessage(history[Author][id], history[Reader][id])

(* The reader's badge is lit exactly when a message waits that no markRead *)
(* has listed, unless markRead and incrementUnread ran into each other, a  *)
(* text was repeated by a retry, or the page closed.                       *)
BadgeIsTrue ==
  (Resting /\ causes \cap {"overlap", "repeat", "crash"} = {}) =>
    (unread = 0 <=> DOMAIN history[Reader] \subseteq listed)
=============================================================================

--------------------------- MODULE MessagesProofs ---------------------------
(***************************************************************************)
(* What the author is shown of the reader is true, a retracted message     *)
(* stays retracted, none stays pending and the reader's badge shows what   *)
(* waits, for any numbers of messages, calls and faults.                   *)
(*                                                                         *)
(* Why: a status comes from a receipt, a receipt from a call of the        *)
(* reader, and what a call holds while it waits stays true, since no write *)
(* of the store drops a message, a tombstone or a status for good.  What   *)
(* is unfinished (a pending message, a message not counted, a count not    *)
(* cleared) has the call that will finish it.                              *)
(***************************************************************************)
EXTENDS Messages, TLAPS

(* Every step is tried with Zenon, except those that name another prover. *)
USE Zenon

-----------------------------------------------------------------------------
(* What the writes of the chat store do to any history: they drop no       *)
(* message, bring no tombstone back, and touch one message's status only.  *)

(* A message as JSON has it: with a status, and deletedAt only when set. *)
Good(m) == "status" \in DOMAIN m /\ ("deletedAt" \in DOMAIN m => m["deletedAt"] = TRUE)

(* What a write may do to a history. *)
Grows(h, g) ==
  /\ DOMAIN h \subseteq DOMAIN g
  /\ (\A id \in DOMAIN h : Good(h[id])) => \A id \in DOMAIN g : Good(g[id])
  /\ \A id \in DOMAIN h : Good(h[id]) /\ IsDeleted(h[id]) => IsDeleted(g[id])

Appends(h, g, id, m) ==
  /\ Grows(h, g)
  /\ DOMAIN g = DOMAIN h \cup {id}
  /\ g[id].status = m.status
  /\ \A j \in DOMAIN h \ {id} : g[j] = h[j]

LEMMA AppendGrows ==
  ASSUME NEW h, NEW id, NEW m, Good(m)
  PROVE  Appends(h, AppendMessage(h, id, m), id, m)
<1> DEFINE n == IF id \in DOMAIN h THEN Over(m, h[id]) ELSE m
           g == AppendMessage(h, id, m)
<1>1. "status" \in DOMAIN n /\ n["status"] = m["status"]
  BY DEF Over, Good
<1>2. (id \in DOMAIN h => Good(h[id])) => Good(n)
  BY DEF Over, Good
<1>3. id \in DOMAIN h /\ Good(h[id]) /\ IsDeleted(h[id]) => IsDeleted(n)
  BY DEF Over, Good, IsDeleted, Field
<1>4. g = Put(h, id, n)
  BY DEF AppendMessage
<1> HIDE DEF g, n
<1>5. /\ DOMAIN g = DOMAIN h \cup {id}
      /\ g[id] = n
      /\ \A j \in DOMAIN h \ {id} : g[j] = h[j]
  BY <1>4 DEF Put
<1>6. Grows(h, g)
  BY <1>2, <1>3, <1>5 DEF Grows
<1> QED
  BY <1>1, <1>5, <1>6 DEF Appends, g

(* The patches: the history has the same messages, and the one patched     *)
(* keeps its status, or takes the new one.                                 *)
Patches(h, g, id, S) ==
  /\ Grows(h, g)
  /\ DOMAIN g = DOMAIN h
  /\ \A j \in DOMAIN h \ {id} : g[j] = h[j]
  /\ id \in DOMAIN h /\ Good(h[id]) => g[id].status \in S \cup {h[id].status}

LEMMA PutPatches ==
  ASSUME NEW h, NEW id, NEW n, NEW S,
         id \in DOMAIN h =>
           /\ Good(h[id]) => Good(n) /\ n.status \in S \cup {h[id].status}
           /\ Good(h[id]) /\ IsDeleted(h[id]) => IsDeleted(n)
  PROVE  Patches(h, IF id \in DOMAIN h THEN Put(h, id, n) ELSE h, id, S)
BY DEF Patches, Grows, Put

LEMMA StatusPatches ==
  ASSUME NEW h, NEW id, NEW s
  PROVE  Patches(h, SetMessageStatus(h, id, s), id, {s})
<1> DEFINE n == Over([status |-> s], h[id])
<1>1. Good(h[id]) => Good(n) /\ n.status = s
  BY DEF Over, Good
<1>2. Good(h[id]) /\ IsDeleted(h[id]) => IsDeleted(n)
  BY DEF Over, Good, IsDeleted, Field
<1>3. SetMessageStatus(h, id, s) = IF id \in DOMAIN h THEN Put(h, id, n) ELSE h
  BY DEF SetMessageStatus, PatchMessage
<1> HIDE DEF n
<1> QED
  BY <1>1, <1>2, <1>3, PutPatches

LEMMA DeletePatches ==
  ASSUME NEW h, NEW id
  PROVE  Patches(h, MarkDeleted(h, id), id, {})
<1> DEFINE n == Over([deletedAt |-> TRUE, body |-> NoBody], Without(h[id], "attachment"))
<1>1. Good(h[id]) => Good(n) /\ n.status = h[id].status
  BY DEF Over, Without, Good
<1>2. IsDeleted(n)
  BY DEF Over, IsDeleted, Field
<1>3. MarkDeleted(h, id) = IF id \in DOMAIN h THEN Put(h, id, n) ELSE h
  BY DEF MarkDeleted, PatchMessage
<1> HIDE DEF n
<1> QED
  BY <1>1, <1>2, <1>3, PutPatches

LEMMA ReactionPatches ==
  ASSUME NEW h, NEW id, NEW a, NEW active
  PROVE  Patches(h, SetReaction(h, id, a, active), id, {})
<1> DEFINE r == IF active THEN Reactions(h[id]) \cup {a} ELSE Reactions(h[id]) \ {a}
           n == Over([reactions |-> r], h[id])
<1> HIDE DEF r
<1>1. Good(h[id]) => Good(n) /\ n.status = h[id].status
  BY DEF Over, Good
<1>2. Good(h[id]) /\ IsDeleted(h[id]) => IsDeleted(n)
  BY DEF Over, Good, IsDeleted, Field
<1>3. SetReaction(h, id, a, active) = IF id \in DOMAIN h THEN Put(h, id, n) ELSE h
  BY DEF SetReaction, PatchMessage, r
<1> HIDE DEF n
<1> QED
  BY <1>1, <1>2, <1>3, PutPatches

-----------------------------------------------------------------------------
(* What a status says of the reader is so. *)
TrueStatus(id, s) ==
  /\ s \in {"delivered", "read"} => id \in DOMAIN history[Reader]
  /\ s = "read" => id \in listed

TrueReceipt(x) ==
  /\ {"ids", "kind"} \subseteq DOMAIN x
  /\ x.kind \in {"delivered", "read"}
  /\ \A id \in x.ids : TrueStatus(id, x.kind)

(* What is on its way to the author: receipts that are true, and reactions. *)
ContentOK(x) == x.type = "reaction" \/ (x.type = "receipt" /\ TrueReceipt(x))

(* A call of the reader posts such contents only; the receipt for a file   *)
(* becomes true when the message is stored.                                *)
ReaderTask(t) ==
  /\ t.step # "retrying"
  /\ \/ t.step = "confirming"
     \/ t.send = <<>> /\ t.step \in {"storing", "clearing"} /\ t.op # "file"
     \/ \E x : t.send = <<x>> /\ ContentOK(x)
     \/ t.step = "storing" /\ t.op = "file" /\ t.send = <<Receipt({t.id}, "delivered")>>

(* A call of the author writes statuses that are true. *)
AuthorTask(t) ==
  /\ t.step = "confirming" => \E x : t.send = <<x>> /\ TrueReceipt(x)
  /\ \A m \in t.copy : TrueStatus(t.id, m.status)

(* Which calls there are, and the messages that are stored when they run.  *)
Shape(t) ==
  /\ t.client = Author =>
       /\ \/ t.op = "send" /\ t.step \in {"posting", "retrying", "sent", "failed"}
          \/ t.op = "signal" /\ t.step \in {"posting", "storing"}
          \/ t.op = "handle" /\ t.step = "confirming"
       /\ t.step = "storing" => t.id \in DOMAIN history[Author]
  /\ t.client = Reader =>
       /\ \/ t.op = "signal" /\ t.step \in {"posting", "clearing"}
          \/ t.op = "handle" /\ t.step \in {"posting", "counting", "counted", "storing", "confirming"}
          \/ t.op = "file" /\ t.step \in {"posting", "counting", "counted", "storing"}
       /\ t.step \in {"counting", "counted"} \/ (t.op = "handle" /\ t.step = "storing") =>
            t.id \in DOMAIN history[Reader]

TaskOK(t) ==
  /\ {"client", "op", "id", "step", "send", "copy"} \subseteq DOMAIN t
  /\ t.client \in Client
  /\ \A m \in t.copy : Good(m)
  /\ IF t.client = Reader THEN ReaderTask(t) ELSE AuthorTask(t)
  /\ Shape(t)

HistoryInv ==
  /\ DOMAIN history = Client
  /\ \A c \in Client : \A id \in DOMAIN history[c] : Good(history[c][id])
  /\ \A id \in DOMAIN history[Author] : TrueStatus(id, history[Author][id].status)

MessagesInv ==
  /\ HistoryInv
  /\ DOMAIN wire = Client
  /\ \A x \in DOMAIN wire[Author] : ContentOK(x)
  /\ \A t \in tasks : TaskOK(t)

(* The body of TombstoneStays. *)
Kept ==
  \A c \in Client : \A id \in DOMAIN history[c] :
    IsDeleted(history[c][id]) => IsDeleted(history'[c][id])

(* A step that keeps the histories right. *)
HistoryStep ==
  /\ HistoryInv'
  /\ \A c \in Client : DOMAIN history[c] \subseteq DOMAIN history'[c]
  /\ Kept

LEMMA TwoClients == Author # Reader /\ Author \in Client /\ Reader \in Client /\ \A c \in Client : c = Author \/ c = Reader
BY MessagesAssumption DEF Client

(* What is true of the reader stays true. *)
LEMMA TruthKept ==
  ASSUME \A c \in Client : DOMAIN history[c] \subseteq DOMAIN history'[c], listed \subseteq listed'
  PROVE  /\ \A id, s : TrueStatus(id, s) => TrueStatus(id, s)'
         /\ \A x : TrueReceipt(x) => TrueReceipt(x)'
         /\ \A x : ContentOK(x) => ContentOK(x)'
         /\ \A t : TaskOK(t) => TaskOK(t)'
<1>1. \A id, s : TrueStatus(id, s) => TrueStatus(id, s)'
  BY DEF TrueStatus, Client
<1>2. \A x : TrueReceipt(x) => TrueReceipt(x)'
  BY <1>1 DEF TrueReceipt
<1>3. \A x : ContentOK(x) => ContentOK(x)'
  BY <1>2 DEF ContentOK
<1>4. ASSUME NEW t PROVE /\ ReaderTask(t) => ReaderTask(t)'
                         /\ AuthorTask(t) => AuthorTask(t)'
                         /\ Shape(t) => Shape(t)'
  BY <1>1, <1>2, <1>3, TwoClients DEF ReaderTask, AuthorTask, Shape
<1>5. \A t : TaskOK(t) => TaskOK(t)'
  BY <1>4 DEF TaskOK
<1> QED
  BY <1>1, <1>2, <1>3, <1>5

(* A call begins. *)
LEMMA CallKeeps ==
  ASSUME MessagesInv, HistoryStep, listed \subseteq listed', wire' = wire,
         NEW t, tasks' = tasks \cup {t}, TaskOK(t)'
  PROVE  MessagesInv' /\ HistoryStep
BY TruthKept DEF MessagesInv, HistoryStep

LEMMA SameHistory ==
  ASSUME HistoryInv, history' = history, listed \subseteq listed'
  PROVE  HistoryStep
BY TruthKept DEF HistoryStep, HistoryInv, Kept

LEMMA UpdateKeeps ==
  ASSUME HistoryInv, listed' = listed, NEW c \in Client, NEW g, Update(c, g), Grows(history[c], g),
         c = Author => \A id \in DOMAIN g : TrueStatus(id, g[id].status)
  PROVE  HistoryStep
<1>1. DOMAIN history' = Client /\ \A d \in Client : history'[d] = IF d = c THEN g ELSE history[d]
  BY DEF Update, HistoryInv
<1>2. Author \in Client /\ Reader \in Client
  BY DEF Client
<1>3. \A d \in Client : DOMAIN history[d] \subseteq DOMAIN history'[d]
  BY <1>1 DEF Grows
<1>4. \A id, s : TrueStatus(id, s) => TrueStatus(id, s)'
  BY <1>3, TruthKept
<1>5. HistoryInv'
  BY <1>1, <1>2, <1>4 DEF HistoryInv, Grows
<1>6. Kept
  BY <1>1 DEF HistoryInv, Grows, Kept
<1> QED
  BY <1>3, <1>5, <1>6 DEF HistoryStep

LEMMA PatchKeeps ==
  ASSUME HistoryInv, listed' = listed, NEW c \in Client, NEW g, Update(c, g),
         NEW id, NEW S, Patches(history[c], g, id, S),
         c = Author => \A s \in S : TrueStatus(id, s)
  PROVE  HistoryStep
<1>1. c = Author => \A j \in DOMAIN g : TrueStatus(j, g[j].status)
  BY DEF Patches, HistoryInv
<1> QED
  BY <1>1, UpdateKeeps DEF Patches

LEMMA StatusKeeps ==
  ASSUME HistoryInv, listed' = listed, NEW c \in Client, NEW id, NEW s,
         Update(c, SetMessageStatus(history[c], id, s)), c = Author => TrueStatus(id, s)
  PROVE  HistoryStep
<1>1. PICK g : Update(c, g) /\ Patches(history[c], g, id, {s})
  BY StatusPatches
<1> QED
  BY <1>1, PatchKeeps

LEMMA AppendKeeps ==
  ASSUME HistoryInv, listed' = listed, NEW c \in Client, NEW id, NEW m, Good(m),
         Update(c, AppendMessage(history[c], id, m)), c = Author => TrueStatus(id, m.status)
  PROVE  HistoryStep /\ id \in DOMAIN history'[c]
<1>1. PICK g : Update(c, g) /\ Appends(history[c], g, id, m)
  BY AppendGrows
<1>2. c = Author => \A j \in DOMAIN g : TrueStatus(j, g[j].status)
  BY <1>1 DEF Appends, HistoryInv
<1>3. id \in DOMAIN history'[c]
  BY <1>1 DEF Appends, Update, HistoryInv
<1> QED
  BY <1>1, <1>2, <1>3, UpdateKeeps DEF Appends

HasFields(t, c, op, id, step, send, copy) ==
  /\ t.client = c /\ t.op = op /\ t.id = id /\ t.step = step /\ t.send = send /\ t.copy = copy
  /\ {"client", "op", "id", "step", "send", "copy"} \subseteq DOMAIN t

LEMMA TaskFields ==
  ASSUME NEW c, NEW op, NEW id, NEW step, NEW send
  PROVE  /\ HasFields(Task(c, op, id, step, send), c, op, id, step, send, {})
         /\ \A copy : HasFields([Task(c, op, id, step, send) EXCEPT !.copy = copy], c, op, id, step, send, copy)
BY DEF Task, HasFields

IsReceipt(x, ids, kind) ==
  x.type = "receipt" /\ x.ids = ids /\ x.kind = kind /\ {"ids", "kind"} \subseteq DOMAIN x

LEMMA ReceiptFields ==
  ASSUME NEW ids, NEW kind
  PROVE  IsReceipt(Receipt(ids, kind), ids, kind)
BY DEF Receipt, IsReceipt

LEMMA CopyFacts ==
  ASSUME NEW B, NEW x
  PROVE  /\ DOMAIN WithCopy(B, x) = DOMAIN B \cup {x}
         /\ DOMAIN LessCopy(B, x) \subseteq DOMAIN B
<1>1. DOMAIN WithCopy(B, x) = DOMAIN B \cup {x}
  BY DEF WithCopy, Put
<1>2. Copies(B, x) > 1 => x \in DOMAIN B
  BY SMT DEF Copies
<1>3. DOMAIN LessCopy(B, x) \subseteq DOMAIN B
  BY <1>2 DEF LessCopy, Put, Without
<1> QED
  BY <1>1, <1>3

-----------------------------------------------------------------------------
-----------------------------------------------------------------------------
(* The steps of the calls under way. *)
TasksOK == \A t \in tasks : TaskOK(t)
WireOK == DOMAIN wire = Client /\ \A x \in DOMAIN wire[Author] : ContentOK(x)

LEMMA PartsKeep ==
  ASSUME HistoryStep, TasksOK', WireOK'
  PROVE  MessagesInv' /\ HistoryStep
BY DEF HistoryStep, TasksOK, WireOK, MessagesInv

LEMMA TaskEnds ==
  ASSUME MessagesInv, HistoryStep, listed' = listed, tasks' \subseteq tasks
  PROVE  TasksOK'
BY TruthKept DEF TasksOK, MessagesInv, HistoryStep

LEMMA TaskBecomes ==
  ASSUME MessagesInv, HistoryStep, listed' = listed, NEW u, tasks' \subseteq tasks \cup {u}, TaskOK(u)'
  PROVE  TasksOK'
BY TruthKept DEF TasksOK, MessagesInv, HistoryStep

LEMMA WireSame ==
  ASSUME MessagesInv, HistoryStep, listed' = listed, wire' = wire
  PROVE  WireOK'
BY TruthKept DEF WireOK, MessagesInv, HistoryStep

LEMMA WireArrives ==
  ASSUME MessagesInv, HistoryStep, listed' = listed,
         NEW c \in Client, NEW x, Arrives(c, x), c = Author => ContentOK(x)
  PROVE  WireOK'
<1>1. DOMAIN wire' = Client /\ DOMAIN wire'[Author] \subseteq DOMAIN wire[Author] \cup (IF c = Author THEN {x} ELSE {})
  BY TwoClients, CopyFacts DEF Arrives, MessagesInv
<1> QED
  BY <1>1, TruthKept DEF WireOK, MessagesInv, HistoryStep

LEMMA WireTaken ==
  ASSUME MessagesInv, HistoryStep, listed' = listed,
         NEW c \in Client, NEW x, wire' = [wire EXCEPT ![c] = LessCopy(@, x)]
  PROVE  WireOK'
<1>1. DOMAIN wire' = Client /\ DOMAIN wire'[Author] \subseteq DOMAIN wire[Author]
  BY TwoClients, CopyFacts DEF MessagesInv
<1> QED
  BY <1>1, TruthKept DEF WireOK, MessagesInv, HistoryStep

LEMMA ChangedTask ==
  ASSUME NEW t, {"client", "op", "id", "step", "send", "copy"} \subseteq DOMAIN t, NEW step, NEW send, NEW n
  PROVE  /\ HasFields([t EXCEPT !.step = step], t.client, t.op, t.id, step, t.send, t.copy)
         /\ HasFields([t EXCEPT !.send = send], t.client, t.op, t.id, t.step, send, t.copy)
         /\ HasFields([t EXCEPT !.step = step, !.copy = {}], t.client, t.op, t.id, step, t.send, {})
         /\ HasFields([t EXCEPT !.step = step, !.copy = {}, !.send = send], t.client, t.op, t.id, step, send, {})
         /\ HasFields([t EXCEPT !.step = step, !.count = n], t.client, t.op, t.id, step, t.send, t.copy)
BY DEF HasFields

(* What a call of the reader posts is right. *)
LEMMA PostedOK ==
  ASSUME NEW t, TaskOK(t), t.step = "posting", Peer(t.client) = Author
  PROVE  t.client = Reader /\ \E x : t.send = <<x>> /\ Head(t.send) = x /\ ContentOK(x)
BY TwoClients, SMT DEF Peer, TaskOK, ReaderTask

-----------------------------------------------------------------------------
-----------------------------------------------------------------------------
LEMMA MessagesInit == Init => MessagesInv
BY TwoClients, SMT DEF Init, MessagesInv, HistoryInv, EmptyHistory

LEMMA MessagesStep ==
  ASSUME MessagesInv, [Next]_vars
  PROVE  MessagesInv' /\ HistoryStep
(* The calls of the two users. *)
<1>SendStep. ASSUME SendText \/ SendAttachment
             PROVE  MessagesInv' /\ HistoryStep
  <2> USE <1>SendStep
  <2>1. PICK id : id = written + 1
    OBVIOUS
  <2>2. PICK send, m :
          /\ tasks' = tasks \cup {Task(Author, "send", id, "posting", send)}
          /\ Update(Author, AppendMessage(history[Author], id, m))
          /\ Good(m) /\ m.status = "pending"
    <3>1. CASE SendText
      BY <2>1, <3>1, SMT DEF SendText, Begin, Outgoing, Good
    <3>2. CASE SendAttachment
      <4> DEFINE m == Over([attachment |-> id], Outgoing("pending"))
      <4>1. Good(m) /\ m.status = "pending"
        BY DEF Over, Outgoing, Good
      <4> HIDE DEF m
      <4> QED
        BY <2>1, <3>2, <4>1 DEF SendAttachment, Begin, m
    <3> QED
      BY <3>1, <3>2
  <2>3. UNCHANGED <<wire, listed>>
    BY DEF SendText, SendAttachment
  <2>4. PICK t : tasks' = tasks \cup {t} /\ HasFields(t, Author, "send", id, "posting", send, {})
    BY <2>2, TaskFields
  <2>5. TaskOK(t)'
    BY <2>4, TwoClients DEF HasFields, TaskOK, Shape, AuthorTask
  <2>6. Good(m) /\ TrueStatus(id, m.status)
    BY <2>2 DEF TrueStatus
  <2>7. HistoryStep
    BY <2>2, <2>3, <2>6, AppendKeeps, TwoClients DEF MessagesInv
  <2> QED
    BY <2>3, <2>4, <2>5, <2>7, CallKeeps
<1>MarkReadStep. ASSUME MarkRead
                 PROVE  MessagesInv' /\ HistoryStep
  <2> USE <1>MarkReadStep
  <2>1. PICK ids : ids = DOMAIN history[Reader]
    OBVIOUS
  <2>2. PICK send : send = IF ids = {} THEN <<>> ELSE <<Receipt(ids, "read")>>
    OBVIOUS
  <2>3. /\ tasks' = tasks \cup {Task(Reader, "signal", 0, "clearing", send)}
        /\ listed' = listed \cup ids
        /\ UNCHANGED <<history, wire>>
    BY <2>1, <2>2 DEF MarkRead, Begin, stores
  <2>4. PICK t : tasks' = tasks \cup {t} /\ HasFields(t, Reader, "signal", 0, "clearing", send, {})
    BY <2>3, TaskFields
  <2>5. PICK x : x = Receipt(ids, "read") /\ IsReceipt(x, ids, "read")
    BY ReceiptFields
  <2>6. ContentOK(x)'
    BY <2>1, <2>3, <2>5 DEF IsReceipt, ContentOK, TrueReceipt, TrueStatus
  <2>7. TaskOK(t)'
    BY <2>2, <2>4, <2>5, <2>6, TwoClients DEF HasFields, TaskOK, Shape, ReaderTask
  <2>8. HistoryStep
    BY <2>3, SameHistory DEF MessagesInv
  <2> QED
    BY <2>3, <2>4, <2>7, <2>8, CallKeeps
<1>CopyStep. ASSUME NEW id, Retry(id) \/ Edit(id)
             PROVE  MessagesInv' /\ HistoryStep
  <2> USE <1>CopyStep
  <2>1. id \in DOMAIN history[Author] /\ UNCHANGED <<history, wire, listed>>
    BY DEF Retry, Edit, stores
  <2>2. PICK old : old = history[Author][id] /\ Good(old) /\ TrueStatus(id, old.status)
    BY <2>1, TwoClients DEF MessagesInv, HistoryInv
  <2>3. PICK op, step, send, m :
          /\ tasks' = tasks \cup {[Task(Author, op, id, step, send) EXCEPT !.copy = {m}]}
          /\ (op = "send" /\ step = "retrying") \/ (op = "signal" /\ step = "storing")
          /\ Good(m) /\ TrueStatus(id, m.status)
    <3>1. CASE Retry(id)
      BY <2>2, <3>1 DEF Retry, Begin
    <3>2. CASE Edit(id)
      <4> DEFINE m == Over([body |-> calls + Original + 1], old)
      <4>1. Good(m) /\ m.status = old.status
        BY <2>2 DEF Over, Good
      <4> HIDE DEF m
      <4>2. PICK send : tasks' = tasks \cup {[Task(Author, "signal", id, "storing", send) EXCEPT !.copy = {m}]}
        BY <2>2, <3>2 DEF Edit, Begin, m
      <4> QED
        BY <2>2, <4>1, <4>2
    <3> QED
      BY <3>1, <3>2
  <2>4. PICK t : tasks' = tasks \cup {t} /\ HasFields(t, Author, op, id, step, send, {m})
    BY <2>3, TaskFields
  <2>5. HistoryStep
    BY <2>1, SameHistory DEF MessagesInv
  <2>6. TrueStatus(id, m.status)'
    BY <2>1, <2>3 DEF TrueStatus
  <2>7. TaskOK(t)'
    BY <2>1, <2>3, <2>4, <2>6, TwoClients DEF HasFields, TaskOK, Shape, AuthorTask
  <2> QED
    BY <2>1, <2>4, <2>5, <2>7, CallKeeps
<1>SignalStep. ASSUME NEW c \in Client, NEW id, (c = Author /\ Delete(id)) \/ React(c, id)
               PROVE  MessagesInv' /\ HistoryStep
  <2> USE <1>SignalStep
  <2>1. UNCHANGED <<wire, listed>>
    BY DEF Delete, React
  <2>2. PICK x : /\ tasks' = tasks \cup {Task(c, "signal", id, "posting", <<x>>)}
                 /\ c = Reader => x.type = "reaction"
    BY TwoClients, SMT DEF Delete, React, Begin
  <2>3. HistoryStep
    <3>1. PICK g : Update(c, g) /\ Patches(history[c], g, id, {})
      <4>1. CASE c = Author /\ Delete(id)
        BY <4>1, DeletePatches DEF Delete
      <4>2. CASE React(c, id)
        BY <4>2, ReactionPatches DEF React
      <4> QED
        BY <4>1, <4>2
    <3> QED
      BY <2>1, <3>1, PatchKeeps, SMT DEF MessagesInv
  <2>4. PICK t : tasks' = tasks \cup {t} /\ HasFields(t, c, "signal", id, "posting", <<x>>, {})
    BY <2>2, TaskFields
  <2>5. TaskOK(t)'
    BY <2>2, <2>4, TwoClients DEF HasFields, TaskOK, Shape, AuthorTask, ReaderTask, ContentOK
  <2> QED
    BY <2>1, <2>3, <2>4, <2>5, CallKeeps
<1>RetryPendingStep. ASSUME NEW t \in tasks, RetryPending(t)
                     PROVE  MessagesInv' /\ HistoryStep
  <2> USE <1>RetryPendingStep
  <2>1. TaskOK(t) /\ t.client = Author /\ t.client \in Client /\ t.op = "send"
    BY TwoClients DEF RetryPending, MessagesInv, TaskOK, ReaderTask, Shape
  <2>2. HistoryStep
    <3>1. TrueStatus(t.id, "pending")
      BY DEF TrueStatus
    <3> QED
      BY <2>1, <3>1, StatusKeeps DEF RetryPending, MessagesInv
  <2>3. PICK send, u : /\ tasks' = (tasks \ {t}) \cup {u}
                       /\ HasFields(u, t.client, t.op, t.id, "posting", send, {})
    BY <2>1, ChangedTask DEF RetryPending, Becomes, TaskOK
  <2>4. TaskOK(u)'
    BY <2>1, <2>3, TwoClients DEF HasFields, TaskOK, Shape, AuthorTask
  <2> QED
    BY <2>2, <2>3, <2>4, TaskBecomes, WireSame, PartsKeep DEF RetryPending
<1>ClearUnreadStep. ASSUME NEW t \in tasks, ClearUnread(t)
                    PROVE  MessagesInv' /\ HistoryStep
  <2> USE <1>ClearUnreadStep
  <2>1. TaskOK(t) /\ t.step = "clearing" /\ UNCHANGED <<history, wire, listed>>
    BY DEF MessagesInv, ClearUnread
  <2>2. HistoryStep
    BY <2>1, SameHistory DEF MessagesInv
  <2>3. TasksOK'
    <3>1. CASE t.send = <<>>
      BY <2>1, <2>2, <3>1, TaskEnds DEF ClearUnread, Ends
    <3>2. CASE t.send # <<>>
      <4>1. PICK u : /\ tasks' = (tasks \ {t}) \cup {u}
                     /\ HasFields(u, t.client, t.op, t.id, "posting", t.send, t.copy)
        BY <2>1, <3>2, ChangedTask DEF ClearUnread, Goes, Becomes, TaskOK
      <4>2. TaskOK(u)
        BY <2>1, <3>2, <4>1 DEF HasFields, TaskOK, Shape, AuthorTask, ReaderTask
      <4>3. TaskOK(u)'
        BY <2>1, <4>2, TruthKept
      <4> QED
        BY <2>1, <2>2, <4>1, <4>3, TaskBecomes
    <3> QED
      BY <3>1, <3>2
  <2> QED
    BY <2>1, <2>2, <2>3, WireSame, PartsKeep
<1>PostStep. ASSUME NEW t \in tasks, Post(t) \/ PostFails(t)
             PROVE  MessagesInv' /\ HistoryStep
  <2> USE <1>PostStep
  <2>1. TaskOK(t) /\ t.step = "posting" /\ UNCHANGED <<history, listed>>
    BY DEF MessagesInv, Post, PostFails, stores
  <2>2. HistoryStep
    BY <2>1, SameHistory DEF MessagesInv
  <2>3. WireOK'
    <3>1. CASE Arrives(Peer(t.client), Head(t.send))
      <4>1. Peer(t.client) \in Client /\ (Peer(t.client) = Author => ContentOK(Head(t.send)))
        BY <2>1, PostedOK, TwoClients DEF Peer
      <4> QED
        BY <2>1, <2>2, <3>1, <4>1, WireArrives
    <3>2. CASE wire' = wire
      BY <2>1, <2>2, <3>2, WireSame
    <3> QED
      BY <3>1, <3>2 DEF Post, PostFails
  <2>4. TasksOK'
    <3>1. CASE Ends(t)
      BY <2>1, <2>2, <3>1, TaskEnds DEF Ends
    <3>2. ASSUME NEW step \in {"sent", "failed"}, t.op = "send", Goes(t, step)
          PROVE  TasksOK'
      <4>1. PICK u : /\ tasks' = (tasks \ {t}) \cup {u}
                     /\ HasFields(u, t.client, t.op, t.id, step, t.send, t.copy)
        BY <2>1, <3>2, ChangedTask DEF Goes, Becomes, TaskOK
      <4>2. TaskOK(u)
        BY <2>1, <3>2, <4>1 DEF HasFields, TaskOK, Shape, AuthorTask, ReaderTask
      <4>3. TaskOK(u)'
        BY <2>1, <4>2, TruthKept
      <4> QED
        BY <2>1, <2>2, <4>1, <4>3, TaskBecomes
    <3>3. ASSUME Len(t.send) > 1, Becomes(t, [t EXCEPT !.send = Tail(@)])
          PROVE  TasksOK'
      <4>1. PICK send, u : /\ tasks' = (tasks \ {t}) \cup {u}
                           /\ HasFields(u, t.client, t.op, t.id, t.step, send, t.copy)
        <5>1. [t EXCEPT !.send = Tail(@)] = [t EXCEPT !.send = Tail(t.send)]
          OBVIOUS
        <5>2. tasks' = (tasks \ {t}) \cup {[t EXCEPT !.send = Tail(t.send)]}
          BY <3>3, <5>1 DEF Becomes
        <5>3. HasFields([t EXCEPT !.send = Tail(t.send)], t.client, t.op, t.id, t.step, Tail(t.send), t.copy)
          BY <2>1, ChangedTask DEF TaskOK
        <5> QED
          BY <5>2, <5>3
      <4>2. t.client # Reader
        BY <2>1, <3>3, SMT DEF TaskOK, ReaderTask
      <4>3. TaskOK(u)
        BY <2>1, <4>1, <4>2 DEF HasFields, TaskOK, Shape, AuthorTask
      <4>4. TaskOK(u)'
        BY <2>1, <4>3, TruthKept
      <4> QED
        BY <2>1, <2>2, <4>1, <4>4, TaskBecomes
    <3> QED
      BY <3>1, <3>2, <3>3 DEF Post, PostFails
  <2> QED
    BY <2>2, <2>3, <2>4, PartsKeep
<1>PatchStatusStep. ASSUME NEW t \in tasks, PatchStatus(t)
                    PROVE  MessagesInv' /\ HistoryStep
  <2> USE <1>PatchStatusStep
  <2>1. /\ t.client \in Client /\ t.step \in {"sent", "failed"} /\ UNCHANGED <<wire, listed>>
        /\ Update(t.client, SetMessageStatus(history[t.client], t.id, t.step)) /\ Ends(t)
    BY DEF MessagesInv, TaskOK, PatchStatus
  <2>2. TrueStatus(t.id, t.step)
    BY <2>1 DEF TrueStatus
  <2>3. HistoryStep
    BY <2>1, <2>2, StatusKeeps DEF MessagesInv
  <2> QED
    BY <2>1, <2>3, TaskEnds, WireSame, PartsKeep DEF Ends
<1>CountStep. ASSUME NEW t \in tasks, ReadUnread(t) \/ IncrementUnread(t)
              PROVE  MessagesInv' /\ HistoryStep
  <2> USE <1>CountStep
  <2>1. TaskOK(t) /\ t.step \in {"counting", "counted"} /\ UNCHANGED <<history, wire, listed>>
    BY DEF MessagesInv, ReadUnread, IncrementUnread, stores
  <2>2. HistoryStep
    BY <2>1, SameHistory DEF MessagesInv
  <2>3. PICK step, u : /\ tasks' = (tasks \ {t}) \cup {u}
                       /\ step \in {"counted", "posting"}
                       /\ HasFields(u, t.client, t.op, t.id, step, t.send, t.copy)
    BY <2>1, ChangedTask DEF ReadUnread, IncrementUnread, Goes, Becomes, TaskOK
  <2>4. TaskOK(u)
    BY <2>1, <2>3 DEF HasFields, TaskOK, Shape, AuthorTask, ReaderTask
  <2>5. TaskOK(u)'
    BY <2>1, <2>4, TruthKept
  <2> QED
    BY <2>1, <2>2, <2>3, <2>5, TaskBecomes, WireSame, PartsKeep
<1>ConfirmStep. ASSUME NEW t \in tasks, Confirm(t)
                PROVE  MessagesInv' /\ HistoryStep
  <2> USE <1>ConfirmStep
  <2>1. TaskOK(t) /\ t.step = "confirming" /\ t.client \in Client /\ UNCHANGED <<wire, listed>>
    BY DEF MessagesInv, TaskOK, Confirm
  <2>2. PICK x : x = Head(t.send)
    OBVIOUS
  <2>3. PICK id \in x.ids :
          /\ Update(t.client, SetMessageStatus(history[t.client], id, x.kind))
          /\ Ends(t) \/ Becomes(t, [t EXCEPT !.send = <<[x EXCEPT !.ids = @ \ {id}]>>])
    BY <2>2 DEF Confirm
  <2>4. t.client = Author => TrueReceipt(x)
    BY <2>1, <2>2, TwoClients, SMT DEF TaskOK, AuthorTask
  <2>5. HistoryStep
    BY <2>1, <2>3, <2>4, StatusKeeps DEF MessagesInv, TrueReceipt
  <2>6. TasksOK'
    <3>1. CASE Ends(t)
      BY <2>1, <2>5, <3>1, TaskEnds DEF Ends
    <3>2. CASE Becomes(t, [t EXCEPT !.send = <<[x EXCEPT !.ids = @ \ {id}]>>])
      <4>1. PICK y : y = [x EXCEPT !.ids = @ \ {id}]
        OBVIOUS
      <4>2. t.client = Author => TrueReceipt(y)
        BY <2>4, <4>1 DEF TrueReceipt
      <4>3. PICK u : /\ tasks' = (tasks \ {t}) \cup {u}
                     /\ HasFields(u, t.client, t.op, t.id, t.step, <<y>>, t.copy)
        BY <2>1, <3>2, <4>1, ChangedTask DEF Becomes, TaskOK
      <4>4. TaskOK(u)
        BY <2>1, <4>2, <4>3, TwoClients DEF HasFields, TaskOK, Shape, AuthorTask, ReaderTask
      <4>5. TaskOK(u)'
        BY <2>1, <2>5, <4>4, TruthKept DEF HistoryStep
      <4> QED
        BY <2>1, <2>5, <4>3, <4>5, TaskBecomes
    <3> QED
      BY <2>3, <3>1, <3>2
  <2> QED
    BY <2>1, <2>5, <2>6, WireSame, PartsKeep
<1>StoreCopyStep. ASSUME NEW t \in tasks, StoreCopy(t)
                  PROVE  MessagesInv' /\ HistoryStep
  <2> USE <1>StoreCopyStep
  <2>1. TaskOK(t) /\ t.step = "storing" /\ t.client \in Client /\ UNCHANGED <<wire, listed>>
    BY DEF MessagesInv, TaskOK, StoreCopy
  <2>2. PICK m \in t.copy : Update(t.client, AppendMessage(history[t.client], t.id, m))
    BY DEF StoreCopy
  <2>3. Good(m) /\ (t.client = Author => TrueStatus(t.id, m.status))
    BY <2>1, <2>2, TwoClients DEF TaskOK, AuthorTask
  <2>4. HistoryStep /\ t.id \in DOMAIN history'[t.client]
    BY <2>1, <2>2, <2>3, AppendKeeps DEF MessagesInv
  <2>5. TaskOK(t)'
    BY <2>1, <2>4, TruthKept DEF HistoryStep
  <2>6. TasksOK'
    <3>1. CASE t.op = "file"
      <4>1. PICK u : /\ tasks' = (tasks \ {t}) \cup {u}
                     /\ HasFields(u, t.client, t.op, t.id, "counting", t.send, t.copy)
        BY <2>1, <3>1, ChangedTask DEF StoreCopy, Goes, Becomes, TaskOK
      <4>2. PICK x : x = Receipt({t.id}, "delivered") /\ IsReceipt(x, {t.id}, "delivered")
        BY ReceiptFields
      <4>3. t.client = Reader => ContentOK(x)'
        BY <2>4, <4>2 DEF IsReceipt, ContentOK, TrueReceipt, TrueStatus
      <4>4. TaskOK(u)'
        BY <2>1, <2>4, <2>5, <3>1, <4>1, <4>2, <4>3, TwoClients DEF HasFields, TaskOK, Shape, AuthorTask, ReaderTask
      <4> QED
        BY <2>1, <2>4, <4>1, <4>4, TaskBecomes
    <3>2. CASE t.op # "file" /\ t.send = <<>>
      BY <2>1, <2>4, <3>2, TaskEnds DEF StoreCopy, Ends
    <3>3. CASE t.op # "file" /\ t.send # <<>>
      <4>1. PICK u : /\ tasks' = (tasks \ {t}) \cup {u}
                     /\ HasFields(u, t.client, t.op, t.id, "posting", t.send, {})
        BY <2>1, <3>3, ChangedTask DEF StoreCopy, Becomes, TaskOK
      <4>2. TaskOK(u)'
        BY <2>1, <2>5, <3>3, <4>1 DEF HasFields, TaskOK, Shape, AuthorTask, ReaderTask
      <4> QED
        BY <2>1, <2>4, <4>1, <4>2, TaskBecomes
    <3> QED
      BY <3>1, <3>2, <3>3
  <2> QED
    BY <2>1, <2>4, <2>6, WireSame, PartsKeep
(* The handlers, and the faults.  A text, an edit, a deletion or a chunk is *)
(* never on its way to the author.                                          *)
<1>ApplyTextStep. ASSUME NEW c \in Client, NEW x \in DOMAIN wire[c], ApplyText(c, x)
                  PROVE  MessagesInv' /\ HistoryStep
  <2> USE <1>ApplyTextStep
  <2>1. c = Reader
    BY TwoClients DEF ApplyText, MessagesInv, ContentOK
  <2>2. Good(Incoming(x.body))
    BY DEF Good, Incoming
  <2>3. listed' = listed /\ Update(c, AppendMessage(history[c], x.id, Incoming(x.body)))
    BY DEF ApplyText
  <2>4. HistoryStep /\ x.id \in DOMAIN history'[c]
    BY <2>1, <2>2, <2>3, TwoClients, AppendKeeps DEF MessagesInv
  <2>5. PICK y : y = Receipt({x.id}, "delivered") /\ IsReceipt(y, {x.id}, "delivered")
    BY ReceiptFields
  <2>6. ContentOK(y)'
    BY <2>1, <2>4, <2>5 DEF IsReceipt, ContentOK, TrueReceipt, TrueStatus
  <2>7. PICK u : tasks' = tasks \cup {u} /\ HasFields(u, c, "handle", x.id, "counting", <<y>>, {})
    BY <2>5, TaskFields DEF ApplyText
  <2>8. TaskOK(u)'
    BY <2>1, <2>4, <2>6, <2>7, TwoClients DEF HasFields, TaskOK, Shape, ReaderTask
  <2>9. TasksOK'
    BY <2>3, <2>4, <2>7, <2>8, TaskBecomes
  <2>10. WireOK'
    BY <2>3, <2>4, WireTaken DEF ApplyText, Takes
  <2> QED
    BY <2>4, <2>9, <2>10, PartsKeep
<1>ApplyReceiptStep. ASSUME NEW c \in Client, NEW x \in DOMAIN wire[c], ApplyReceipt(c, x)
                     PROVE  MessagesInv' /\ HistoryStep
  <2> USE <1>ApplyReceiptStep
  <2>1. UNCHANGED <<history, listed>>
    BY DEF ApplyReceipt, stores
  <2>2. HistoryStep
    BY <2>1, SameHistory DEF MessagesInv
  <2>3. c = Author => TrueReceipt(x)
    BY DEF ApplyReceipt, MessagesInv, ContentOK
  <2>4. PICK u : tasks' = tasks \cup {u} /\ HasFields(u, c, "handle", 0, "confirming", <<x>>, {})
    BY TaskFields DEF ApplyReceipt
  <2>5. TaskOK(u)
    BY <2>3, <2>4, TwoClients DEF HasFields, TaskOK, Shape, AuthorTask, ReaderTask
  <2>6. TaskOK(u)'
    BY <2>1, <2>5, TruthKept
  <2>7. WireOK'
    BY <2>1, <2>2, WireTaken DEF ApplyReceipt, Takes
  <2> QED
    BY <2>1, <2>2, <2>4, <2>6, <2>7, TaskBecomes, PartsKeep
<1>ApplyPatchStep. ASSUME NEW c \in Client, NEW x \in DOMAIN wire[c], ApplyPatch(c, x)
                   PROVE  MessagesInv' /\ HistoryStep
  <2> USE <1>ApplyPatchStep
  <2>1. UNCHANGED <<tasks, listed>>
    BY DEF ApplyPatch
  <2>2. PICK g : Update(c, g) /\ Patches(history[c], g, x.id, {})
    BY DeletePatches, ReactionPatches DEF ApplyPatch, Patched
  <2>3. HistoryStep
    BY <2>1, <2>2, PatchKeeps, SMT DEF MessagesInv
  <2>4. WireOK'
    BY <2>1, <2>3, WireTaken DEF ApplyPatch, Takes
  <2> QED
    BY <2>1, <2>3, <2>4, TaskEnds, PartsKeep
<1>ApplyEditStep. ASSUME NEW c \in Client, NEW x \in DOMAIN wire[c], ApplyEdit(c, x)
                  PROVE  MessagesInv' /\ HistoryStep
  <2> USE <1>ApplyEditStep
  <2>1. UNCHANGED <<history, listed>>
    BY DEF ApplyEdit, stores
  <2>2. HistoryStep
    BY <2>1, SameHistory DEF MessagesInv
  <2>3. c = Reader
    BY TwoClients DEF ApplyEdit, MessagesInv, ContentOK
  <2>4. TasksOK'
    <3>1. CASE x.id \in DOMAIN history[c]
      <4>1. PICK old : old = history[c][x.id] /\ Good(old)
        BY <3>1 DEF MessagesInv, HistoryInv
      <4>2. PICK m : m = Over([body |-> x.body], old) /\ Good(m)
        <5>1. Good(Over([body |-> x.body], old))
          BY <4>1 DEF Over, Good
        <5> QED
          BY <5>1
      <4>3. tasks' = tasks \cup {[Task(c, "handle", x.id, "storing", <<>>) EXCEPT !.copy = {m}]}
        BY <3>1, <4>1, <4>2 DEF ApplyEdit
      <4>4. PICK u : tasks' = tasks \cup {u} /\ HasFields(u, c, "handle", x.id, "storing", <<>>, {m})
        BY <4>3, TaskFields
      <4>5. TaskOK(u)'
        BY <2>1, <2>3, <3>1, <4>2, <4>4, TwoClients DEF HasFields, TaskOK, Shape, ReaderTask
      <4> QED
        BY <2>1, <2>2, <4>4, <4>5, TaskBecomes
    <3>2. CASE x.id \notin DOMAIN history[c]
      BY <2>1, <2>2, <3>2, TaskEnds DEF ApplyEdit
    <3> QED
      BY <3>1, <3>2
  <2>5. WireOK'
    BY <2>1, <2>2, WireTaken DEF ApplyEdit, Takes
  <2> QED
    BY <2>2, <2>4, <2>5, PartsKeep
<1>ApplyChunkStep. ASSUME NEW c \in Client, NEW x \in DOMAIN wire[c], ApplyChunk(c, x)
                   PROVE  MessagesInv' /\ HistoryStep
  <2> USE <1>ApplyChunkStep
  <2>1. UNCHANGED <<history, listed>>
    BY DEF ApplyChunk
  <2>2. HistoryStep
    BY <2>1, SameHistory DEF MessagesInv
  <2>3. c = Reader
    BY TwoClients DEF ApplyChunk, MessagesInv, ContentOK
  <2>4. tasks' = tasks \/ \E body :
          tasks' = tasks \cup {[Task(c, "file", x.id, "storing", <<Receipt({x.id}, "delivered")>>)
                                 EXCEPT !.copy = {Over([attachment |-> x.id], Incoming(body))}]}
    BY DEF ApplyChunk
  <2>5. TasksOK'
    <3>1. ASSUME NEW body,
                 tasks' = tasks \cup {[Task(c, "file", x.id, "storing", <<Receipt({x.id}, "delivered")>>)
                                        EXCEPT !.copy = {Over([attachment |-> x.id], Incoming(body))}]}
          PROVE  TasksOK'
      <4>1. PICK m : m = Over([attachment |-> x.id], Incoming(body)) /\ Good(m)
        <5>1. Good(Over([attachment |-> x.id], Incoming(body)))
          BY DEF Over, Incoming, Good
        <5> QED
          BY <5>1
      <4>2. PICK u : /\ tasks' = tasks \cup {u}
                     /\ HasFields(u, c, "file", x.id, "storing", <<Receipt({x.id}, "delivered")>>, {m})
        BY <3>1, <4>1, TaskFields
      <4>3. TaskOK(u)'
        BY <2>3, <4>1, <4>2, TwoClients DEF HasFields, TaskOK, Shape, ReaderTask
      <4> QED
        BY <2>1, <2>2, <4>2, <4>3, TaskBecomes
    <3> QED
      BY <2>1, <2>2, <2>4, <3>1, TaskEnds
  <2>6. WireOK'
    BY <2>1, <2>2, WireTaken DEF ApplyChunk, Takes
  <2> QED
    BY <2>2, <2>5, <2>6, PartsKeep
<1>FaultStep. ASSUME NEW c \in Client, Lose(c) \/ Crash(c)
              PROVE  MessagesInv' /\ HistoryStep
  <2> USE <1>FaultStep
  <2>1. UNCHANGED <<history, listed>> /\ tasks' \subseteq tasks
    BY DEF Lose, Crash, stores
  <2>2. HistoryStep
    BY <2>1, SameHistory DEF MessagesInv
  <2>3. WireOK'
    BY <2>1, <2>2, WireSame, WireTaken DEF Lose, Crash
  <2> QED
    BY <2>1, <2>2, <2>3, TaskEnds, PartsKeep
<1>1. ASSUME NEW c \in Client, NEW x \in DOMAIN wire[c], Handle(c, x)
      PROVE  MessagesInv' /\ HistoryStep
  BY <1>1, <1>ApplyTextStep, <1>ApplyReceiptStep, <1>ApplyPatchStep, <1>ApplyEditStep, <1>ApplyChunkStep DEF Handle
<1>2. ASSUME NEW t \in tasks, TaskStep(t) \/ PostFails(t)
      PROVE  MessagesInv' /\ HistoryStep
  BY <1>2, <1>RetryPendingStep, <1>ClearUnreadStep, <1>PostStep, <1>PatchStatusStep, <1>StoreCopyStep, <1>CountStep, <1>ConfirmStep
     DEF TaskStep
<1>3. ASSUME NEW id, Retry(id) \/ Delete(id) \/ Edit(id) \/ \E c \in Client : React(c, id)
      PROVE  MessagesInv' /\ HistoryStep
  BY <1>3, <1>CopyStep, <1>SignalStep, TwoClients
<1>4. CASE UNCHANGED vars
  <2>1. HistoryStep
    BY <1>4, SameHistory DEF vars, MessagesInv
  <2> QED
    BY <1>4, <2>1, TaskEnds, WireSame, PartsKeep DEF vars
<1> QED
  BY <1>1, <1>2, <1>3, <1>4, <1>SendStep, <1>MarkReadStep, <1>FaultStep DEF Next

(* What the author sees of a message is so: shown as delivered, it is in   *)
(* the reader's history; for any number of messages, calls and faults.     *)
THEOREM DeliveredIsDelivered == Spec => []DeliveredIsTrue
<1>1. MessagesInv => DeliveredIsTrue
  BY DEF MessagesInv, HistoryInv, TrueStatus, DeliveredIsTrue
<1> QED
  BY <1>1, MessagesInit, MessagesStep, PTL DEF Spec

(* ... and shown as read, a markRead of the reader has listed it. *)
THEOREM ReadIsRead == Spec => []ReadIsTrue
<1>1. MessagesInv => ReadIsTrue
  BY DEF MessagesInv, HistoryInv, TrueStatus, ReadIsTrue
<1> QED
  BY <1>1, MessagesInit, MessagesStep, PTL DEF Spec

(* No edit, late copy, repeated text or retry brings a retracted message   *)
(* back, whatever is under way when it is retracted.                       *)
THEOREM RetractedStaysRetracted == Spec => TombstoneStays
<1>1. MessagesInv /\ [Next]_vars => Kept
  BY MessagesStep DEF HistoryStep
<1> QED
  BY <1>1, MessagesInit, MessagesStep, PTL DEF Spec, TombstoneStays, Kept

-----------------------------------------------------------------------------
(* No message of the author stays pending: while nothing disturbs it, one  *)
(* that is pending has the call that is sending it, and that call ends in  *)
(* a status.                                                               *)
Pending(id) == id \in DOMAIN history[Author] /\ history[Author][id].status = "pending"

IsSending(t, id) ==
  t.client = Author /\ t.op = "send" /\ t.id = id /\ t.step \in {"posting", "sent", "failed"}

Sending(id) == \E t \in tasks : IsSending(t, id)

Settles == causes \cap {"crash", "stale"} = {}

PendingInv == Settles => \A id : Pending(id) => Sending(id)

LEMMA PendingKeeps ==
  ASSUME PendingInv, causes \subseteq causes',
         Settles' => \A id : Pending(id)' => Sending(id)' \/ (Pending(id) /\ (Sending(id) => Sending(id)'))
  PROVE  PendingInv'
BY DEF PendingInv, Settles

(* A step that makes nothing pending and ends no sending. *)
LEMMA PendingUntouched ==
  ASSUME PendingInv, causes \subseteq causes',
         \A id : Pending(id)' => Pending(id),
         \A t \in tasks : t \in tasks' \/ \A id : ~IsSending(t, id)
  PROVE  PendingInv'
<1>1. \A id : Sending(id) => Sending(id)'
  BY DEF Sending, IsSending
<1> QED
  BY <1>1, PendingKeeps

LEMMA SamePending ==
  ASSUME history' = history
  PROVE  \A id : Pending(id)' => Pending(id)
BY DEF Pending

LEMMA PatchPending ==
  ASSUME MessagesInv, NEW c \in Client, NEW g, Update(c, g), NEW j, NEW S, Patches(history[c], g, j, S),
         "pending" \notin S \/ c = Reader
  PROVE  \A id : Pending(id)' => Pending(id)
<1>1. history'[Author] = IF c = Author THEN g ELSE history[Author]
  BY TwoClients DEF Update, MessagesInv, HistoryInv
<1>2. CASE c = Reader
  BY <1>1, <1>2, TwoClients DEF Pending
<1>3. CASE c = Author /\ "pending" \notin S
  BY <1>1, <1>3 DEF Pending, Patches, MessagesInv, HistoryInv
<1> QED
  BY <1>2, <1>3, TwoClients

LEMMA StatusPending ==
  ASSUME MessagesInv, NEW c \in Client, NEW j, NEW s, Update(c, SetMessageStatus(history[c], j, s)),
         s # "pending" \/ c = Reader
  PROVE  \A id : Pending(id)' => Pending(id)
<1>1. PICK g : Update(c, g) /\ Patches(history[c], g, j, {s})
  BY StatusPatches
<1> QED
  BY <1>1, PatchPending

LEMMA AppendPending ==
  ASSUME MessagesInv, NEW c \in Client, NEW j, NEW m, Good(m), Update(c, AppendMessage(history[c], j, m))
  PROVE  \A id : Pending(id)' => Pending(id) \/ (c = Author /\ id = j /\ m.status = "pending")
<1>1. PICK g : Update(c, g) /\ Appends(history[c], g, j, m)
  BY AppendGrows
<1>2. history'[Author] = IF c = Author THEN g ELSE history[Author]
  BY <1>1, TwoClients DEF Update, MessagesInv, HistoryInv
<1> QED
  BY <1>1, <1>2 DEF Pending, Appends

LEMMA PendingStep ==
  ASSUME MessagesInv, PendingInv, [Next]_vars
  PROVE  PendingInv'
<1>PendingSend. ASSUME SendText \/ SendAttachment
                PROVE  PendingInv'
  <2> USE <1>PendingSend
  <2>1. PICK id : id = written + 1
    OBVIOUS
  <2>2. PICK send, m :
          /\ tasks' = tasks \cup {Task(Author, "send", id, "posting", send)}
          /\ Update(Author, AppendMessage(history[Author], id, m))
          /\ Good(m)
    <3>1. CASE SendText
      BY <2>1, <3>1, SMT DEF SendText, Begin, Outgoing, Good
    <3>2. CASE SendAttachment
      <4> DEFINE m == Over([attachment |-> id], Outgoing("pending"))
      <4>1. Good(m)
        BY DEF Over, Outgoing, Good
      <4> HIDE DEF m
      <4> QED
        BY <2>1, <3>2, <4>1 DEF SendAttachment, Begin, m
    <3> QED
      BY <3>1, <3>2
  <2>3. causes' = causes
    BY DEF SendText, SendAttachment
  <2>4. PICK t : tasks' = tasks \cup {t} /\ HasFields(t, Author, "send", id, "posting", send, {})
    BY <2>2, TaskFields
  <2>5. \A j : Pending(j)' => Pending(j) \/ j = id
    BY <2>2, AppendPending, TwoClients
  <2>6. Sending(id)' /\ \A j : Sending(j) => Sending(j)'
    BY <2>4 DEF Sending, IsSending, HasFields
  <2> QED
    BY <2>3, <2>5, <2>6, PendingKeeps
<1>PendingCalls. ASSUME NEW c \in Client, NEW id,
                        MarkRead \/ Retry(id) \/ Edit(id) \/ (c = Author /\ Delete(id)) \/ React(c, id)
                 PROVE  PendingInv'
  <2> USE <1>PendingCalls
  <2>1. causes \subseteq causes' /\ \E t : tasks' = tasks \cup {t}
    BY DEF MarkRead, Retry, Edit, Delete, React, Begin
  <2>2. history' = history \/ \E g : Update(c, g) /\ Patches(history[c], g, id, {})
    BY DeletePatches, ReactionPatches DEF MarkRead, Retry, Edit, Delete, React, stores
  <2>3. \A j : Pending(j)' => Pending(j)
    BY <2>2, SamePending, PatchPending
  <2> QED
    BY <2>1, <2>3, PendingUntouched
<1>PendingRetry. ASSUME NEW t \in tasks, RetryPending(t)
                 PROVE  PendingInv'
  <2> USE <1>PendingRetry
  <2>1. TaskOK(t) /\ t.client = Author /\ t.op = "send" /\ t.step = "retrying" /\ causes' = causes
    BY TwoClients DEF RetryPending, MessagesInv, TaskOK, ReaderTask, Shape
  <2>2. PICK send, u : /\ tasks' = (tasks \ {t}) \cup {u}
                       /\ HasFields(u, t.client, t.op, t.id, "posting", send, {})
    BY <2>1, ChangedTask DEF RetryPending, Becomes, TaskOK
  <2>3. Sending(t.id)' /\ \A j : Sending(j) => Sending(j)'
    BY <2>1, <2>2 DEF Sending, IsSending, HasFields
  <2>4. PICK g : Update(Author, g) /\ Patches(history[Author], g, t.id, {"pending"})
    BY <2>1, StatusPatches DEF RetryPending
  <2>5. \A j : Pending(j)' => Pending(j) \/ j = t.id
    <3>1. history'[Author] = g
      BY <2>4, TwoClients DEF Update, MessagesInv, HistoryInv
    <3> QED
      BY <2>4, <3>1 DEF Patches, Pending
  <2> QED
    BY <2>1, <2>3, <2>5, PendingKeeps
<1>PendingPost. ASSUME NEW t \in tasks, Post(t) \/ PostFails(t)
                PROVE  PendingInv'
  <2> USE <1>PendingPost
  <2>1. TaskOK(t) /\ t.step = "posting" /\ history' = history /\ causes \subseteq causes'
    BY DEF MessagesInv, Post, PostFails, stores
  <2>2. CASE t.op # "send"
    <3>1. tasks \ {t} \subseteq tasks'
      BY DEF Post, PostFails, Ends, Goes, Becomes
    <3> QED
      BY <2>1, <2>2, <3>1, SamePending, PendingUntouched DEF IsSending
  <2>3. CASE t.op = "send"
    <3>1. PICK step, send, u : /\ tasks' = (tasks \ {t}) \cup {u}
                               /\ step \in {"posting", "sent", "failed"}
                               /\ HasFields(u, t.client, t.op, t.id, step, send, t.copy)
      <4>1. CASE \E step \in {"sent", "failed"} : Goes(t, step)
        BY <2>1, <4>1, ChangedTask DEF Goes, Becomes, TaskOK
      <4>2. CASE Becomes(t, [t EXCEPT !.send = Tail(@)])
        <5>1. tasks' = (tasks \ {t}) \cup {[t EXCEPT !.send = Tail(t.send)]}
          BY <4>2 DEF Becomes
        <5>2. HasFields([t EXCEPT !.send = Tail(t.send)], t.client, t.op, t.id, t.step, Tail(t.send), t.copy)
          BY <2>1, ChangedTask DEF TaskOK
        <5> QED
          BY <2>1, <5>1, <5>2
      <4> QED
        BY <2>3, <4>1, <4>2 DEF Post, PostFails
    <3>2. \A id : Sending(id) => Sending(id)'
      BY <2>1, <3>1 DEF Sending, IsSending, HasFields
    <3> QED
      BY <2>1, <3>2, SamePending, PendingKeeps
  <2> QED
    BY <2>2, <2>3
<1>PendingPatch. ASSUME NEW t \in tasks, PatchStatus(t)
                 PROVE  PendingInv'
  <2> USE <1>PendingPatch
  <2>1. /\ TaskOK(t) /\ t.client \in Client /\ t.step \in {"sent", "failed"} /\ causes' = causes
        /\ Update(t.client, SetMessageStatus(history[t.client], t.id, t.step)) /\ Ends(t)
    BY DEF MessagesInv, TaskOK, PatchStatus
  <2>2. t.client = Author
    BY <2>1, TwoClients DEF TaskOK, Shape
  <2>3. PICK g : Update(Author, g) /\ Patches(history[Author], g, t.id, {t.step}) /\ g = SetMessageStatus(history[Author], t.id, t.step)
    BY <2>1, <2>2, StatusPatches
  <2>4. \A id : Pending(id)' => Pending(id)
    BY <2>1, <2>2, StatusPending
  <2>5. ~Pending(t.id)'
    <3>1. history'[Author] = g
      BY <2>3, TwoClients DEF Update, MessagesInv, HistoryInv
    <3>2. t.id \in DOMAIN history[Author] => Good(history[Author][t.id])
      BY TwoClients DEF MessagesInv, HistoryInv
    <3>3. t.id \in DOMAIN g => g[t.id] = Over([status |-> t.step], history[Author][t.id])
      BY <2>3 DEF SetMessageStatus, PatchMessage, Put
    <3>4. Over([status |-> t.step], history[Author][t.id]).status = t.step
      BY DEF Over
    <3> QED
      BY <2>1, <3>1, <3>3, <3>4 DEF Pending
  <2>6. \A id : id # t.id => (Sending(id) => Sending(id)')
    BY <2>1 DEF Sending, IsSending, Ends
  <2> QED
    BY <2>1, <2>4, <2>5, <2>6, PendingKeeps
(* An edit that is not stale leaves the status as it is. *)
<1>PendingStore. ASSUME NEW t \in tasks, StoreCopy(t)
                 PROVE  PendingInv'
  <2> USE <1>PendingStore
  <2>1. TaskOK(t) /\ t.step = "storing" /\ t.client \in Client /\ causes \subseteq causes'
    BY DEF MessagesInv, TaskOK, StoreCopy
  <2>2. PICK m \in t.copy :
          /\ Update(t.client, AppendMessage(history[t.client], t.id, m))
          /\ \/ t.id \notin DOMAIN history[t.client]
             \/ t.op = "file"
             \/ Over([body |-> m.body], history[t.client][t.id]) = m
             \/ "stale" \in causes'
    BY DEF StoreCopy
  <2>3. Good(m)
    BY <2>1, <2>2 DEF TaskOK
  <2>4. tasks \ {t} \subseteq tasks' /\ \A id : ~IsSending(t, id)
    BY <2>1 DEF StoreCopy, Ends, Goes, Becomes, IsSending
  <2>5. Settles' => \A id : Pending(id)' => Pending(id)
    <3> SUFFICES ASSUME Settles', NEW id, Pending(id)' PROVE Pending(id)
      OBVIOUS
    <3>1. Pending(id) \/ (t.client = Author /\ id = t.id /\ m.status = "pending")
      BY <2>1, <2>2, <2>3, AppendPending
    <3>2. ASSUME t.client = Author, id = t.id, m.status = "pending"
          PROVE  Pending(id)
      <4>1. id \in DOMAIN history[Author] /\ t.op # "file"
        BY <2>1, <3>2 DEF TaskOK, Shape
      <4>2. PICK old : old = history[Author][id] /\ Good(old)
        BY <4>1, TwoClients DEF MessagesInv, HistoryInv
      <4>3. Over([body |-> m.body], old) = m
        BY <2>2, <3>2, <4>1, <4>2 DEF Settles
      <4>4. Over([body |-> m.body], old).status = old.status
        BY <4>2 DEF Over, Good
      <4> QED
        BY <3>2, <4>1, <4>2, <4>3, <4>4 DEF Pending
    <3> QED
      BY <3>1, <3>2
  <2>6. \A id : Sending(id) => Sending(id)'
    BY <2>4 DEF Sending
  <2> QED
    BY <2>1, <2>5, <2>6, PendingKeeps
<1>PendingOther. ASSUME NEW t \in tasks,
                        ClearUnread(t) \/ ReadUnread(t) \/ IncrementUnread(t) \/ Confirm(t)
                 PROVE  PendingInv'
  <2> USE <1>PendingOther
  <2>1. TaskOK(t) /\ t.client \in Client /\ t.step \in {"clearing", "counting", "counted", "confirming"}
    BY DEF MessagesInv, TaskOK, ClearUnread, ReadUnread, IncrementUnread, Confirm
  <2>2. tasks \ {t} \subseteq tasks' /\ \A id : ~IsSending(t, id)
    BY <2>1 DEF ClearUnread, ReadUnread, IncrementUnread, Confirm, Ends, Goes, Becomes, IsSending
  <2>3. causes \subseteq causes'
    BY DEF ClearUnread, ReadUnread, IncrementUnread, Confirm
  <2>4. \A id : Pending(id)' => Pending(id)
    <3>1. CASE Confirm(t)
      <4>1. PICK x : x = Head(t.send)
        OBVIOUS
      <4>2. t.client = Author => TrueReceipt(x)
        BY <2>1, <3>1, <4>1, TwoClients, SMT DEF Confirm, TaskOK, AuthorTask
      <4>3. PICK j : Update(t.client, SetMessageStatus(history[t.client], j, x.kind))
        BY <3>1, <4>1 DEF Confirm
      <4>4. x.kind # "pending" \/ t.client = Reader
        BY <2>1, <4>2, TwoClients DEF TrueReceipt
      <4> QED
        BY <2>1, <4>3, <4>4, StatusPending
    <3> QED
      BY <3>1, SamePending DEF ClearUnread, ReadUnread, IncrementUnread, stores
  <2> QED
    BY <2>2, <2>3, <2>4, PendingUntouched
<1>PendingHandle. ASSUME NEW c \in Client, NEW x \in DOMAIN wire[c], Handle(c, x)
                  PROVE  PendingInv'
  <2> USE <1>PendingHandle
  <2>1. tasks \subseteq tasks' /\ causes \subseteq causes'
    BY DEF Handle, ApplyText, ApplyReceipt, ApplyPatch, ApplyEdit, ApplyChunk
  <2>2. \A id : Pending(id)' => Pending(id)
    <3>1. CASE ApplyText(c, x)
      <4>1. c = Reader
        BY <3>1, TwoClients DEF ApplyText, MessagesInv, ContentOK
      <4>2. Good(Incoming(x.body))
        BY DEF Good, Incoming
      <4> QED
        BY <3>1, <4>1, <4>2, TwoClients, AppendPending DEF ApplyText
    <3>2. CASE ApplyPatch(c, x)
      <4>1. PICK g : Update(c, g) /\ Patches(history[c], g, x.id, {})
        BY <3>2, DeletePatches, ReactionPatches DEF ApplyPatch, Patched
      <4>2. "pending" \notin {}
        OBVIOUS
      <4> QED
        BY <4>1, <4>2, PatchPending
    <3>3. CASE history' = history
      BY <3>3, SamePending
    <3> QED
      BY <3>1, <3>2, <3>3 DEF Handle, ApplyReceipt, ApplyEdit, ApplyChunk, stores
  <2> QED
    BY <2>1, <2>2, PendingUntouched
<1>PendingFault. ASSUME NEW c, Lose(c) \/ Crash(c) \/ UNCHANGED vars
                 PROVE  PendingInv'
  <2> USE <1>PendingFault
  <2>1. CASE Crash(c)
    BY <2>1 DEF Crash, PendingInv, Settles
  <2>2. CASE Lose(c) \/ UNCHANGED vars
    BY <2>2, SamePending, PendingUntouched DEF Lose, stores, vars
  <2> QED
    BY <2>1, <2>2
<1>1. ASSUME NEW t \in tasks, TaskStep(t) \/ PostFails(t)
      PROVE  PendingInv'
  BY <1>1, <1>PendingRetry, <1>PendingPost, <1>PendingPatch, <1>PendingStore, <1>PendingOther DEF TaskStep
<1>2. ASSUME NEW id, Retry(id) \/ Delete(id) \/ Edit(id) \/ \E c \in Client : React(c, id)
      PROVE  PendingInv'
  BY <1>2, <1>PendingCalls, TwoClients
<1> QED
  BY <1>1, <1>2, <1>PendingSend, <1>PendingCalls, <1>PendingHandle, <1>PendingFault, TwoClients DEF Next

(* Every message of the author ends up sent, failed or better, whatever    *)
(* order posts, receipts, retries and edits come in: at rest none is       *)
(* pending unless the page closed or an edit wrote an older copy back.     *)
THEOREM NothingStaysPending == Spec => []NonePendingAtRest
<1>1. Init => PendingInv
  BY TwoClients, SMT DEF Init, PendingInv, Pending, EmptyHistory
<1>2. PendingInv => NonePendingAtRest
  BY DEF PendingInv, Pending, Sending, Settles, NonePendingAtRest, Resting
<1> QED
  BY <1>1, <1>2, MessagesInit, MessagesStep, PendingStep, PTL DEF Spec

-----------------------------------------------------------------------------
(* The reader's badge.  While markRead and incrementUnread do not run into *)
(* each other, a message that no markRead listed is counted or has the     *)
(* call that counts it, and a count that is left has the markRead that     *)
(* clears it.                                                              *)
CountsInv ==
  /\ unread \in Nat
  /\ \A t \in tasks : "count" \in DOMAIN t /\ t.count \in Nat

LEMMA CountsKeep ==
  ASSUME CountsInv, unread' \in Nat, NEW u, tasks' \subseteq tasks \cup {u}, "count" \in DOMAIN u, u.count \in Nat
  PROVE  CountsInv'
BY DEF CountsInv

LEMMA TaskCount ==
  ASSUME NEW c, NEW op, NEW id, NEW step, NEW send
  PROVE  /\ "count" \in DOMAIN Task(c, op, id, step, send) /\ Task(c, op, id, step, send).count = 0
         /\ \A copy : /\ "count" \in DOMAIN [Task(c, op, id, step, send) EXCEPT !.copy = copy]
                      /\ [Task(c, op, id, step, send) EXCEPT !.copy = copy].count = 0
BY DEF Task

LEMMA CountsStep ==
  ASSUME CountsInv, [Next]_vars
  PROVE  CountsInv'
<1>1. CASE SendText \/ SendAttachment \/ MarkRead
  <2>1. PICK c, op, id, step, send : tasks' = tasks \cup {Task(c, op, id, step, send)}
    BY <1>1 DEF SendText, SendAttachment, MarkRead, Begin
  <2>2. unread' = unread
    BY <1>1 DEF SendText, SendAttachment, MarkRead, stores
  <2> QED
    BY <2>1, <2>2, TaskCount, CountsKeep, SMT DEF CountsInv
<1>2. ASSUME NEW i, Retry(i) \/ Delete(i) \/ Edit(i) \/ \E c \in Client : React(c, i)
      PROVE  CountsInv'
  <2>1. PICK c, op, id, step, send, copy :
          \/ tasks' = tasks \cup {Task(c, op, id, step, send)}
          \/ tasks' = tasks \cup {[Task(c, op, id, step, send) EXCEPT !.copy = copy]}
    <3>1. CASE Retry(i)
      BY <3>1 DEF Retry, Begin
    <3>2. CASE Edit(i)
      BY <3>2 DEF Edit, Begin
    <3>3. CASE Delete(i)
      BY <3>3 DEF Delete, Begin
    <3>4. CASE \E c \in Client : React(c, i)
      <4>1. PICK c \in Client : React(c, i)
        BY <3>4
      <4>2. PICK send : tasks' = tasks \cup {Task(c, "signal", i, "posting", send)}
        BY <4>1 DEF React, Begin
      <4> QED
        BY <4>2
    <3> QED
      BY <1>2, <3>1, <3>2, <3>3, <3>4
  <2>2. unread' = unread
    BY <1>2 DEF Retry, Delete, Edit, React, stores
  <2> QED
    BY <2>1, <2>2, TaskCount, CountsKeep, SMT DEF CountsInv
<1>3. ASSUME NEW t \in tasks, TaskStep(t) \/ PostFails(t)
      PROVE  CountsInv'
  <2>1. "count" \in DOMAIN t /\ t.count \in Nat /\ unread \in Nat
    BY DEF CountsInv
  <2>2. unread' \in Nat
    <3>1. IncrementUnread(t) => unread' = t.count + 1
      BY DEF IncrementUnread
    <3>2. ClearUnread(t) => unread' = 0
      BY DEF ClearUnread
    <3>3. Post(t) \/ PostFails(t) \/ ReadUnread(t) => unread' = unread
      BY DEF Post, PostFails, ReadUnread, stores
    <3>4. RetryPending(t) \/ PatchStatus(t) \/ StoreCopy(t) \/ Confirm(t) => unread' = unread
      BY DEF RetryPending, PatchStatus, StoreCopy, Confirm
    <3> QED
      BY <1>3, <2>1, <3>1, <3>2, <3>3, <3>4, SMT DEF TaskStep
  <2>3. CASE Ends(t)
    BY <2>2, <2>3 DEF Ends, CountsInv
  <2>4. ASSUME NEW step, Goes(t, step)
        PROVE  CountsInv'
    BY <2>1, <2>2, <2>4, CountsKeep DEF Goes, Becomes
  <2>5. ASSUME NEW send, Becomes(t, [t EXCEPT !.send = send])
        PROVE  CountsInv'
    BY <2>1, <2>2, <2>5, CountsKeep DEF Becomes
  <2>6. ASSUME NEW step, NEW send, \/ Becomes(t, [t EXCEPT !.step = step, !.copy = {}, !.send = send])
                                   \/ Becomes(t, [t EXCEPT !.step = step, !.copy = {}])
        PROVE  CountsInv'
    BY <2>1, <2>2, <2>6, CountsKeep DEF Becomes
  <2>7. ASSUME NEW step, Becomes(t, [t EXCEPT !.step = step, !.count = unread])
        PROVE  CountsInv'
    BY <2>1, <2>2, <2>7, CountsKeep DEF Becomes
  <2>8. CASE RetryPending(t) \/ ClearUnread(t) \/ PostFails(t) \/ PatchStatus(t) \/ StoreCopy(t) \/ IncrementUnread(t)
    BY <2>3, <2>4, <2>6, <2>8 DEF RetryPending, ClearUnread, PostFails, PatchStatus, StoreCopy, IncrementUnread
  <2>9. CASE Post(t)
    <3>1. Becomes(t, [t EXCEPT !.send = Tail(@)]) => Becomes(t, [t EXCEPT !.send = Tail(t.send)])
      BY DEF Becomes
    <3> QED
      BY <2>3, <2>4, <2>5, <2>9, <3>1 DEF Post
  <2>10. CASE ReadUnread(t) \/ Confirm(t)
    BY <2>3, <2>5, <2>7, <2>10 DEF ReadUnread, Confirm
  <2> QED
    BY <1>3, <2>8, <2>9, <2>10 DEF TaskStep
<1>4. ASSUME NEW d \in Client, NEW x \in DOMAIN wire[d], Handle(d, x)
      PROVE  CountsInv'
  <2>1. \/ tasks' \subseteq tasks
        \/ \E c, op, id, step, send : tasks' = tasks \cup {Task(c, op, id, step, send)}
        \/ \E c, op, id, step, send, copy : tasks' = tasks \cup {[Task(c, op, id, step, send) EXCEPT !.copy = copy]}
    <3>1. CASE ApplyText(d, x) \/ ApplyReceipt(d, x) \/ ApplyPatch(d, x)
      BY <3>1 DEF ApplyText, ApplyReceipt, ApplyPatch
    <3>2. CASE ApplyEdit(d, x)
      BY <3>2 DEF ApplyEdit
    <3>3. CASE ApplyChunk(d, x)
      <4>1. tasks' = tasks \/ \E body :
              tasks' = tasks \cup {[Task(d, "file", x.id, "storing", <<Receipt({x.id}, "delivered")>>)
                                     EXCEPT !.copy = {Over([attachment |-> x.id], Incoming(body))}]}
        BY <3>3 DEF ApplyChunk
      <4> QED
        BY <4>1
    <3> QED
      BY <1>4, <3>1, <3>2, <3>3 DEF Handle
  <2>2. unread' = unread
    BY <1>4 DEF Handle, ApplyText, ApplyReceipt, ApplyPatch, ApplyEdit, ApplyChunk, stores
  <2>3. CASE tasks' \subseteq tasks
    BY <2>2, <2>3 DEF CountsInv
  <2> QED
    BY <2>1, <2>2, <2>3, TaskCount, CountsKeep, SMT DEF CountsInv
<1>5. CASE (\E c \in Client : Lose(c) \/ Crash(c)) \/ UNCHANGED vars
  BY <1>5 DEF Lose, Crash, stores, vars, CountsInv
<1> QED
  BY <1>1, <1>2, <1>3, <1>4, <1>5 DEF Next

Waits == \E id \in DOMAIN history[Reader] : id \notin listed
Undisturbed == causes \cap {"overlap", "repeat", "crash"} = {}

IsCounting(t) == t.step \in {"counting", "counted"}
IsClearing(t) == t.step = "clearing"

BadgeInv ==
  /\ listed \subseteq DOMAIN history[Reader]
  /\ Undisturbed =>
       /\ \A t \in tasks : IsCounting(t) => t.id \notin listed
       /\ Waits => unread # 0 \/ \E t \in tasks : IsCounting(t)
       /\ ~Waits /\ unread # 0 => \E t \in tasks : IsClearing(t)

(* A step that touches neither the count nor what it is about. *)
LEMMA BadgeSame ==
  ASSUME BadgeInv, UNCHANGED <<unread, listed>>, causes \subseteq causes',
         DOMAIN history'[Reader] = DOMAIN history[Reader],
         NEW t, IsCounting(t) \/ IsClearing(t) => t \in tasks',
         NEW u, ~IsCounting(u), ~IsClearing(u),
         tasks \ {t} \subseteq tasks', tasks' \subseteq tasks \cup {u}
  PROVE  BadgeInv'
BY DEF BadgeInv, Undisturbed, Waits, IsCounting, IsClearing

(* Patches, and what the author writes, add no message to the reader's     *)
(* history.                                                                *)
LEMMA ReaderSame ==
  ASSUME MessagesInv, NEW c \in Client, NEW g, Update(c, g), c = Author \/ DOMAIN g = DOMAIN history[c]
  PROVE  DOMAIN history'[Reader] = DOMAIN history[Reader]
BY TwoClients DEF Update, MessagesInv, HistoryInv

IsAt(t, id, step) == t.id = id /\ t.step = step

LEMMA TaskSteps ==
  ASSUME NEW c, NEW op, NEW id, NEW step, NEW send
  PROVE  /\ IsAt(Task(c, op, id, step, send), id, step)
         /\ \A copy : IsAt([Task(c, op, id, step, send) EXCEPT !.copy = copy], id, step)
BY DEF Task, IsAt

LEMMA ChangedSteps ==
  ASSUME NEW t, TaskOK(t), NEW step, NEW send, NEW n
  PROVE  /\ IsAt([t EXCEPT !.step = step], t.id, step)
         /\ IsAt([t EXCEPT !.send = send], t.id, t.step)
         /\ IsAt([t EXCEPT !.step = step, !.copy = {}], t.id, step)
         /\ IsAt([t EXCEPT !.step = step, !.copy = {}, !.send = send], t.id, step)
         /\ IsAt([t EXCEPT !.step = step, !.count = n], t.id, step)
BY DEF TaskOK, IsAt

(* A message came in: it is not listed, and the call that brought it goes  *)
(* on to count it.                                                         *)
LEMMA BadgeComesIn ==
  ASSUME BadgeInv, UNCHANGED <<unread, listed>>, causes \subseteq causes',
         NEW id, DOMAIN history'[Reader] = DOMAIN history[Reader] \cup {id},
         id \in DOMAIN history[Reader] => "repeat" \in causes',
         NEW t, ~IsCounting(t), ~IsClearing(t),
         NEW u, IsCounting(u), u.id = id,
         tasks \ {t} \subseteq tasks', tasks' \subseteq tasks \cup {u}, u \in tasks'
  PROVE  BadgeInv'
<1>1. Undisturbed' => Undisturbed /\ id \notin listed
  BY DEF BadgeInv, Undisturbed
<1> QED
  BY <1>1 DEF BadgeInv, Waits, IsCounting, IsClearing

LEMMA CountingTasks == Counting <=> \E t \in tasks : IsCounting(t)
BY DEF Counting, IsCounting

LEMMA BadgeStep ==
  ASSUME MessagesInv, CountsInv, BadgeInv, [Next]_vars
  PROVE  BadgeInv'
<1>BadgeCall. ASSUME NEW c \in Client, NEW id,
                     SendText \/ SendAttachment \/ Retry(id) \/ Edit(id) \/ (c = Author /\ Delete(id)) \/ React(c, id)
              PROVE  BadgeInv'
  <2> USE <1>BadgeCall
  <2>1. UNCHANGED <<unread, listed, causes>>
    BY DEF SendText, SendAttachment, Retry, Edit, Delete, React, stores
  <2>2. DOMAIN history'[Reader] = DOMAIN history[Reader]
    <3>1. CASE Retry(id) \/ Edit(id)
      BY <3>1 DEF Retry, Edit, stores
    <3>2. CASE SendText \/ SendAttachment
      <4>1. PICK g : Update(Author, g)
        BY <3>2 DEF SendText, SendAttachment
      <4> QED
        BY <4>1, ReaderSame, TwoClients
    <3>3. CASE (c = Author /\ Delete(id)) \/ React(c, id)
      <4>1. PICK g : Update(c, g) /\ Patches(history[c], g, id, {})
        BY <3>3, DeletePatches, ReactionPatches DEF Delete, React
      <4> QED
        BY <4>1, ReaderSame DEF Patches
    <3> QED
      BY <3>1, <3>2, <3>3
  <2>3. PICK u : tasks' = tasks \cup {u} /\ ~IsCounting(u) /\ ~IsClearing(u)
    <3>1. \E u, step : tasks' = tasks \cup {u} /\ (\E i : IsAt(u, i, step)) /\ step \in {"posting", "retrying", "storing"}
      <4>1. CASE SendText \/ SendAttachment
        BY <4>1, TaskSteps DEF SendText, SendAttachment, Begin
      <4>2. CASE Retry(id)
        BY <4>2, TaskSteps DEF Retry, Begin
      <4>3. CASE Edit(id)
        <5>1. PICK send, copy : tasks' = tasks \cup {[Task(Author, "signal", id, "storing", send) EXCEPT !.copy = copy]}
          BY <4>3 DEF Edit, Begin
        <5> QED
          BY <5>1, TaskSteps
      <4>4. CASE Delete(id)
        BY <4>4, TaskSteps DEF Delete, Begin
      <4>5. CASE React(c, id)
        BY <4>5, TaskSteps DEF React, Begin
      <4> QED
        BY <4>1, <4>2, <4>3, <4>4, <4>5
    <3> QED
      BY <3>1 DEF IsAt, IsCounting, IsClearing
  <2> QED
    BY <2>1, <2>2, <2>3, BadgeSame
<1>BadgeTask. ASSUME NEW t \in tasks,
                     RetryPending(t) \/ Post(t) \/ PostFails(t) \/ PatchStatus(t) \/ Confirm(t)
              PROVE  BadgeInv'
  <2> USE <1>BadgeTask
  <2>1. TaskOK(t) /\ t.client \in Client /\ t.step \in {"retrying", "posting", "sent", "failed", "confirming"}
    BY DEF MessagesInv, TaskOK, RetryPending, Post, PostFails, PatchStatus, Confirm
  <2>2. UNCHANGED <<unread, listed>> /\ causes \subseteq causes'
    BY DEF RetryPending, Post, PostFails, PatchStatus, Confirm, stores
  <2>3. DOMAIN history'[Reader] = DOMAIN history[Reader]
    <3>1. CASE Post(t) \/ PostFails(t)
      BY <3>1 DEF Post, PostFails, stores
    <3>2. CASE RetryPending(t) \/ PatchStatus(t) \/ Confirm(t)
      <4>1. PICK id, s : Update(t.client, SetMessageStatus(history[t.client], id, s))
        BY <3>2 DEF RetryPending, PatchStatus, Confirm
      <4>2. PICK g : Update(t.client, g) /\ Patches(history[t.client], g, id, {s})
        BY <4>1, StatusPatches
      <4> QED
        BY <2>1, <4>2, ReaderSame DEF Patches
    <3> QED
      BY <3>1, <3>2
  <2>4. PICK u : /\ tasks \ {t} \subseteq tasks' /\ tasks' \subseteq tasks \cup {u}
                 /\ ~IsCounting(u) /\ ~IsClearing(u)
    <3>1. CASE Ends(t)
      BY <2>1, <3>1 DEF Ends, IsCounting, IsClearing
    <3>2. ASSUME NEW step \in {"sent", "failed"}, Goes(t, step)
          PROVE  \E u : tasks' = (tasks \ {t}) \cup {u} /\ IsAt(u, t.id, step)
      BY <2>1, <3>2, ChangedSteps DEF Goes, Becomes
    <3>3. ASSUME NEW send, Becomes(t, [t EXCEPT !.send = send])
          PROVE  \E u : tasks' = (tasks \ {t}) \cup {u} /\ IsAt(u, t.id, t.step)
      BY <2>1, <3>3, ChangedSteps DEF Becomes
    <3>4. ASSUME NEW send, Becomes(t, [t EXCEPT !.step = "posting", !.copy = {}, !.send = send])
          PROVE  \E u : tasks' = (tasks \ {t}) \cup {u} /\ IsAt(u, t.id, "posting")
      BY <2>1, <3>4, ChangedSteps DEF Becomes
    <3>5. Ends(t) \/ \E u, step : /\ tasks' = (tasks \ {t}) \cup {u}
                                 /\ IsAt(u, t.id, step)
                                 /\ step \in {"posting", "sent", "failed", "confirming"}
      <4>1. CASE Post(t)
        <5>1. Becomes(t, [t EXCEPT !.send = Tail(@)]) => Becomes(t, [t EXCEPT !.send = Tail(t.send)])
          BY DEF Becomes
        <5> QED
          BY <2>1, <3>2, <3>3, <4>1, <5>1 DEF Post
      <4>2. CASE PostFails(t)
        BY <3>2, <4>2 DEF PostFails
      <4>3. CASE RetryPending(t)
        BY <3>4, <4>3 DEF RetryPending
      <4>4. CASE PatchStatus(t) \/ Confirm(t)
        BY <2>1, <3>3, <4>4 DEF PatchStatus, Confirm
      <4> QED
        BY <4>1, <4>2, <4>3, <4>4
    <3> QED
      BY <3>1, <3>5 DEF IsAt, IsCounting, IsClearing
  <2>5. ~IsCounting(t) /\ ~IsClearing(t)
    BY <2>1 DEF IsCounting, IsClearing
  <2> QED
    BY <2>2, <2>3, <2>4, <2>5, BadgeSame
<1>BadgeStore. ASSUME NEW t \in tasks, StoreCopy(t)
               PROVE  BadgeInv'
  <2> USE <1>BadgeStore
  <2>1. TaskOK(t) /\ t.client \in Client /\ t.step = "storing"
    BY DEF MessagesInv, TaskOK, StoreCopy
  <2>2. UNCHANGED <<unread, listed>> /\ causes \subseteq causes'
    BY DEF StoreCopy
  <2>3. ~IsCounting(t) /\ ~IsClearing(t)
    BY <2>1 DEF IsCounting, IsClearing
  <2>4. PICK m \in t.copy :
          /\ Update(t.client, AppendMessage(history[t.client], t.id, m))
          /\ t.id \in DOMAIN history[t.client] /\ t.op = "file" => "repeat" \in causes'
    BY DEF StoreCopy
  <2>5. PICK g : Update(t.client, g) /\ DOMAIN g = DOMAIN history[t.client] \cup {t.id}
    <3>1. Good(m)
      BY <2>1, <2>4 DEF TaskOK
    <3>2. Appends(history[t.client], AppendMessage(history[t.client], t.id, m), t.id, m)
      BY <3>1, AppendGrows
    <3> QED
      BY <2>4, <3>2 DEF Appends
  <2>6. CASE t.op = "file"
    <3>1. t.client = Reader
      BY <2>1, <2>6, TwoClients DEF TaskOK, Shape
    <3>2. DOMAIN history'[Reader] = DOMAIN history[Reader] \cup {t.id}
      BY <2>5, <3>1, TwoClients DEF Update, MessagesInv, HistoryInv
    <3>3. PICK u : tasks' = (tasks \ {t}) \cup {u} /\ IsAt(u, t.id, "counting")
      BY <2>1, <2>6, ChangedSteps DEF StoreCopy, Goes, Becomes
    <3>4. IsCounting(u) /\ u.id = t.id
      BY <3>3 DEF IsAt, IsCounting
    <3>5. t.id \in DOMAIN history[Reader] => "repeat" \in causes'
      BY <2>4, <2>6, <3>1
    <3> QED
      BY <2>2, <2>3, <3>2, <3>3, <3>4, <3>5, BadgeComesIn
  <2>7. CASE t.op # "file"
    <3>1. t.id \in DOMAIN history[t.client]
      BY <2>1, <2>7, TwoClients DEF TaskOK, Shape
    <3>2. DOMAIN history'[Reader] = DOMAIN history[Reader]
      BY <2>1, <2>5, <3>1, ReaderSame
    <3>3. PICK u : /\ tasks \ {t} \subseteq tasks' /\ tasks' \subseteq tasks \cup {u}
                   /\ ~IsCounting(u) /\ ~IsClearing(u)
      <4>1. CASE t.send = <<>>
        BY <2>3, <2>7, <4>1 DEF StoreCopy, Ends
      <4>2. CASE t.send # <<>>
        <5>1. PICK u : tasks' = (tasks \ {t}) \cup {u} /\ IsAt(u, t.id, "posting")
          BY <2>1, <2>7, <4>2, ChangedSteps DEF StoreCopy, Becomes
        <5> QED
          BY <5>1 DEF IsAt, IsCounting, IsClearing
      <4> QED
        BY <4>1, <4>2
    <3> QED
      BY <2>2, <2>3, <3>2, <3>3, BadgeSame
  <2> QED
    BY <2>6, <2>7
<1>BadgeMarkRead. ASSUME MarkRead
                  PROVE  BadgeInv'
  <2> USE <1>BadgeMarkRead
  <2>1. PICK send : tasks' = tasks \cup {Task(Reader, "signal", 0, "clearing", send)}
    BY DEF MarkRead, Begin
  <2>2. PICK u : tasks' = tasks \cup {u} /\ u.step = "clearing"
    BY <2>1, TaskSteps, SMT DEF IsAt
  <2>3. UNCHANGED <<history, unread>> /\ listed' = listed \cup DOMAIN history[Reader] /\ causes \subseteq causes'
    BY DEF MarkRead, stores
  <2>4. Undisturbed' => \A t \in tasks : ~IsCounting(t)
    BY CountingTasks DEF MarkRead, Undisturbed
  <2>5. ~Waits'
    BY <2>3 DEF Waits
  <2>6. (listed \subseteq DOMAIN history[Reader])'
    BY <2>3 DEF BadgeInv
  <2>7. IsClearing(u) /\ ~IsCounting(u)
    BY <2>2 DEF IsClearing, IsCounting
  <2> QED
    BY <2>2, <2>4, <2>5, <2>6, <2>7 DEF BadgeInv
<1>BadgeClear. ASSUME NEW t \in tasks, ClearUnread(t)
               PROVE  BadgeInv'
  <2> USE <1>BadgeClear
  <2>1. UNCHANGED <<history, listed>> /\ unread' = 0 /\ t.step = "clearing" /\ TaskOK(t)
    BY DEF ClearUnread, MessagesInv
  <2>2. Undisturbed' => ~Waits /\ \A u \in tasks : ~IsCounting(u)
    BY CountingTasks DEF ClearUnread, Undisturbed, Waits
  <2>3. \A u \in tasks' : IsCounting(u) => u \in tasks
    <3>1. CASE Ends(t)
      BY <3>1 DEF Ends
    <3>2. CASE Goes(t, "posting")
      <4>1. PICK u : tasks' = (tasks \ {t}) \cup {u} /\ IsAt(u, t.id, "posting")
        BY <2>1, <3>2, ChangedSteps DEF Goes, Becomes
      <4> QED
        BY <4>1 DEF IsAt, IsCounting
    <3> QED
      BY <3>1, <3>2 DEF ClearUnread
  <2>4. Waits' <=> Waits
    BY <2>1 DEF Waits
  <2> QED
    BY <2>1, <2>2, <2>3, <2>4 DEF BadgeInv
<1>BadgeRead. ASSUME NEW t \in tasks, ReadUnread(t)
              PROVE  BadgeInv'
  <2> USE <1>BadgeRead
  <2>1. UNCHANGED <<history, listed, unread, causes>> /\ t.step = "counting" /\ TaskOK(t)
    BY DEF ReadUnread, MessagesInv, stores
  <2>2. PICK u : tasks' = (tasks \ {t}) \cup {u} /\ IsAt(u, t.id, "counted")
    BY <2>1, ChangedSteps DEF ReadUnread, Becomes
  <2>3. IsCounting(t) /\ IsCounting(u) /\ u.id = t.id /\ ~IsClearing(t)
    BY <2>1, <2>2 DEF IsAt, IsCounting, IsClearing
  <2>4. (Waits' <=> Waits) /\ (Undisturbed' <=> Undisturbed)
    BY <2>1 DEF Waits, Undisturbed
  <2> QED
    BY <2>1, <2>2, <2>3, <2>4 DEF BadgeInv
<1>BadgeIncrement. ASSUME NEW t \in tasks, IncrementUnread(t)
                   PROVE  BadgeInv'
  <2> USE <1>BadgeIncrement
  <2>1. UNCHANGED <<history, listed>> /\ t.step = "counted" /\ TaskOK(t) /\ causes \subseteq causes'
    BY DEF IncrementUnread, MessagesInv
  <2>2. unread' # 0
    BY SMT DEF IncrementUnread, CountsInv
  <2>3. PICK u : tasks' = (tasks \ {t}) \cup {u} /\ IsAt(u, t.id, "posting")
    BY <2>1, ChangedSteps DEF IncrementUnread, Goes, Becomes
  <2>4. IsCounting(t) /\ ~IsCounting(u) /\ t.id \in DOMAIN history[Reader]
    BY <2>1, <2>3, TwoClients DEF IsAt, IsCounting, TaskOK, Shape
  <2>5. Undisturbed' => Undisturbed /\ Waits'
    BY <2>1, <2>4 DEF BadgeInv, Undisturbed, Waits
  <2> QED
    BY <2>1, <2>2, <2>3, <2>4, <2>5 DEF BadgeInv
<1>BadgeHandle. ASSUME NEW c \in Client, NEW x \in DOMAIN wire[c], Handle(c, x)
                PROVE  BadgeInv'
  <2> USE <1>BadgeHandle
  <2>1. UNCHANGED <<unread, listed>> /\ causes \subseteq causes'
    BY DEF Handle, ApplyText, ApplyReceipt, ApplyPatch, ApplyEdit, ApplyChunk, stores
  <2>2. PICK z : ~IsCounting(z) /\ ~IsClearing(z)
    <3>1. ~IsCounting([step |-> "posting"]) /\ ~IsClearing([step |-> "posting"])
      BY DEF IsCounting, IsClearing
    <3> QED
      BY <3>1
  <2>3. CASE ApplyText(c, x)
    <3>1. c = Reader
      BY <2>3, TwoClients DEF ApplyText, MessagesInv, ContentOK
    <3>2. Good(Incoming(x.body))
      BY DEF Good, Incoming
    <3>3. PICK g : Update(Reader, g) /\ DOMAIN g = DOMAIN history[Reader] \cup {x.id}
      <4>1. Appends(history[c], AppendMessage(history[c], x.id, Incoming(x.body)), x.id, Incoming(x.body))
        BY <3>2, AppendGrows
      <4> QED
        BY <2>3, <3>1, <4>1 DEF Appends, ApplyText
    <3>4. DOMAIN history'[Reader] = DOMAIN history[Reader] \cup {x.id}
      BY <3>3, TwoClients DEF Update, MessagesInv, HistoryInv
    <3>5. x.id \in DOMAIN history[Reader] => "repeat" \in causes'
      BY <2>3, <3>1 DEF ApplyText
    <3>6. PICK send : tasks' = tasks \cup {Task(c, "handle", x.id, "counting", send)}
      BY <2>3 DEF ApplyText
    <3>7. PICK u : tasks' = tasks \cup {u} /\ IsAt(u, x.id, "counting")
      BY <3>6, TaskSteps
    <3>8. IsCounting(u) /\ u.id = x.id
      BY <3>7 DEF IsAt, IsCounting
    <3> QED
      BY <2>1, <2>2, <3>4, <3>5, <3>7, <3>8, BadgeComesIn
  <2>4. CASE ApplyPatch(c, x)
    <3>1. PICK g : Update(c, g) /\ Patches(history[c], g, x.id, {})
      BY <2>4, DeletePatches, ReactionPatches DEF ApplyPatch, Patched
    <3>2. DOMAIN history'[Reader] = DOMAIN history[Reader]
      BY <3>1, ReaderSame DEF Patches
    <3>3. tasks' = tasks
      BY <2>4 DEF ApplyPatch
    <3> QED
      BY <2>1, <2>2, <3>2, <3>3, BadgeSame
  <2>5. CASE ApplyReceipt(c, x) \/ ApplyEdit(c, x) \/ ApplyChunk(c, x)
    <3>1. history' = history
      BY <2>5 DEF ApplyReceipt, ApplyEdit, ApplyChunk, stores
    <3>2. tasks' = tasks \/ \E u, step : tasks' = tasks \cup {u} /\ step \in {"confirming", "storing"} /\ \E id : IsAt(u, id, step)
      <4>1. CASE ApplyReceipt(c, x)
        BY <4>1, TaskSteps DEF ApplyReceipt
      <4>2. CASE ApplyEdit(c, x)
        <5>1. tasks' = tasks \/ \E copy : tasks' = tasks \cup {[Task(c, "handle", x.id, "storing", <<>>) EXCEPT !.copy = copy]}
          BY <4>2 DEF ApplyEdit
        <5> QED
          BY <5>1, TaskSteps
      <4>3. CASE ApplyChunk(c, x)
        <5>1. tasks' = tasks \/ \E send, copy : tasks' = tasks \cup {[Task(c, "file", x.id, "storing", send) EXCEPT !.copy = copy]}
          BY <4>3 DEF ApplyChunk
        <5> QED
          BY <5>1, TaskSteps
      <4> QED
        BY <2>5, <4>1, <4>2, <4>3
    <3>3. CASE tasks' = tasks
      BY <2>1, <2>2, <3>1, <3>3, BadgeSame
    <3>4. ASSUME NEW u, NEW step, NEW id, tasks' = tasks \cup {u}, step \in {"confirming", "storing"}, IsAt(u, id, step)
          PROVE  BadgeInv'
      <4>1. ~IsCounting(u) /\ ~IsClearing(u)
        BY <3>4 DEF IsAt, IsCounting, IsClearing
      <4> QED
        BY <2>1, <3>1, <3>4, <4>1, BadgeSame
    <3> QED
      BY <3>2, <3>3, <3>4
  <2> QED
    BY <2>3, <2>4, <2>5 DEF Handle
<1>BadgeFault. ASSUME NEW c, Lose(c) \/ Crash(c) \/ UNCHANGED vars
               PROVE  BadgeInv'
  <2> USE <1>BadgeFault
  <2>1. CASE Crash(c)
    BY <2>1 DEF Crash, BadgeInv, Undisturbed
  <2>2. CASE Lose(c) \/ UNCHANGED vars
    BY <2>2 DEF Lose, stores, vars, BadgeInv, Undisturbed, Waits
  <2> QED
    BY <2>1, <2>2
<1>1. ASSUME NEW t \in tasks, TaskStep(t) \/ PostFails(t)
      PROVE  BadgeInv'
  BY <1>1, <1>BadgeTask, <1>BadgeStore, <1>BadgeClear, <1>BadgeRead, <1>BadgeIncrement DEF TaskStep
<1>2. ASSUME NEW id, Retry(id) \/ Delete(id) \/ Edit(id) \/ \E c \in Client : React(c, id)
      PROVE  BadgeInv'
  BY <1>2, <1>BadgeCall, TwoClients
<1> QED
  BY <1>1, <1>2, <1>BadgeCall, <1>BadgeMarkRead, <1>BadgeHandle, <1>BadgeFault, TwoClients DEF Next

(* Every message that comes in lights the badge until a markRead has       *)
(* listed it, and none lights it longer, however texts, files, counts and  *)
(* markReads interleave, unless the two kinds of call overlap, a text is   *)
(* repeated or the page closes.                                            *)
THEOREM BadgeShowsWhatWaits == Spec => []BadgeIsTrue
<1>1. Init => CountsInv /\ BadgeInv
  BY TwoClients, SMT DEF Init, CountsInv, BadgeInv, Waits, EmptyHistory
<1>2. BadgeInv => BadgeIsTrue
  BY DEF BadgeInv, BadgeIsTrue, Undisturbed, Waits, Resting
<1> QED
  BY <1>1, <1>2, MessagesInit, MessagesStep, CountsStep, BadgeStep, PTL DEF Spec
=============================================================================

------------------------------ MODULE Sessions ------------------------------
(***************************************************************************)
(* The sessions of two clients with each other, as the engine of           *)
(* web/src/lib/client/chat-client.ts keeps them: a session is an object in *)
(* memory that encrypt and decrypt change in place, the map sessions says  *)
(* which object a conversation uses, and the vault has a copy.  sendContent*)
(* and openEnvelope run concurrently and give way to each other at every   *)
(* await that goes to storage or the network; the cryptography between two *)
(* of those runs without interruption.                                     *)
(*                                                                         *)
(* The server is the queue of module Delivery without its faults, and a    *)
(* pool of one-time prekeys that is not refilled.                          *)
(***************************************************************************)
EXTENDS X3dh

CONSTANTS
  Device,       \* the two clients
  OneTimeKeys,  \* one-time prekeys of each at the start
  MaxSends,     \* bound: messages of both
  MaxTasks,     \* bound: calls under way at a time
  Faults,       \* the kinds of fault this instance injects
  MaxFaults     \* bound: how many of them in a behaviour

FaultKind == {"crash", "request", "forget"}

ASSUME SessionsAssumption ==
  /\ Cardinality(Device) = 2
  /\ OneTimeKeys \in Nat /\ MaxSends \in Nat /\ MaxTasks \in Nat /\ MaxFaults \in Nat
  /\ Faults \subseteq FaultKind

VARIABLES
  objects,  \* every session object there has been, in memory
  cache,    \* ChatClient.sessions: the object of the conversation, 0 if none
  vault,    \* the saved session, a set of at most one
  otks,     \* private one-time prekeys in memory, by id
  savedOtks,\* the same in the vault
  pool,     \* public one-time prekeys at the server
  queue,    \* envelopes queued for each client
  tasks,    \* calls of sendContent, openEnvelope and deleteConversation under way
  saves,    \* the write chain of the session record: tasks in order
  made,     \* messages so far
  keys,     \* the number of the next key pair
  faults,   \* faults so far
  sealed,   \* every message ever sealed, with its key
  applied,  \* messages each client has applied
  again,    \* messages applied more than once
  lost,     \* messages acknowledged without being applied
  starters, \* clients that ever ran X3DH as initiator
  causes    \* what went on that may cost a message or a key

local == <<objects, cache, vault, otks, savedOtks, tasks, saves>>
history == <<sealed, applied, again, lost, starters, causes>>
vars == <<local, pool, queue, made, keys, faults, history>>

Other(d) == CHOOSE e \in Device : e # d

Init ==
  /\ objects = <<>>
  /\ cache = [d \in Device |-> 0]
  /\ vault = [d \in Device |-> {}]
  /\ otks = [d \in Device |-> 1 .. OneTimeKeys]
  /\ savedOtks = otks
  /\ pool = otks
  /\ queue = [d \in Device |-> {}]
  /\ tasks = {}
  /\ saves = [d \in Device |-> <<>>]
  /\ made = 0
  /\ keys = OneTimeKeys + 2
  /\ faults = 0
  /\ sealed = {}
  /\ applied = [d \in Device |-> {}]
  /\ again = {}
  /\ lost = {}
  /\ starters = {}
  /\ causes = {}

Fault(kind) ==
  /\ kind \in Faults
  /\ faults < MaxFaults
  /\ faults' = faults + 1

-----------------------------------------------------------------------------
(* Tasks.  wire is what the task has sealed or opens. *)
Task(d, op, id, wire) ==
  [dev |-> d, op |-> op, id |-> id, wire |-> wire, step |-> "loading", obj |-> 0, otk |-> {}]

Becomes(t, step, o) == tasks' = (tasks \ {t}) \cup {[t EXCEPT !.step = step, !.obj = o]}

(* sessions.set.  An object that replaces another one leaves calls behind  *)
(* that still use the first.                                               *)
Install(d, o) ==
  /\ cache' = [cache EXCEPT ![d] = o]
  /\ causes' = IF cache[d] \in {0, o} THEN causes ELSE causes \cup {"split"}

(* saveSession: the task waits in the write chain of the record. *)
EnqueueSave(t, step, o) ==
  /\ Becomes(t, step, o)
  /\ saves' = [saves EXCEPT ![t.dev] = Append(@, [t EXCEPT !.step = step, !.obj = o])]

-----------------------------------------------------------------------------
(* Mutant: the handshake rides on the first message only. *)
WireOnce(s, d, id) ==
  [id |-> id, from |-> d,
   header |-> IF s.state.sendCount = 0 THEN s.pending ELSE {}, body |-> Sealed(s.state, id)]

(* encrypt: until the peer has answered, every message carries the X3DH    *)
(* header.                                                                 *)
Wire(s, d, id) == [id |-> id, from |-> d, header |-> s.pending, body |-> Sealed(s.state, id)]

(* Task t seals its message with object o of objs and posts it. *)
Seal(t, o, objs) ==
  LET w == Wire(objs[o], t.dev, t.id)
  IN  /\ objects' = [objs EXCEPT ![o].state = Encrypted(@)]
      /\ sealed' = sealed \cup {[id |-> t.id, chain |-> w.body.chain, n |-> w.body.n]}
      /\ tasks' = (tasks \ {t}) \cup
                    {[t EXCEPT !.step = "posting", !.obj = o, !.wire = {w}]}

(* sendContent: with a session in the map the message is sealed at once. *)
Send(d) ==
  LET t == Task(d, "send", made + 1, {})
  IN  /\ made < MaxSends /\ Cardinality(tasks) < MaxTasks
      /\ made' = made + 1
      /\ \/ cache[d] # 0 /\ Seal(t, cache[d], objects)
         \/ cache[d] = 0 /\ tasks' = tasks \cup {t} /\ UNCHANGED <<objects, sealed>>
      /\ UNCHANGED <<cache, vault, otks, savedOtks, saves, pool, queue, keys, faults,
                     applied, again, lost, starters, causes>>

(* sessionFor: the saved session, deserialised into a new object. *)
LoadToSend(t) ==
  /\ t.op = "send" /\ t.step = "loading"
  /\ \/ \E s \in vault[t.dev] :
          /\ Seal(t, Len(objects) + 1, Append(objects, s))
          /\ Install(t.dev, Len(objects) + 1)
     \/ /\ vault[t.dev] = {}
        /\ Becomes(t, "fetching", 0)
        /\ UNCHANGED <<objects, sealed, cache, causes>>
  /\ UNCHANGED <<vault, otks, savedOtks, saves, pool, queue, made, keys, faults,
                 applied, again, lost, starters>>

(* The one-time prekey a bundle of d has, if one is left. *)
NextPrekey(d) == {i \in pool[d] : \A j \in pool[d] : i <= j}

(* sessionFor without a saved session: fetchBundle takes a one-time prekey *)
(* of the peer.                                                            *)
FetchBundle(t) ==
  LET otk == NextPrekey(Other(t.dev))
  IN  /\ t.step = "fetching"
      /\ pool' = [pool EXCEPT ![Other(t.dev)] = @ \ otk]
      /\ tasks' = (tasks \ {t}) \cup {[t EXCEPT !.step = "recording", !.otk = otk]}
      /\ UNCHANGED <<objects, cache, vault, otks, savedOtks, saves, queue, made, keys, faults, history>>

(* ... and, once the peer's identity is recorded, startSession.  The new   *)
(* session is saved before it is used.                                     *)
StartSession(t) ==
  LET d == t.dev
      ephemeral == <<d, keys>>
      secret == InitiateX3DH(d, Other(d), ephemeral, t.otk)
      s == [state |-> InitializeInitiator(secret, <<d, keys + 1>>, SignedPrekey(Other(d))),
            pending |-> {InitialHeader(d, ephemeral, t.otk)}]
  IN  /\ t.step = "recording"
      /\ keys' = keys + 2
      /\ objects' = Append(objects, s)
      /\ Install(d, Len(objects) + 1)
      /\ EnqueueSave(t, "starting", Len(objects) + 1)
      /\ starters' = starters \cup {d}
      /\ UNCHANGED <<vault, otks, savedOtks, pool, queue, made, faults, sealed, applied, again, lost>>

(* sendEnvelope succeeds, and the session of the map is persisted. *)
Post(t) ==
  /\ t.step = "posting"
  /\ queue' = [queue EXCEPT ![Other(t.dev)] = @ \cup t.wire]
  /\ \/ cache[t.dev] # 0 /\ EnqueueSave(t, "persisting", cache[t.dev])
     \/ cache[t.dev] = 0 /\ tasks' = tasks \ {t} /\ UNCHANGED saves
  /\ UNCHANGED <<objects, cache, vault, otks, savedOtks, pool, made, keys, faults, history>>

(* Fault: a request throws, whether or not the server carried it out. *)
RequestFails(t) ==
  /\ t.step \in {"fetching", "posting"}
  /\ Fault("request")
  /\ \E done \in SUBSET t.wire : queue' = [queue EXCEPT ![Other(t.dev)] = @ \cup done]
  /\ \/ UNCHANGED pool
     \/ /\ t.step = "fetching"
        /\ pool' = [pool EXCEPT ![Other(t.dev)] = @ \ NextPrekey(Other(t.dev))]
  /\ tasks' = tasks \ {t}
  /\ causes' = causes \cup {"failed"}
  /\ UNCHANGED <<objects, cache, vault, otks, savedOtks, saves, made, keys,
                 sealed, applied, again, lost, starters>>

(* The head of the write chain is written: the object as it is now. *)
Save(d) ==
  LET t == Head(saves[d])
  IN  /\ saves[d] # <<>>
      /\ saves' = [saves EXCEPT ![d] = Tail(@)]
      /\ vault' = [vault EXCEPT ![d] = {objects[t.obj]}]
      /\ \/ t.step = "starting" /\ Seal(t, t.obj, objects)
         \/ t.step = "persisting" /\ tasks' = tasks \ {t} /\ UNCHANGED <<objects, sealed>>
         \/ t.step = "saving" /\ Becomes(t, "applying", t.obj) /\ UNCHANGED <<objects, sealed>>
      /\ UNCHANGED <<cache, otks, savedOtks, pool, queue, made, keys, faults,
                     applied, again, lost, starters, causes>>

-----------------------------------------------------------------------------
(* Mutant: the working copy is not committed to the session. *)
DecryptedUncommitted(s, m, fresh) == s

(* decryptMessage, with the key pair fresh should it ratchet. *)
DecryptedWith(s, m, fresh) ==
  LET w == Decrypted(s, m)
      sending == AdvanceRootKey(w.receiving, DH(fresh, m.dh))
  IN  IF Cached(s, m) \/ ~IsNewRatchetKey(s, m) THEN w
      ELSE [w EXCEPT !.ours = fresh, !.sending = sending, !.root = sending]

(* Mutant: openEnvelope does not persist the session. *)
OpenWithUnsaved(t, o, objs) ==
  \E w \in t.wire :
    /\ Opens(objs[o].state, w.body)
    /\ objects' = [objs EXCEPT ![o] =
                     [state |-> DecryptedWith(@.state, w.body, <<t.dev, keys>>), pending |-> {}]]
    /\ keys' = keys + 1
    /\ Install(t.dev, o)
    /\ Becomes(t, "applying", o)
    /\ UNCHANGED saves

(* Task t opens its envelope with object o of objs; a failure goes to      *)
(* onError and the envelope is acknowledged all the same.                  *)
OpenWith(t, o, objs) ==
  \E w \in t.wire :
    IF Opens(objs[o].state, w.body)
      THEN /\ objects' = [objs EXCEPT ![o] =
                            [state |-> DecryptedWith(@.state, w.body, <<t.dev, keys>>), pending |-> {}]]
           /\ keys' = keys + 1
           /\ Install(t.dev, o)
           /\ EnqueueSave(t, "saving", o)
      ELSE /\ Becomes(t, "acking", 0)
           /\ UNCHANGED <<objects, keys, cache, causes, saves>>

(* openEnvelope for an envelope the transport has not yet handed over. *)
Open(d) ==
  \E w \in queue[d] :
    LET t == Task(d, "open", w.id, {w})
    IN  /\ Cardinality(tasks) < MaxTasks
        /\ ~\E u \in tasks : u.op = "open" /\ u.wire = {w}
        /\ \/ cache[d] # 0 /\ OpenWith(t, cache[d], objects)
           \/ /\ cache[d] = 0
              /\ tasks' = tasks \cup {t}
              /\ UNCHANGED <<objects, keys, cache, causes, saves>>
        /\ UNCHANGED <<vault, otks, savedOtks, pool, queue, made, faults,
                       sealed, applied, again, lost, starters>>

(* takeOneTimePrekey takes the key out of the stored identity first. *)
TakeOneTimePrekey(t, h) ==
  /\ h.otk \subseteq otks[t.dev]
  /\ otks' = [otks EXCEPT ![t.dev] = @ \ h.otk]
  /\ Becomes(t, IF h.otk = {} THEN "accepting" ELSE "taking", 0)

(* Another call is making a session that the vault does not have yet. *)
FirstContact(d) ==
  \/ cache[d] # 0
  \/ \E u \in tasks : u.dev = d /\ u.step \in {"taking", "accepting"}

(* With no session in the map: the saved one, or else the payload must be  *)
(* a handshake whose prekeys are there.                                    *)
LoadToOpen(t) ==
  /\ t.op = "open" /\ t.step = "loading"
  /\ \/ \E s \in vault[t.dev] :
          /\ OpenWith(t, Len(objects) + 1, Append(objects, s))
          /\ UNCHANGED otks
     \/ /\ vault[t.dev] = {}
        /\ \E w \in t.wire :
             \/ \E h \in w.header : TakeOneTimePrekey(t, h)
             \/ /\ ~\E h \in w.header : h.otk \subseteq otks[t.dev]
                /\ Becomes(t, "acking", 0)
                /\ UNCHANGED otks
        /\ causes' = IF FirstContact(t.dev) THEN causes \cup {"raced"} ELSE causes
        /\ UNCHANGED <<objects, keys, cache, saves>>
  /\ UNCHANGED <<vault, savedOtks, pool, queue, made, faults, sealed, applied, again, lost, starters>>

(* persistIdentity, without the consumed prekey. *)
SaveIdentity(t) ==
  /\ t.step = "taking"
  /\ savedOtks' = [savedOtks EXCEPT ![t.dev] = otks[t.dev]]
  /\ Becomes(t, "accepting", 0)
  /\ UNCHANGED <<objects, cache, vault, otks, saves, pool, queue, made, keys, faults, history>>

(* acceptSession: the session exists only once the message authenticates;  *)
(* then it is installed and saved.                                         *)
Accept(t) ==
  /\ t.step = "accepting"
  /\ \E w \in t.wire, h \in UNION {w.header : w \in t.wire} :
       LET s == InitializeResponder(RespondX3DH(t.dev, h), SignedPrekey(t.dev))
       IN  IF Opens(s, w.body)
             THEN /\ objects' = Append(objects,
                        [state |-> DecryptedWith(s, w.body, <<t.dev, keys>>), pending |-> {}])
                  /\ Install(t.dev, Len(objects) + 1)
                  /\ EnqueueSave(t, "saving", Len(objects) + 1)
             ELSE Becomes(t, "acking", 0) /\ UNCHANGED <<objects, cache, causes, saves>>
  /\ keys' = keys + 1
  /\ UNCHANGED <<vault, otks, savedOtks, pool, queue, made, faults,
                 sealed, applied, again, lost, starters>>

(* applyContent; module Messages has what it does. *)
Apply(t) ==
  /\ t.step = "applying"
  /\ applied' = [applied EXCEPT ![t.dev] = @ \cup {t.id}]
  /\ again' = IF t.id \in applied[t.dev] THEN again \cup {t.id} ELSE again
  /\ Becomes(t, "acking", 0)
  /\ UNCHANGED <<objects, cache, vault, otks, savedOtks, saves, pool, queue, made, keys, faults,
                 sealed, lost, starters, causes>>

(* handleEnvelope has returned and the transport acknowledges. *)
Ack(t) ==
  /\ t.step = "acking"
  /\ queue' = [queue EXCEPT ![t.dev] = @ \ t.wire]
  /\ lost' = IF t.id \in applied[t.dev] THEN lost ELSE lost \cup {t.id}
  /\ tasks' = tasks \ {t}
  /\ UNCHANGED <<objects, cache, vault, otks, savedOtks, saves, pool, made, keys, faults,
                 sealed, applied, again, starters, causes>>

-----------------------------------------------------------------------------
(* deleteConversation: the session leaves the map at once ... *)
Forget(d) ==
  /\ Fault("forget")
  /\ cache' = [cache EXCEPT ![d] = 0]
  /\ tasks' = tasks \cup {Task(d, "forget", 0, {})}
  /\ causes' = causes \cup {"forgot"}
  /\ UNCHANGED <<objects, vault, otks, savedOtks, saves, pool, queue, made, keys,
                 sealed, applied, again, lost, starters>>

(* ... and the vault later, outside the write chain. *)
EndForget(t) ==
  /\ t.op = "forget"
  /\ vault' = [vault EXCEPT ![t.dev] = {}]
  /\ tasks' = tasks \ {t}
  /\ UNCHANGED <<objects, cache, otks, savedOtks, saves, pool, queue, made, keys, faults, history>>

(* A call is under way, or one failed before it saved the session. *)
Busy(d) == "failed" \in causes \/ \E t \in tasks : t.dev = d

(* Fault: the page is closed and opened again. *)
Crash(d) ==
  /\ Fault("crash")
  /\ cache' = [cache EXCEPT ![d] = 0]
  /\ saves' = [saves EXCEPT ![d] = <<>>]
  /\ tasks' = {t \in tasks : t.dev # d}
  /\ otks' = [otks EXCEPT ![d] = savedOtks[d]]
  /\ causes' = IF Busy(d) THEN causes \cup {"cut"} ELSE causes
  /\ UNCHANGED <<objects, vault, savedOtks, pool, queue, made, keys,
                 sealed, applied, again, lost, starters>>

TaskStep(t) ==
  \/ LoadToSend(t) \/ FetchBundle(t) \/ StartSession(t) \/ Post(t)
  \/ LoadToOpen(t) \/ SaveIdentity(t) \/ Accept(t) \/ Apply(t) \/ Ack(t)
  \/ EndForget(t)

Next ==
  \/ \E d \in Device : Send(d) \/ Open(d) \/ Save(d) \/ Forget(d) \/ Crash(d)
  \/ \E t \in tasks : TaskStep(t) \/ RequestFails(t)

Spec == Init /\ [][Next]_vars

-----------------------------------------------------------------------------
(* "Reuse is impossible because each message key is produced once by the   *)
(* chain and destroyed on use" (ratchet.ts:123-124).  The functions of     *)
(* ratchet.ts keep it on one session object; a client that goes on from an *)
(* older copy of the object seals with its keys again.                     *)
KeySealsOnce ==
  \A w, x \in sealed : w.chain = x.chain /\ w.n = x.n => w = x

(* What such a reuse can cost: a client that closed before its session was *)
(* saved may seal a second message with a key it has used, and of the two  *)
(* the peer applies at most one, also when the peer closes and receives    *)
(* them again.  Only a peer with two objects for the conversation, or      *)
(* whose session was deleted, can open both.                               *)
KeyOpensOnce ==
  causes \cap {"split", "forgot"} = {} =>
    \A d \in Device : \A w, x \in sealed :
      {w.id, x.id} \subseteq applied[d] /\ w.chain = x.chain /\ w.n = x.n => w = x

(* An envelope that is acknowledged has been applied, in any interleaving  *)
(* of sendContent and openEnvelope, whatever requests fail, unless both    *)
(* clients opened the conversation themselves, two objects were in use, or *)
(* a page closed mid-way or a conversation was deleted.                    *)
NothingLostUndisturbed == causes \subseteq {"failed"} /\ starters # Device => lost = {}

(* An envelope that comes again because the page closed before the         *)
(* acknowledgement is not applied a second time: the session that opened   *)
(* it was saved first.  A deleted or replaced session forgets that.        *)
AppliedOnce == causes \cap {"split", "forgot"} = {} => again = {}

(* handleEnvelope: "one message that will not decrypt must not wedge the   *)
(* conversation": when both clients are idle, what one seals now the other *)
(* opens.                                                                  *)
NotWedged ==
  (tasks = {} /\ \A d \in Device : queue[d] = {}) =>
    \A d \in Device : (cache[d] # 0 /\ cache[Other(d)] # 0) =>
      Opens(objects[cache[Other(d)]].state, Sealed(objects[cache[d]].state, 0))
=============================================================================
